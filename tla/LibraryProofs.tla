---------------------------- MODULE LibraryProofs ----------------------------
(***************************************************************************)
(* Proofs about five components that have no part of each other's state:   *)
(* the PowerPC's interrupt layer (PpcIrq), decryption across the two       *)
(* caches (Aes), the loader of boot2 (Boot2), SHA-1 (Sha1), and the reader *)
(* of the console's file system (NandFs).                                  *)
(***************************************************************************)
EXTENDS PpcIrq, Aes, Boot2, Sha1, NandFs, FiniteSetTheorems, SequenceTheorems,
        WellFoundedInduction, TLAPS

(***************************************************************************)
(* The interrupt layer, for every set of sources and any number of calls,  *)
(* nestings and reboots.  OwnedByOne speaks of the moments between calls;  *)
(* the invariant says of every moment which processor has each source:     *)
(* while a source changes hands nobody has it, and what a processor has    *)
(* read of ARMIRQMASK is still there unless they raced.                    *)
(***************************************************************************)
(* The source that is on its way from one processor to the other. *)
Between == IF main.pc \in {"mask", "read", "give"} THEN {main.s} ELSE {}

ReadsAreFresh ==
    /\ main.pc \in {"take", "give"} => main.mask = armMask
    /\ arm.pc # "idle" => arm.mask = armMask

Apart ==
    /\ armMask \cap ppcMask = {}
    /\ main.pc = "mask" => main.s \notin armMask
    /\ main.pc \in {"read", "give"} => main.s \notin ppcMask

(* Those the ARM began with and does not give up itself are somewhere. *)
NoneLost == ArmBoot \ ArmOwn \subseteq armMask \cup ppcMask \cup Between

Owners == ~raced => ReadsAreFresh /\ Apart /\ (~rebooted => NoneLost)

IrqInv == TypeOK /\ Owners

-----------------------------------------------------------------------------
(* The steps that leave the masks, the ARM's read and what is between the  *)
(* processors alone.                                                       *)
Quiet ==
    /\ UNCHANGED <<armMask, ppcMask, arm, raced>>
    /\ rebooted => rebooted'
    /\ main' = main \/ (Between' = {} /\ Between = {} /\ main'.pc \notin {"take", "mask", "read", "give"})

LEMMA QuietKeeps == Owners /\ Quiet => Owners'
BY DEF Owners, Quiet, ReadsAreFresh, Apart, NoneLost, Between

-----------------------------------------------------------------------------
(* The types. *)
USE IrqAssumption

LEMMA TypeInit == Init => TypeOK
BY DEF Init, TypeOK, At, HandlerIdle, Idle, Pcs

LEMMA TypeMain == TypeOK /\ Main => TypeOK'
<1> SUFFICES ASSUME TypeOK, Main PROVE TypeOK'
  OBVIOUS
<1>1. CASE Initialize
  BY <1>1 DEF Initialize, Starts, Goes, Runs, ClearAll, Clear, Read, At, Idle, TypeOK, Pcs, masks, bounds
<1>2. CASE EnableMsr
  BY <1>2 DEF EnableMsr, Starts, Goes, Runs, ClearAll, Clear, Read, At, Idle, TypeOK, Pcs, masks, bounds
<1>3. CASE EnableWipe
  BY <1>3 DEF EnableWipe, Starts, Goes, Runs, ClearAll, Clear, Read, At, Idle, TypeOK, Pcs, masks, bounds
<1>4. CASE Disable
  BY <1>4 DEF Disable, Starts, Goes, Runs, ClearAll, Clear, Read, At, Idle, TypeOK, Pcs, masks, bounds
<1>5. CASE DisableMsr
  BY <1>5 DEF DisableMsr, Starts, Goes, Runs, ClearAll, Clear, Read, At, Idle, TypeOK, Pcs, masks, bounds
<1>6. CASE Restore
  BY <1>6 DEF Restore, Starts, Goes, Runs, ClearAll, Clear, Read, At, Idle, TypeOK, Pcs, masks, bounds
<1>7. CASE Shutdown
  BY <1>7 DEF Shutdown, Starts, Goes, Runs, ClearAll, Clear, Read, At, Idle, TypeOK, Pcs, masks, bounds
<1>8. CASE BwEnable
  BY <1>8 DEF BwEnable, Starts, Goes, Runs, ClearAll, Clear, Read, At, Idle, TypeOK, Pcs, masks, bounds
<1>9. CASE BwDisable
  BY <1>9 DEF BwDisable, Starts, Goes, Runs, ClearAll, Clear, Read, At, Idle, TypeOK, Pcs, masks, bounds
<1>10. ASSUME NEW s \in Mine, HwEnable(s) PROVE TypeOK'
  BY <1>10 DEF HwEnable, Starts, Read, Runs, TypeOK, Pcs, masks, bounds
<1>18. ASSUME NEW s \in Mine, HwDisable(s) PROVE TypeOK'
  BY <1>18 DEF HwDisable, Starts, At, Runs, TypeOK, Pcs, masks, bounds
<1>11. CASE Take
  BY <1>11 DEF Take, Starts, Goes, Runs, ClearAll, Clear, Read, At, Idle, TypeOK, Pcs, masks, bounds
<1>12. CASE Mask
  BY <1>12 DEF Mask, Starts, Goes, Runs, ClearAll, Clear, Read, At, Idle, TypeOK, Pcs, masks, bounds
<1>13. CASE Ack
  BY <1>13 DEF Ack, Starts, Goes, Runs, ClearAll, Clear, Read, At, Idle, TypeOK, Pcs, masks, bounds
<1>14. CASE GiveRead
  BY <1>14 DEF GiveRead, Starts, Goes, Runs, ClearAll, Clear, Read, At, Idle, TypeOK, Pcs, masks, bounds
<1>15. CASE Give
  BY <1>15 DEF Give, Starts, Goes, Runs, ClearAll, Clear, Read, At, Idle, TypeOK, Pcs, masks, bounds
<1>16. CASE GpioRead
  BY <1>16 DEF GpioRead, Starts, Goes, Runs, ClearAll, Clear, Read, At, Idle, TypeOK, Pcs, masks, bounds
<1>17. CASE GpioSeen
  BY <1>17 DEF GpioSeen, Starts, Goes, Runs, ClearAll, Clear, Read, At, Idle, TypeOK, Pcs, masks, bounds
<1>19. QED
  BY <1>18, <1>1, <1>2, <1>3, <1>4, <1>5, <1>6, <1>7, <1>8, <1>9, <1>10, <1>11, <1>12, <1>13, <1>14, <1>15, <1>16, <1>17 DEF Main

LEMMA TypeRest == TypeOK /\ (Handler \/ Arm \/ Reboot \/ \E s \in Sources : Raise(s)) => TypeOK'
<1> SUFFICES ASSUME TypeOK, Handler \/ Arm \/ Reboot \/ \E s \in Sources : Raise(s) PROVE TypeOK'
  OBVIOUS
<1>1. CASE Enter
  BY <1>1 DEF Enter, Runs, TypeOK, masks, bounds
<1>2. ASSUME NEW s \in Sources, Exec(s) PROVE TypeOK'
  BY <1>2 DEF Exec, TypeOK, masks, bounds
<1>3. CASE Acked
  BY <1>3 DEF Acked, Clear, TypeOK, masks, bounds
<1>4. CASE Leave
  BY <1>4 DEF Leave, HandlerIdle, TypeOK, masks, bounds
<1>5. ASSUME NEW s \in ArmOwn, ArmRead(s) PROVE TypeOK'
  BY <1>5 DEF ArmRead, Read, TypeOK, masks, bounds
<1>6. CASE ArmWrite
  BY <1>6 DEF ArmWrite, Idle, TypeOK, masks, bounds
<1>7. CASE Reboot
  BY <1>7 DEF Reboot, At, HandlerIdle, TypeOK, Pcs, masks, bounds
<1>8. ASSUME NEW s \in Sources, Raise(s) PROVE TypeOK'
  BY <1>8 DEF Raise, TypeOK, masks, bounds
<1>9. QED
  BY <1>1, <1>2, <1>3, <1>4, <1>5, <1>6, <1>7, <1>8 DEF Handler, Arm

LEMMA TypeNext == TypeOK /\ [Next]_vars => TypeOK'
<1>1. TypeOK /\ UNCHANGED vars => TypeOK'
  BY DEF vars, TypeOK
<1>2. QED
  BY <1>1, TypeMain, TypeRest DEF Next

-----------------------------------------------------------------------------
(* Who has the sources. *)
LEMMA OwnersInit == Init => Owners
BY DEF Init, Owners, ReadsAreFresh, Apart, NoneLost, Between, At, Idle

(* Most steps of the program and all of its handler's are quiet. *)
LEMMA QuietSteps ==
    ASSUME TypeOK,
           \/ EnableMsr \/ EnableWipe \/ Disable \/ DisableMsr \/ Restore
           \/ BwEnable \/ BwDisable \/ Ack \/ GpioRead \/ GpioSeen
           \/ Handler \/ \E s \in Sources : Raise(s)
    PROVE  Quiet
<1>1. CASE EnableMsr
  BY <1>1 DEF EnableMsr, Starts, Goes, At, Idle, Quiet, Between, masks, bounds
<1>2. CASE EnableWipe
  BY <1>2 DEF EnableWipe, Starts, Goes, At, Idle, Quiet, Between, masks, bounds
<1>3. CASE Disable
  BY <1>3 DEF Disable, Starts, Goes, At, Idle, Quiet, Between, masks, bounds
<1>4. CASE DisableMsr
  BY <1>4 DEF DisableMsr, Starts, Goes, At, Idle, Quiet, Between, masks, bounds
<1>5. CASE Restore
  BY <1>5 DEF Restore, Starts, Goes, At, Idle, Quiet, Between, masks, bounds
<1>6. CASE BwEnable
  BY <1>6 DEF BwEnable, Starts, Goes, At, Idle, Quiet, Between, masks, bounds
<1>7. CASE BwDisable
  BY <1>7 DEF BwDisable, Starts, Goes, At, Idle, Quiet, Between, masks, bounds
<1>8. CASE Ack
  BY <1>8 DEF Ack, Starts, Goes, At, Idle, Quiet, Between, masks, bounds
<1>9. CASE GpioRead
  BY <1>9 DEF GpioRead, Starts, Goes, At, Idle, Quiet, Between, masks, bounds
<1>10. CASE GpioSeen
  BY <1>10 DEF GpioSeen, Starts, Goes, At, Idle, Quiet, Between, masks, bounds
<1>11. CASE Enter \/ Acked \/ Leave
  BY <1>11 DEF Enter, Acked, Leave, Quiet, masks, bounds
<1>12. ASSUME NEW s \in Sources, Exec(s) \/ Raise(s) PROVE Quiet
  BY <1>12 DEF Exec, Raise, Quiet, masks, bounds
<1>13. QED
  BY <1>1, <1>2, <1>3, <1>4, <1>5, <1>6, <1>7, <1>8, <1>9, <1>10, <1>11, <1>12 DEF Handler

(* A source changes hands. *)
LEMMA HandOver ==
    ASSUME IrqInv,
           \/ Initialize \/ Shutdown \/ (\E s \in Mine : HwEnable(s) \/ HwDisable(s))
           \/ Take \/ Mask \/ GiveRead \/ Give
    PROVE  Owners'
<1> USE DEF IrqInv, TypeOK, Owners, ReadsAreFresh, Apart, NoneLost, Between
<1>1. CASE Initialize
  BY <1>1 DEF Initialize, Goes, At
<1>2. CASE Shutdown
  BY <1>2 DEF Shutdown, Starts, At
<1>3. ASSUME NEW s \in Mine, HwEnable(s) PROVE Owners'
  BY <1>3 DEF HwEnable, Starts, Read, masks
<1>4. ASSUME NEW s \in Mine, HwDisable(s) PROVE Owners'
  BY <1>4 DEF HwDisable, Starts, At, masks
<1>5. CASE Take
  BY <1>5 DEF Take, Goes, At, Reading
<1>6. CASE Mask
  BY <1>6 DEF Mask, Goes, At
<1>7. CASE GiveRead
  BY <1>7 DEF GiveRead, Goes, Read, masks
<1>8. CASE Give
  <2>1. CASE raced \/ Reading(arm)
    BY <1>8, <2>1 DEF Give
  <2>2. CASE ~raced /\ ~Reading(arm)
    <3>1. /\ armMask' = armMask \cup {main.s} /\ main'.pc = "ack"
          /\ UNCHANGED <<ppcMask, arm, rebooted>>
      BY <1>8, <2>2 DEF Give, Goes, At
    <3>2. arm.pc = "idle"
      BY <2>2 DEF Reading
    <3>3. ReadsAreFresh' /\ Apart'
      BY <1>8, <2>2, <3>1, <3>2 DEF Give, Goes
    <3>4. ~rebooted => NoneLost'
      BY <1>8, <2>2, <3>1 DEF Give, Goes
    <3>5. QED
      BY <3>1, <3>3, <3>4
  <2>3. QED
    BY <2>1, <2>2
<1>9. QED
  BY <1>1, <1>2, <1>3, <1>4, <1>5, <1>6, <1>7, <1>8

(* The ARM changes its mask, or starts another program. *)
LEMMA ArmSide == ASSUME IrqInv, Arm \/ Reboot PROVE Owners'
<1> USE DEF IrqInv, TypeOK, Owners, ReadsAreFresh, Apart, NoneLost, Between
<1>1. ASSUME NEW s \in ArmOwn, ArmRead(s) PROVE Owners'
  BY <1>1 DEF ArmRead, Read, masks
<1>2. CASE ArmWrite
  <2>1. CASE raced \/ Reading(main)
    BY <1>2, <2>1 DEF ArmWrite
  <2>2. CASE ~raced /\ ~Reading(main)
    <3>1. /\ armMask' = armMask \cup {arm.s} \/ armMask' = armMask \ {arm.s}
          /\ arm'.pc = "idle" /\ arm.s \in ArmOwn
          /\ UNCHANGED <<ppcMask, main, rebooted>>
      BY <1>2, <2>2 DEF ArmWrite, Idle
    <3>2. main.pc \notin {"take", "give"}
      BY <2>2 DEF Reading
    <3>3. ReadsAreFresh'
      BY <3>1, <3>2
    <3>4. Apart'
      BY <2>2, <3>1, <3>2
    <3>5. ~rebooted => NoneLost'
      BY <2>2, <3>1
    <3>6. QED
      BY <3>1, <3>3, <3>4, <3>5
  <2>3. QED
    BY <2>1, <2>2
<1>3. CASE Reboot
  BY <1>3 DEF Reboot, At, masks
<1>4. QED
  BY <1>1, <1>2, <1>3 DEF Arm

LEMMA IrqNext == IrqInv /\ [Next]_vars => IrqInv'
<1> SUFFICES ASSUME IrqInv, [Next]_vars PROVE Owners'
  BY TypeNext DEF IrqInv
<1>1. CASE UNCHANGED vars
  BY <1>1 DEF vars, IrqInv, Owners, ReadsAreFresh, Apart, NoneLost, Between
<1>2. CASE Next
  BY <1>2, QuietSteps, QuietKeeps, HandOver, ArmSide DEF Next, Main, IrqInv
<1>3. QED
  BY <1>1, <1>2

THEOREM IrqInvariant == Spec => []IrqInv
<1>1. Init => IrqInv
  BY TypeInit, OwnersInit DEF IrqInv
<1>2. QED
  BY <1>1, IrqNext, PTL DEF Spec

(***************************************************************************)
(* The registers, the calls and the handler have their types; the PowerPC  *)
(* never enables a source the program does not ask for.                    *)
(***************************************************************************)
THEOREM IrqTypeCorrect == Spec => []TypeOK
<1>1. IrqInv => TypeOK
  BY DEF IrqInv
<1>2. QED
  BY <1>1, IrqInvariant, PTL

(***************************************************************************)
(* Between two calls of irq_hw_enable and irq_hw_disable no source belongs *)
(* to both processors, and none is lost, if the ARM did not write          *)
(* ARMIRQMASK in the middle of one.                                        *)
(***************************************************************************)
THEOREM OwnersAreOne == Spec => []OwnedByOne
<1>1. IrqInv => OwnedByOne
  BY DEF IrqInv, Owners, Apart, NoneLost, Between, OwnedByOne
<1>2. QED
  BY <1>1, IrqInvariant, PTL

HIDE IrqAssumption

-----------------------------------------------------------------------------
(***************************************************************************)
(* Decryption.  While a job is being done:                                 *)
(*   - the newest ciphertext of a block that is not decrypted yet is what  *)
(*     the program wrote: in its cache as long as the line is dirty there, *)
(*     which no line is once the engine may read, and in memory after      *)
(*     that, and so in every line the bus holds back (CipherInv);          *)
(*   - the plaintext of a block that is decrypted is on the bus or in      *)
(*     memory, and nothing that is written back lies over it (PlainInv);   *)
(*   - the lines of the plaintext have left the ARM's cache before the     *)
(*     engine starts and, for the PowerPC, its cache before it reads       *)
(*     (Dropped).                                                          *)
(***************************************************************************)
Working == pc # "idle"
Commanded == pc \in {"busy", "next"}

(* The blocks the engine has done, and those its command is for. *)
Begun == IF Commanded THEN engine.src - job.src ELSE at.done
ThisChunk == IF Left > Chunk THEN Chunk ELSE Left

(* What the program that wrote it last put into a cell. *)
Latest(c) ==
    LET line == cache[job.by][LineOf(c)] IN IF line.dirty THEN line.data[c] ELSE mem[c]

IsLine(x) == x = NoLine \/ x = [dirty |-> x.dirty, data |-> x.data]

Shape ==
    /\ jobs \in Seq(Job)
    /\ Working => jobs # <<>>
    /\ pc \in {"idle", "sync", "flush", "invalidate", "attach", "command", "busy", "next", "reply", "read"}
    /\ mem = [c \in 0 .. Cells - 1 |-> mem[c]]
    /\ cache = [p \in Processors |-> [l \in Lines |-> cache[p][l]]]
    /\ \A p \in Processors, l \in Lines : IsLine(cache[p][l]) /\ cache[p][l].dirty \in BOOLEAN
    /\ engine = [iv |-> engine.iv, chain |-> engine.chain, left |-> engine.left,
                 src |-> engine.src, dst |-> engine.dst]
    /\ engine.left \in Nat /\ engine.src \in Nat /\ engine.dst \in Nat
    /\ at = [done |-> at.done, keep |-> at.keep] /\ at.done \in Nat /\ at.keep \in BOOLEAN
    /\ bus = [posted |-> bus.posted, held |-> bus.held]
    /\ Working => at.done <= job.blocks

(* A line is dirty only before its program's cache is cleaned. *)
DirtyInv == \A p \in Processors, l \in Lines : cache[p][l].dirty =>
    /\ pc = (IF p = "ppc" THEN "sync" ELSE "flush") /\ at.done = 0
    /\ p = job.by /\ l \in LinesOf(job.src, job.blocks)

SyncInv ==
    /\ pc \in {"sync", "reply"} => job.by = "ppc"
    /\ pc = "sync" => at.done = 0

EngineInv ==
    /\ ~Commanded => engine.left = 0 /\ DOMAIN bus.posted = {}
    /\ pc = "next" => engine.left = 0 /\ DOMAIN bus.posted = {}
    /\ Commanded => /\ engine.src = job.src + Begun /\ engine.dst = job.dst + Begun
                    /\ at.done <= Begun /\ Begun + engine.left = at.done + ThisChunk
                    /\ at.done < job.blocks
    /\ pc = "command" => DOMAIN bus.held = {}
    /\ pc \in {"invalidate", "attach", "command"} => at.done < job.blocks
    /\ pc \in {"reply", "read"} => at.done = job.blocks

(* The blocks that are wanted are chained as the engine will chain them. *)
WantInv == Working =>
    /\ \A i \in 0 .. job.blocks - 1 : want[i] = Plain(want[i].chain, Cipher(i))
    /\ \A i \in 1 .. job.blocks - 1 : want[i].chain = Cipher(i - 1)
    /\ Begun < job.blocks =>
          want[Begun].chain = IF Commanded \/ at.keep THEN engine.chain ELSE engine.iv
    /\ ~Commanded /\ at.done > 0 => at.keep

CipherInv == Working => \A i \in 0 .. job.blocks - 1 : i >= Begun =>
    /\ Latest(job.src + i) = Cipher(i)
    /\ pc = "busy" /\ job.src + i \in DOMAIN bus.held => bus.held[job.src + i] = Cipher(i)

PlainInv ==
    /\ \A c \in DOMAIN bus.posted : \E i \in 0 .. job.blocks - 1 : i < Begun /\ c = job.dst + i
    /\ Working => \A i \in 0 .. job.blocks - 1 : i < Begun =>
          want[i] = IF job.dst + i \in DOMAIN bus.posted THEN bus.posted[job.dst + i] ELSE mem[job.dst + i]

Dropped == Working => \A l \in LinesOf(job.dst, job.blocks) :
    /\ at.done > 0 \/ pc \in {"attach", "command", "busy", "next"} => cache["arm"][l] = NoLine
    /\ pc = "read" /\ job.by = "ppc" => cache["ppc"][l] = NoLine

AesInv == Shape /\ DirtyInv /\ SyncInv /\ EngineInv /\ WantInv /\ CipherInv /\ PlainInv /\ Dropped

-----------------------------------------------------------------------------
USE AesAssumption

LEMMA CellLines == \A c \in 0 .. Cells - 1 : LineOf(c) \in Lines /\ c \in CellsOf(LineOf(c))
BY DEF Lines, CellsOf

LEMMA NoLineKind == IsLine(NoLine) /\ NoLine.dirty = FALSE
BY DEF IsLine, NoLine

LEMMA LineKinds ==
    ASSUME NEW d \in BOOLEAN, NEW x
    PROVE  LET line == [dirty |-> d, data |-> x] IN
           IsLine(line) /\ line.dirty = d /\ line.data = x /\ (d => line # NoLine)
<1> DEFINE line == [dirty |-> d, data |-> x]
<1>1. line.dirty = d /\ line.data = x
  OBVIOUS
<1>2. line = [dirty |-> line.dirty, data |-> line.data]
  BY <1>1
<1>3. d => line # NoLine
  BY <1>1, NoLineKind
<1> QED
  BY <1>1, <1>2, <1>3 DEF IsLine

(* The buffers of the job that is being done. *)
LEMMA JobFits ==
    ASSUME Shape, jobs # <<>>
    PROVE  /\ job \in Job /\ job.by \in Processors /\ job.src \in Nat /\ job.dst \in Nat
           /\ job.blocks \in Nat \ {0} /\ job.keep \in BOOLEAN
           /\ \A i \in 0 .. job.blocks - 1 : job.src + i \in 0 .. Cells - 1 /\ job.dst + i \in 0 .. Cells - 1
           /\ \A i \in 0 .. job.blocks - 1 : /\ LineOf(job.src + i) \in LinesOf(job.src, job.blocks)
                                             /\ LineOf(job.dst + i) \in LinesOf(job.dst, job.blocks)
<1>1. job \in Job
  BY DEF Shape, job
<1>2. /\ job.by \in Processors /\ job.src \in Nat /\ job.dst \in Nat
      /\ job.blocks \in Nat \ {0} /\ job.keep \in BOOLEAN
      /\ job.src + job.blocks <= Cells /\ job.dst + job.blocks <= Cells
  BY <1>1 DEF Job
<1>3. \A i \in 0 .. job.blocks - 1 : job.src + i \in 0 .. Cells - 1 /\ job.dst + i \in 0 .. Cells - 1
  BY SMTT(20), <1>2
<1>4. \A i \in 0 .. job.blocks - 1 : /\ job.src + i \in job.src .. job.src + job.blocks - 1
                                     /\ job.dst + i \in job.dst .. job.dst + job.blocks - 1
  BY SMTT(20), <1>2
<1>5. \A i \in 0 .. job.blocks - 1 : /\ LineOf(job.src + i) \in LinesOf(job.src, job.blocks)
                                     /\ LineOf(job.dst + i) \in LinesOf(job.dst, job.blocks)
  BY <1>3, <1>4, CellLines DEF LinesOf
<1> QED
  BY <1>1, <1>2, <1>3, <1>5

(* A plaintext never goes over a ciphertext that is still to be read. *)
LEMMA Unharmed ==
    ASSUME Shape, jobs # <<>>,
           NEW i \in 0 .. job.blocks - 1, NEW k \in 0 .. job.blocks - 1, k < i
    PROVE  job.src + i # job.dst + k
<1>1. job \in Job
  BY JobFits
<1> QED
  BY <1>1 DEF Job

(* Once the caches are cleaned, memory is what counts. *)
LEMMA Settled ==
    ASSUME Shape, DirtyInv, jobs # <<>>, pc \notin {"sync", "flush"} \/ at.done # 0
    PROVE  /\ \A p \in Processors, l \in Lines : ~cache[p][l].dirty
           /\ \A c \in 0 .. Cells - 1 : Latest(c) = mem[c]
           /\ \A p \in Processors : \A lines : WrittenBack(p, lines) = mem
<1>1. \A p \in Processors, l \in Lines : ~cache[p][l].dirty
  BY DEF DirtyInv
<1>2. \A c \in 0 .. Cells - 1 : Latest(c) = mem[c]
  BY <1>1, CellLines, JobFits DEF Latest
<1>3. \A p \in Processors : \A lines : WrittenBack(p, lines) = mem
  BY <1>1 DEF WrittenBack, Dirty, Shape
<1> QED
  BY <1>1, <1>2, <1>3

LEMMA Progress ==
    ASSUME AesInv, Working
    PROVE  Begun \in 0 .. job.blocks /\ (~Commanded => Begun = at.done)
<1>1. /\ job.blocks \in Nat \ {0} /\ job.src \in Nat /\ at.done \in Nat /\ at.done <= job.blocks
      /\ engine.src \in Nat /\ engine.left \in Nat /\ Chunk \in Nat
  BY JobFits DEF AesInv, Shape
<1>2. CASE Commanded
  <2>1. /\ at.done <= Begun /\ Begun + engine.left = at.done + ThisChunk /\ Begun \in Int
    BY <1>1, <1>2 DEF AesInv, EngineInv, Begun
  <2>2. ThisChunk \in Int /\ ThisChunk <= job.blocks - at.done
    BY <1>1 DEF ThisChunk, Left
  <2> QED
    BY <1>1, <1>2, <2>1, <2>2
<1>3. CASE ~Commanded
  BY <1>1, <1>3 DEF Begun
<1> QED
  BY <1>2, <1>3

LEMMA AesInitOk == AesInit => AesInv
<1> SUFFICES ASSUME AesInit PROVE AesInv
  OBVIOUS
<1>1. Shape
  BY DEF AesInit, Shape, IsLine, NoLine, Working
<1>2. DirtyInv
  BY DEF AesInit, DirtyInv, NoLine
<1>3. EngineInv /\ SyncInv /\ PlainInv
  BY DEF AesInit, EngineInv, SyncInv, PlainInv, Commanded, Working
<1>4. WantInv /\ CipherInv /\ Dropped
  BY DEF AesInit, WantInv, CipherInv, Dropped, Working
<1> QED
  BY <1>1, <1>2, <1>3, <1>4 DEF AesInv

-----------------------------------------------------------------------------
LEMMA FetchKeeps == ASSUME NEW p \in Processors, NEW l \in Lines PROVE AesInv /\ Fetch(p, l) => AesInv'
<1> SUFFICES ASSUME AesInv, Fetch(p, l) PROVE AesInv'
  OBVIOUS
<1>0. ~Working /\ ~Working' /\ ~Commanded /\ ~Commanded'
  BY DEF Fetch, Working, Commanded
<1>1. \A q \in Processors, k \in Lines :
        cache'[q][k] = IF q = p /\ k = l THEN InMemory(l) ELSE cache[q][k]
  BY DEF Fetch, AesInv, Shape
<1>2. Shape'
  <2>1. \A q \in Processors, k \in Lines : IsLine(cache'[q][k]) /\ cache'[q][k].dirty \in BOOLEAN
    <3>1. IsLine(InMemory(l)) /\ InMemory(l).dirty = FALSE
      BY LineKinds DEF InMemory
    <3> QED
      BY ZenonT(40), <1>1, <3>1 DEF AesInv, Shape
  <2>2. cache' = [q \in Processors |-> [k \in Lines |-> cache'[q][k]]]
    BY DEF Fetch, AesInv, Shape
  <2> QED
    BY <1>0, <2>1, <2>2 DEF Fetch, AesInv, Shape
<1>3. DirtyInv'
  BY <1>1 DEF Fetch, AesInv, DirtyInv, InMemory
<1>4. EngineInv' /\ SyncInv' /\ PlainInv'
  BY <1>0 DEF Fetch, AesInv, EngineInv, SyncInv, PlainInv
<1> QED
  BY <1>0, <1>2, <1>3, <1>4 DEF AesInv, WantInv, CipherInv, Dropped
(* A dirty line that leaves takes what its program wrote to memory. *)
LEMMA EvictKeeps == ASSUME NEW p \in Processors, NEW l \in Lines PROVE AesInv /\ Evict(p, l) => AesInv'
<1> SUFFICES ASSUME AesInv, Evict(p, l) PROVE AesInv'
  OBVIOUS
<1>0. UNCHANGED <<engine, bus, jobs, pc, at, want>>
  BY DEF Evict
<1>1. \A q \in Processors, k \in Lines :
        cache'[q][k] = IF q = p /\ k = l THEN NoLine ELSE cache[q][k]
  BY DEF Evict, AesInv, Shape
<1>2. \A c \in 0 .. Cells - 1 :
        mem'[c] = IF LineOf(c) = l /\ cache[p][l].dirty THEN cache[p][l].data[c] ELSE mem[c]
  <2>1. ASSUME NEW c \in 0 .. Cells - 1
        PROVE  mem'[c] = IF LineOf(c) = l /\ cache[p][l].dirty THEN cache[p][l].data[c] ELSE mem[c]
    <3>1. mem'[c] = IF LineOf(c) \in {l} \intersect Dirty(p) THEN View(p, c) ELSE mem[c]
      BY DEF Evict, WrittenBack, AesInv, Shape
    <3>2. LineOf(c) \in {l} \intersect Dirty(p) <=> LineOf(c) = l /\ cache[p][l].dirty
      BY CellLines DEF Dirty
    <3>3. LineOf(c) = l => View(p, c) = cache[p][l].data[c]
      BY DEF View, Evict
    <3> QED
      BY <3>1, <3>2, <3>3
  <2> QED
    BY <2>1
<1>3. Shape'
  <2>1. \A q \in Processors, k \in Lines : IsLine(cache'[q][k]) /\ cache'[q][k].dirty \in BOOLEAN
    BY ZenonT(40), <1>1, NoLineKind DEF AesInv, Shape
  <2>2. cache' = [q \in Processors |-> [k \in Lines |-> cache'[q][k]]]
    BY DEF Evict, AesInv, Shape
  <2>3. mem' = [c \in 0 .. Cells - 1 |-> mem'[c]]
    BY DEF Evict, WrittenBack, AesInv, Shape
  <2> QED
    BY <1>0, <2>1, <2>2, <2>3 DEF AesInv, Shape, Working, job
<1>4. DirtyInv'
  BY <1>0, <1>1, NoLineKind DEF AesInv, DirtyInv, LinesOf, job
<1>5. EngineInv' /\ SyncInv' /\ WantInv'
  BY <1>0 DEF AesInv, EngineInv, SyncInv, WantInv, Commanded, Begun, ThisChunk, Left, Working, Cipher, Plain, job
<1>6. ASSUME Working, NEW c \in 0 .. Cells - 1 PROVE Latest(c)' = Latest(c)
  <2> DEFINE k == LineOf(c)
  <2>1. job.by \in Processors /\ k \in Lines /\ job' = job
    BY <1>0, <1>6, JobFits, CellLines DEF AesInv, Shape, job
  <2>2. CASE p = job.by /\ k = l
    <3>1. ~cache'[job.by][k].dirty
      BY <1>1, <2>1, <2>2, NoLineKind
    <3>2. Latest(c)' = mem'[c]
      BY <2>1, <3>1 DEF Latest
    <3> QED
      BY <1>2, <2>2, <3>2 DEF Latest
  <2>3. CASE p = job.by /\ k # l
    BY <1>1, <1>2, <2>1, <2>3 DEF Latest
  <2>4. CASE p # job.by
    BY <1>1, <1>2, <2>1, <2>4 DEF Latest, AesInv, DirtyInv
  <2> QED
    BY <2>2, <2>3, <2>4
<1>7. CipherInv'
  <2> SUFFICES ASSUME Working, NEW i \in 0 .. job.blocks - 1, i >= Begun
               PROVE  /\ Latest(job.src + i)' = Cipher(i)
                      /\ pc = "busy" /\ job.src + i \in DOMAIN bus.held => bus.held[job.src + i] = Cipher(i)
    BY <1>0 DEF CipherInv, Working, Begun, Commanded, Cipher, job, Latest
  <2>1. PICK c \in 0 .. Cells - 1 : c = job.src + i
    BY JobFits DEF AesInv, Shape
  <2>2. Latest(c)' = Latest(c)
    BY <1>6
  <2>3. Latest(job.src + i)' = Latest(c)
    BY <1>0, <2>1, <2>2 DEF job, Latest
  <2> QED
    BY <2>1, <2>3 DEF AesInv, CipherInv
<1>8. PlainInv'
  <2>1. CASE Working /\ Begun > 0
    <3>1. pc \notin {"sync", "flush"} \/ at.done # 0
      BY <2>1 DEF Begun, Commanded
    <3>2. mem' = mem
      BY <3>1, <2>1, Settled DEF Evict, AesInv, Shape
    <3> QED
      BY <1>0, <3>2 DEF AesInv, PlainInv, Begun, Commanded, Working, job
  <2>2. CASE ~(Working /\ Begun > 0)
    <3>1. Working => Begun = 0
      BY <2>2, Progress
    <3>2. Begun' = Begun /\ Working' = Working /\ job' = job
      BY <1>0 DEF Begun, Commanded, Working, job
    <3> QED
      BY <1>0, <3>1, <3>2 DEF AesInv, PlainInv
  <2> QED
    BY <2>1, <2>2
<1>9. Dropped'
  <2>1. ASSUME Working PROVE {"arm", "ppc"} \subseteq Processors /\ LinesOf(job.dst, job.blocks) \subseteq Lines
    BY DEF Processors, LinesOf
  <2> QED
    BY <1>0, <1>1, <2>1 DEF AesInv, Dropped, Working, job, LinesOf
<1> QED
  BY <1>3, <1>4, <1>5, <1>7, <1>8, <1>9 DEF AesInv
-----------------------------------------------------------------------------
(* Dirty lines that are cleaned keep their data, and memory has it too. *)
LEMMA Cleaned ==
    ASSUME AesInv, Working, UNCHANGED jobs, NEW p \in Processors, NEW start, NEW blocks, Clean(p, start, blocks)
    PROVE  /\ \A q \in Processors, k \in Lines :
                 /\ cache'[q][k].dirty => cache[q][k].dirty /\ ~(q = p /\ k \in LinesOf(start, blocks))
                 /\ cache[q][k] = NoLine => cache'[q][k] = NoLine
                 /\ IsLine(cache'[q][k]) /\ cache'[q][k].dirty \in BOOLEAN
           /\ cache' = [q \in Processors |-> [k \in Lines |-> cache'[q][k]]]
           /\ mem' = [c \in 0 .. Cells - 1 |-> mem'[c]]
           /\ \A c \in 0 .. Cells - 1 : Latest(c)' = Latest(c)
<1> DEFINE cleaned(k) == k \in LinesOf(start, blocks) \intersect Dirty(p)
<1>1. \A q \in Processors, k \in Lines :
        cache'[q][k] = IF q = p /\ cleaned(k) THEN [cache[q][k] EXCEPT !.dirty = FALSE] ELSE cache[q][k]
  BY DEF Clean, AesInv, Shape
<1>2. ASSUME NEW q \in Processors, NEW k \in Lines, q = p, cleaned(k)
      PROVE  /\ cache[q][k].dirty /\ cache[q][k] # NoLine
             /\ cache'[q][k] = [dirty |-> FALSE, data |-> cache[q][k].data]
             /\ IsLine(cache'[q][k]) /\ cache'[q][k].dirty = FALSE
             /\ cache'[q][k].data = cache[q][k].data
  <2>1. cache[q][k].dirty /\ cache[q][k] # NoLine
    BY <1>2, NoLineKind DEF Dirty
  <2>2. cache[q][k] = [dirty |-> cache[q][k].dirty, data |-> cache[q][k].data]
    BY <2>1 DEF AesInv, Shape, IsLine
  <2>3. cache'[q][k] = [dirty |-> FALSE, data |-> cache[q][k].data]
    BY <1>1, <1>2, <2>2
  <2>4. IsLine(cache'[q][k]) /\ cache'[q][k].dirty = FALSE /\ cache'[q][k].data = cache[q][k].data
    BY ZenonT(40), <2>3, LineKinds
  <2> QED
    BY <2>1, <2>3, <2>4
<1>3. ASSUME NEW q \in Processors, NEW k \in Lines
      PROVE  /\ cache'[q][k].dirty => cache[q][k].dirty /\ ~(q = p /\ k \in LinesOf(start, blocks))
             /\ cache[q][k] = NoLine => cache'[q][k] = NoLine
             /\ IsLine(cache'[q][k]) /\ cache'[q][k].dirty \in BOOLEAN
  <2>1. CASE q = p /\ cleaned(k)
    BY <1>2, <2>1
  <2>2. CASE ~(q = p /\ cleaned(k))
    <3>1. cache'[q][k] = cache[q][k]
      BY <1>1, <2>2
    <3> QED
      BY <2>2, <3>1 DEF Dirty, AesInv, Shape
  <2> QED
    BY <2>1, <2>2
<1>4. cache' = [q \in Processors |-> [k \in Lines |-> cache'[q][k]]]
  BY DEF Clean, AesInv, Shape
<1>5. mem' = [c \in 0 .. Cells - 1 |-> mem'[c]]
  BY DEF Clean, WrittenBack, AesInv, Shape
<1>6. ASSUME NEW c \in 0 .. Cells - 1 PROVE Latest(c)' = Latest(c)
  <2> DEFINE k == LineOf(c)
  <2>1. job.by \in Processors /\ k \in Lines /\ job' = job
    BY <1>6, JobFits, CellLines DEF AesInv, Shape, job
  <2>2. mem'[c] = IF cleaned(k) THEN View(p, c) ELSE mem[c]
    BY DEF Clean, WrittenBack, AesInv, Shape
  <2>3. CASE p = job.by /\ cleaned(k)
    <3>1. cache[p][k].dirty /\ cache[p][k] # NoLine /\ ~cache'[p][k].dirty
      BY <1>2, <2>1, <2>3
    <3>2. mem'[c] = cache[p][k].data[c]
      BY <2>2, <2>3, <3>1 DEF View
    <3> QED
      BY <2>1, <2>3, <3>1, <3>2 DEF Latest
  <2>4. CASE p = job.by /\ ~cleaned(k)
    BY <1>1, <2>1, <2>2, <2>4 DEF Latest
  <2>5. CASE p # job.by
    <3>1. ~cleaned(k)
      BY <2>1, <2>5 DEF AesInv, DirtyInv, Dirty
    <3> QED
      BY <1>1, <2>1, <2>2, <2>5, <3>1 DEF Latest
  <2> QED
    BY <2>3, <2>4, <2>5
<1> QED
  BY <1>3, <1>4, <1>5, <1>6

LEMMA sync_after_writeKeeps == AesInv /\ sync_after_write => AesInv'
<1> SUFFICES ASSUME AesInv, sync_after_write PROVE AesInv'
  OBVIOUS
<1>0. /\ UNCHANGED <<engine, bus, jobs, at, want>> /\ pc = "sync" /\ pc' = "flush"
      /\ Working /\ Working' /\ ~Commanded /\ ~Commanded' /\ at.done = 0 /\ job.by = "ppc" /\ job' = job
      /\ Begun = 0 /\ Begun' = 0 /\ "ppc" \in Processors
  BY DEF sync_after_write, Working, Commanded, AesInv, SyncInv, job, Begun, Processors
<1>1. Clean("ppc", job.src, job.blocks + 1)
  BY DEF sync_after_write
<1>2. /\ \A q \in Processors, k \in Lines :
            /\ cache'[q][k].dirty => cache[q][k].dirty /\ ~(q = "ppc" /\ k \in LinesOf(job.src, job.blocks + 1))
            /\ cache[q][k] = NoLine => cache'[q][k] = NoLine
            /\ IsLine(cache'[q][k]) /\ cache'[q][k].dirty \in BOOLEAN
      /\ cache' = [q \in Processors |-> [k \in Lines |-> cache'[q][k]]]
      /\ mem' = [c \in 0 .. Cells - 1 |-> mem'[c]]
      /\ \A c \in 0 .. Cells - 1 : Latest(c)' = Latest(c)
  BY <1>0, <1>1, Cleaned
<1>3. Shape'
  BY <1>0, <1>2 DEF AesInv, Shape
<1>4. DirtyInv'
  <2>1. LinesOf(job.src, job.blocks) \subseteq LinesOf(job.src, job.blocks + 1)
    BY <1>0, JobFits DEF LinesOf, AesInv, Shape
  <2>2. \A q \in Processors, k \in Lines : ~cache'[q][k].dirty
    BY <1>0, <1>2, <2>1 DEF AesInv, DirtyInv
  <2> QED
    BY <2>2 DEF DirtyInv
<1>5. EngineInv' /\ SyncInv' /\ WantInv'
  BY <1>0 DEF AesInv, EngineInv, SyncInv, WantInv, Cipher
<1>6. CipherInv'
  <2> SUFFICES ASSUME NEW i \in 0 .. job.blocks - 1 PROVE Latest(job.src + i)' = Cipher(i)
    BY <1>0 DEF CipherInv, Cipher, Latest
  <2>1. PICK c \in 0 .. Cells - 1 : c = job.src + i
    BY <1>0, JobFits DEF AesInv, Shape
  <2>2. Latest(c)' = Latest(c)
    BY <1>2
  <2>3. Latest(job.src + i)' = Latest(c)
    BY <1>0, <2>1, <2>2 DEF job, Latest
  <2> QED
    BY <1>0, <2>1, <2>3 DEF AesInv, CipherInv
<1>7. PlainInv'
  BY <1>0 DEF AesInv, PlainInv, EngineInv
<1>8. Dropped'
  BY <1>0 DEF Dropped
<1> QED
  BY <1>3, <1>4, <1>5, <1>6, <1>7, <1>8 DEF AesInv

LEMMA dc_flushrangeKeeps == AesInv /\ dc_flushrange => AesInv'
<1> SUFFICES ASSUME AesInv, dc_flushrange PROVE AesInv'
  OBVIOUS
<1>0. /\ UNCHANGED <<engine, bus, jobs, at, want>> /\ pc = "flush" /\ pc' = "invalidate"
      /\ Working /\ Working' /\ ~Commanded /\ ~Commanded' /\ job' = job /\ Left > 0
      /\ Begun = at.done /\ Begun' = at.done /\ "arm" \in Processors
  BY DEF dc_flushrange, Working, Commanded, job, Begun, Processors
<1>1. Clean("arm", job.src + at.done, Left)
  BY DEF dc_flushrange
<1>2. /\ \A q \in Processors, k \in Lines :
            /\ cache'[q][k].dirty => /\ cache[q][k].dirty
                                     /\ ~(q = "arm" /\ k \in LinesOf(job.src + at.done, Left))
            /\ cache[q][k] = NoLine => cache'[q][k] = NoLine
            /\ IsLine(cache'[q][k]) /\ cache'[q][k].dirty \in BOOLEAN
      /\ cache' = [q \in Processors |-> [k \in Lines |-> cache'[q][k]]]
      /\ mem' = [c \in 0 .. Cells - 1 |-> mem'[c]]
      /\ \A c \in 0 .. Cells - 1 : Latest(c)' = Latest(c)
  BY <1>0, <1>1, Cleaned
<1>3. Shape'
  BY <1>0, <1>2 DEF AesInv, Shape
<1>4. DirtyInv'
  <2>1. at.done = 0 => LinesOf(job.src, job.blocks) = LinesOf(job.src + at.done, Left)
    BY <1>0, JobFits DEF AesInv, Shape, Left
  <2>2. ASSUME NEW q \in Processors, NEW k \in Lines, cache'[q][k].dirty PROVE FALSE
    <3>1. cache[q][k].dirty /\ ~(q = "arm" /\ k \in LinesOf(job.src + at.done, Left))
      BY <1>2, <2>2
    <3>2. q # "ppc" /\ at.done = 0 /\ k \in LinesOf(job.src, job.blocks)
      BY <1>0, <3>1 DEF AesInv, DirtyInv
    <3> QED
      BY <2>1, <3>1, <3>2 DEF Processors
  <2> QED
    BY <2>2 DEF DirtyInv
<1>5. EngineInv' /\ SyncInv' /\ WantInv'
  <2>1. at.done < job.blocks
    BY <1>0, JobFits DEF Left, AesInv, Shape
  <2> QED
    BY <1>0, <2>1 DEF AesInv, EngineInv, SyncInv, WantInv, Cipher
<1>6. CipherInv'
  <2> SUFFICES ASSUME NEW i \in 0 .. job.blocks - 1, i >= at.done PROVE Latest(job.src + i)' = Cipher(i)
    BY <1>0 DEF CipherInv, Cipher, Latest
  <2>1. PICK c \in 0 .. Cells - 1 : c = job.src + i
    BY <1>0, JobFits DEF AesInv, Shape
  <2>2. Latest(c)' = Latest(c)
    BY <1>2
  <2>3. Latest(job.src + i)' = Latest(c)
    BY <1>0, <2>1, <2>2 DEF job, Latest
  <2> QED
    BY <1>0, <2>1, <2>3 DEF AesInv, CipherInv
<1>7. PlainInv'
  <2>1. CASE at.done = 0
    BY <1>0, <2>1 DEF AesInv, PlainInv, EngineInv
  <2>2. CASE at.done # 0
    <3>1. mem' = mem
      BY <1>0, <1>1, <2>2, Settled DEF AesInv, Shape, Clean
    <3> QED
      BY <1>0, <3>1 DEF AesInv, PlainInv
  <2> QED
    BY <2>1, <2>2
<1>8. Dropped'
  <2>1. LinesOf(job.dst, job.blocks) \subseteq Lines
    BY DEF LinesOf
  <2> QED
    BY <1>0, <1>2, <2>1 DEF AesInv, Dropped
<1> QED
  BY <1>3, <1>4, <1>5, <1>6, <1>7, <1>8 DEF AesInv

-----------------------------------------------------------------------------
(* Lines that are dropped are clean: nothing is lost with them. *)
LEMMA Invalidated ==
    ASSUME AesInv, Working, pc \notin {"sync", "flush"}, UNCHANGED <<jobs, at, engine>>,
           NEW p \in Processors, NEW start, NEW blocks, Invalidate(p, start, blocks)
    PROVE  /\ \A q \in Processors, k \in Lines :
                 /\ ~cache'[q][k].dirty
                 /\ cache[q][k] = NoLine => cache'[q][k] = NoLine
                 /\ q = p /\ k \in LinesOf(start, blocks) => cache'[q][k] = NoLine
                 /\ IsLine(cache'[q][k]) /\ cache'[q][k].dirty \in BOOLEAN
           /\ cache' = [q \in Processors |-> [k \in Lines |-> cache'[q][k]]]
           /\ mem' = mem
           /\ \A c \in 0 .. Cells - 1 : Latest(c)' = Latest(c)
<1>1. \A q \in Processors, k \in Lines :
        cache'[q][k] = IF q = p /\ k \in LinesOf(start, blocks) THEN NoLine ELSE cache[q][k]
  BY DEF Invalidate, AesInv, Shape
<1>2. \A q \in Processors, k \in Lines : ~cache[q][k].dirty
  BY Settled DEF AesInv, Shape
<1>3. \A q \in Processors, k \in Lines :
        /\ ~cache'[q][k].dirty
        /\ cache[q][k] = NoLine => cache'[q][k] = NoLine
        /\ q = p /\ k \in LinesOf(start, blocks) => cache'[q][k] = NoLine
        /\ IsLine(cache'[q][k]) /\ cache'[q][k].dirty \in BOOLEAN
  BY ZenonT(40), <1>1, <1>2, NoLineKind DEF AesInv, Shape
<1>4. cache' = [q \in Processors |-> [k \in Lines |-> cache'[q][k]]] /\ mem' = mem
  BY DEF Invalidate, AesInv, Shape
<1>5. ASSUME NEW c \in 0 .. Cells - 1 PROVE Latest(c)' = Latest(c)
  <2>1. job.by \in Processors /\ LineOf(c) \in Lines /\ job' = job
    BY <1>5, JobFits, CellLines DEF AesInv, Shape, job
  <2> QED
    BY <1>2, <1>3, <1>4, <2>1 DEF Latest
<1> QED
  BY <1>3, <1>4, <1>5

(* What the ciphertexts need is that what was put last stays so. *)
LEMMA CiphersKept ==
    ASSUME AesInv, Working, Working', UNCHANGED <<jobs, bus>>, Begun' \in Int, Begun' >= Begun,
           pc' = "busy" => pc = "busy" \/ DOMAIN bus.held = {},
           \A c \in 0 .. Cells - 1 : Latest(c)' = Latest(c)
    PROVE  CipherInv'
<1> SUFFICES ASSUME NEW i \in 0 .. job.blocks - 1, i >= Begun'
             PROVE  /\ Latest(job.src + i)' = Cipher(i)
                    /\ pc' = "busy" /\ job.src + i \in DOMAIN bus.held => bus.held[job.src + i] = Cipher(i)
  BY DEF CipherInv, Cipher, Latest, job
<1>0. i >= Begun
  BY Progress, JobFits DEF AesInv, Shape
<1>1. PICK c \in 0 .. Cells - 1 : c = job.src + i
  BY JobFits DEF AesInv, Shape
<1>2. Latest(c)' = Latest(c)
  OBVIOUS
<1>3. Latest(job.src + i)' = Latest(c)
  BY <1>1, <1>2 DEF job, Latest
<1> QED
  BY <1>0, <1>1, <1>3 DEF AesInv, CipherInv

LEMMA dc_invalidaterangeKeeps == AesInv /\ dc_invalidaterange => AesInv'
<1> SUFFICES ASSUME AesInv, dc_invalidaterange PROVE AesInv'
  OBVIOUS
<1>0. /\ UNCHANGED <<engine, bus, jobs, at, want>> /\ pc = "invalidate" /\ pc' = "attach"
      /\ Working /\ Working' /\ ~Commanded /\ ~Commanded' /\ job' = job
      /\ Begun = at.done /\ Begun' = at.done /\ "arm" \in Processors /\ at.done \in Nat
  BY DEF dc_invalidaterange, Working, Commanded, job, Begun, Processors, AesInv, Shape
<1>1. Invalidate("arm", job.dst + at.done, Left)
  BY DEF dc_invalidaterange
<1>2. /\ \A q \in Processors, k \in Lines :
            /\ ~cache'[q][k].dirty
            /\ cache[q][k] = NoLine => cache'[q][k] = NoLine
            /\ q = "arm" /\ k \in LinesOf(job.dst + at.done, Left) => cache'[q][k] = NoLine
            /\ IsLine(cache'[q][k]) /\ cache'[q][k].dirty \in BOOLEAN
      /\ cache' = [q \in Processors |-> [k \in Lines |-> cache'[q][k]]]
      /\ mem' = mem
      /\ \A c \in 0 .. Cells - 1 : Latest(c)' = Latest(c)
  BY <1>0, <1>1, Invalidated
<1>3. Shape'
  BY <1>0, <1>2 DEF AesInv, Shape
<1>4. DirtyInv'
  BY <1>2 DEF DirtyInv
<1>5. EngineInv' /\ SyncInv' /\ WantInv' /\ PlainInv'
  BY <1>0, <1>2 DEF AesInv, EngineInv, SyncInv, WantInv, PlainInv, Cipher
<1>6. CipherInv'
  BY <1>0, <1>2, CiphersKept
<1>7. Dropped'
  <2>1. LinesOf(job.dst, job.blocks) \subseteq Lines
    BY DEF LinesOf
  <2>2. at.done = 0 => LinesOf(job.dst, job.blocks) = LinesOf(job.dst + at.done, Left)
    BY <1>0, JobFits DEF AesInv, Shape, Left
  <2> QED
    BY <1>0, <1>2, <2>1, <2>2 DEF AesInv, Dropped
<1> QED
  BY <1>3, <1>4, <1>5, <1>6, <1>7 DEF AesInv

LEMMA sync_before_readKeeps == AesInv /\ sync_before_read => AesInv'
<1> SUFFICES ASSUME AesInv, sync_before_read PROVE AesInv'
  OBVIOUS
<1>0. /\ UNCHANGED <<engine, bus, jobs, at, want>> /\ pc = "reply" /\ pc' = "read"
      /\ Working /\ Working' /\ ~Commanded /\ ~Commanded' /\ job' = job
      /\ Begun = at.done /\ Begun' = at.done /\ {"arm", "ppc"} \subseteq Processors /\ at.done \in Nat
  BY DEF sync_before_read, Working, Commanded, job, Begun, Processors, AesInv, Shape
<1>1. Invalidate("ppc", job.dst, job.blocks + 1)
  BY DEF sync_before_read
<1>2. /\ \A q \in Processors, k \in Lines :
            /\ ~cache'[q][k].dirty
            /\ cache[q][k] = NoLine => cache'[q][k] = NoLine
            /\ q = "ppc" /\ k \in LinesOf(job.dst, job.blocks + 1) => cache'[q][k] = NoLine
            /\ IsLine(cache'[q][k]) /\ cache'[q][k].dirty \in BOOLEAN
      /\ cache' = [q \in Processors |-> [k \in Lines |-> cache'[q][k]]]
      /\ mem' = mem
      /\ \A c \in 0 .. Cells - 1 : Latest(c)' = Latest(c)
  BY <1>0, <1>1, Invalidated
<1>3. Shape'
  BY <1>0, <1>2 DEF AesInv, Shape
<1>4. DirtyInv'
  BY <1>2 DEF DirtyInv
<1>5. EngineInv' /\ SyncInv' /\ WantInv' /\ PlainInv'
  BY <1>0, <1>2 DEF AesInv, EngineInv, SyncInv, WantInv, PlainInv, Cipher
<1>6. CipherInv'
  BY <1>0, <1>2, CiphersKept
<1>7. Dropped'
  <2>1. LinesOf(job.dst, job.blocks) \subseteq Lines
    BY DEF LinesOf
  <2>2. LinesOf(job.dst, job.blocks) \subseteq LinesOf(job.dst, job.blocks + 1)
    BY <1>0, JobFits DEF LinesOf, AesInv, Shape
  <2> QED
    BY <1>0, <1>2, <2>1, <2>2 DEF AesInv, Dropped
<1> QED
  BY <1>3, <1>4, <1>5, <1>6, <1>7 DEF AesInv

-----------------------------------------------------------------------------
LEMMA ahb_flush_toKeeps == AesInv /\ ahb_flush_to => AesInv'
<1> SUFFICES ASSUME AesInv, ahb_flush_to PROVE AesInv'
  OBVIOUS
<1>0. /\ UNCHANGED <<mem, cache, engine, jobs, at, want>> /\ pc = "attach" /\ pc' = "command"
      /\ bus' = [posted |-> bus.posted, held |-> <<>>]
      /\ Working /\ Working' /\ ~Commanded /\ ~Commanded' /\ job' = job
      /\ Begun = at.done /\ Begun' = at.done
  BY DEF ahb_flush_to, Working, Commanded, job, Begun, AesInv, Shape
<1>1. Shape'
  BY <1>0 DEF AesInv, Shape
<1>2. DirtyInv' /\ SyncInv'
  BY <1>0 DEF AesInv, DirtyInv, SyncInv
<1>3. EngineInv' /\ WantInv'
  BY <1>0 DEF AesInv, EngineInv, WantInv, Cipher
<1>4. PlainInv'
  BY <1>0 DEF AesInv, PlainInv
<1>5. Dropped'
  BY <1>0 DEF AesInv, Dropped
<1>6. CipherInv'
  BY <1>0 DEF AesInv, CipherInv, Cipher, Latest
<1> QED
  BY <1>1, <1>2, <1>3, <1>4, <1>5, <1>6 DEF AesInv

LEMMA aes_commandKeeps == AesInv /\ aes_command => AesInv'
<1> SUFFICES ASSUME AesInv, aes_command PROVE AesInv'
  OBVIOUS
<1>0. /\ UNCHANGED <<mem, cache, bus, jobs, at, want>> /\ pc = "command" /\ pc' = "busy"
      /\ engine' = [iv |-> engine.iv, chain |-> IF at.keep THEN engine.chain ELSE engine.iv,
                    left |-> ThisChunk, src |-> job.src + at.done, dst |-> job.dst + at.done]
      /\ Working /\ Working' /\ ~Commanded /\ Commanded' /\ job' = job
      /\ Left' = Left /\ ThisChunk' = ThisChunk
      /\ Begun = at.done
  BY DEF aes_command, Working, Commanded, job, Begun, AesInv, Shape, ThisChunk, Left
<1>1. /\ job.src \in Nat /\ job.dst \in Nat /\ job.blocks \in Nat \ {0} /\ at.done \in Nat
      /\ at.done < job.blocks /\ Begun' = at.done /\ ThisChunk \in Nat
  BY SMTT(20), <1>0, JobFits DEF AesInv, Shape, EngineInv, Begun, ThisChunk, Left
<1>2. Shape'
  <2>1. PICK l \in Nat, s \in Nat, d \in Nat :
            engine' = [iv |-> engine.iv, chain |-> IF at.keep THEN engine.chain ELSE engine.iv,
                       left |-> l, src |-> s, dst |-> d]
    <3>1. job.src + at.done \in Nat /\ job.dst + at.done \in Nat /\ ThisChunk \in Nat
      BY <1>1
    <3> QED
      BY <1>0, <3>1
  <2>2. /\ engine' = [iv |-> engine'.iv, chain |-> engine'.chain, left |-> engine'.left,
                      src |-> engine'.src, dst |-> engine'.dst]
        /\ engine'.left \in Nat /\ engine'.src \in Nat /\ engine'.dst \in Nat
    BY <2>1
  <2>3. Shape
    BY DEF AesInv
  <2>4. mem' = mem /\ cache' = cache /\ bus' = bus /\ jobs' = jobs /\ at' = at
    BY <1>0
  <2>5. (Working => jobs # <<>>)' /\ (Working => at.done <= job.blocks)'
    BY <1>0, <2>3, <2>4 DEF Shape
  <2>6. pc' \in {"idle", "sync", "flush", "invalidate", "attach", "command", "busy", "next", "reply", "read"}
    BY <1>0
  <2> QED
    BY <2>2, <2>3, <2>4, <2>5, <2>6 DEF Shape
<1>3. DirtyInv' /\ SyncInv' /\ PlainInv' /\ Dropped'
  BY <1>0, <1>1 DEF AesInv, DirtyInv, SyncInv, PlainInv, Dropped
<1>4. EngineInv'
  BY <1>0, <1>1 DEF EngineInv
<1>5. WantInv'
  BY <1>0, <1>1 DEF AesInv, WantInv, Cipher
<1>6. CipherInv'
  <2>1. DOMAIN bus.held = {}
    BY <1>0 DEF AesInv, EngineInv
  <2>2. \A c \in 0 .. Cells - 1 : Latest(c)' = Latest(c)
    BY <1>0 DEF Latest
  <2> QED
    BY <1>0, <1>1, <2>1, <2>2, CiphersKept
<1> QED
  BY <1>2, <1>3, <1>4, <1>5, <1>6 DEF AesInv

LEMMA NextChunkKeeps == AesInv /\ NextChunk => AesInv'
<1> SUFFICES ASSUME AesInv, NextChunk PROVE AesInv'
  OBVIOUS
<1>0. /\ UNCHANGED <<mem, cache, engine, bus, jobs, want>> /\ pc = "next" /\ pc' = "flush"
      /\ at' = [done |-> IF Left > Chunk THEN at.done + Chunk ELSE job.blocks, keep |-> TRUE]
      /\ Working /\ Working' /\ Commanded /\ ~Commanded' /\ job' = job
      /\ Begun' = at'.done
  BY DEF NextChunk, Working, Commanded, job, Begun
<1>1. /\ job.src \in Nat /\ job.dst \in Nat /\ job.blocks \in Nat \ {0} /\ at.done \in Nat
      /\ Begun \in 0 .. job.blocks /\ Chunk \in Nat \ {0} /\ engine.left = 0 /\ DOMAIN bus.posted = {}
  BY <1>0, JobFits, Progress DEF AesInv, Shape, EngineInv
<1>2. at'.done = Begun /\ at'.done > 0
  BY <1>0, <1>1 DEF AesInv, EngineInv, ThisChunk, Left
<1>3. Shape'
  BY <1>0, <1>1, <1>2 DEF AesInv, Shape
<1>4. \A q \in Processors, k \in Lines : ~cache[q][k].dirty
  BY <1>0, Settled DEF AesInv, Shape
<1>5. DirtyInv' /\ SyncInv' /\ PlainInv' /\ Dropped' /\ EngineInv'
  BY <1>0, <1>1, <1>2, <1>4 DEF AesInv, DirtyInv, SyncInv, PlainInv, Dropped, EngineInv
<1>6. WantInv'
  BY <1>0, <1>1, <1>2 DEF AesInv, WantInv, Cipher
<1>7. CipherInv'
  <2>1. \A c \in 0 .. Cells - 1 : Latest(c)' = Latest(c)
    BY <1>0 DEF Latest
  <2> QED
    BY <1>0, <1>1, <1>2, <2>1, CiphersKept
<1> QED
  BY <1>3, <1>5, <1>6, <1>7 DEF AesInv

LEMMA DecryptedKeeps == AesInv /\ Decrypted => AesInv'
<1> SUFFICES ASSUME AesInv, Decrypted PROVE AesInv'
  OBVIOUS
<1>0. /\ UNCHANGED <<mem, cache, engine, bus, jobs, at, want>> /\ pc = "flush" /\ Left = 0
      /\ pc' = (IF job.by = "ppc" THEN "reply" ELSE "read")
      /\ Working /\ Working' /\ ~Commanded /\ ~Commanded' /\ job' = job
      /\ Begun = at.done /\ Begun' = at.done
  BY DEF Decrypted, Working, Commanded, job, Begun
<1>1. job.blocks \in Nat \ {0} /\ at.done = job.blocks
  BY <1>0, JobFits DEF AesInv, Shape, Left
<1>2. Shape'
  BY <1>0 DEF AesInv, Shape
<1>3. \A q \in Processors, k \in Lines : ~cache[q][k].dirty
  BY <1>0, <1>1, Settled DEF AesInv, Shape
<1>4. DirtyInv' /\ SyncInv' /\ PlainInv' /\ Dropped' /\ EngineInv' /\ WantInv'
  BY <1>0, <1>1, <1>3 DEF AesInv, DirtyInv, SyncInv, PlainInv, Dropped, EngineInv, WantInv, Cipher
<1>5. CipherInv'
  BY <1>0, <1>1 DEF CipherInv
<1> QED
  BY <1>2, <1>4, <1>5 DEF AesInv

LEMMA ReadPlainKeeps == AesInv /\ ReadPlain => AesInv'
<1> SUFFICES ASSUME AesInv, ReadPlain PROVE AesInv'
  OBVIOUS
<1>0. /\ UNCHANGED <<mem, cache, engine, bus, at, want>> /\ pc = "read" /\ pc' = "idle"
      /\ jobs' = Tail(jobs) /\ Working /\ ~Working' /\ ~Commanded /\ ~Commanded'
  BY DEF ReadPlain, Working, Commanded
<1>1. Shape'
  BY <1>0 DEF AesInv, Shape
<1>2. \A q \in Processors, k \in Lines : ~cache[q][k].dirty
  BY <1>0, Settled DEF AesInv, Shape
<1>3. DirtyInv' /\ SyncInv' /\ PlainInv' /\ EngineInv'
  BY <1>0, <1>2 DEF AesInv, DirtyInv, SyncInv, PlainInv, EngineInv
<1> QED
  BY <1>0, <1>1, <1>3 DEF AesInv, CipherInv, Dropped, WantInv
-----------------------------------------------------------------------------
(* What the engine wrote reaches memory in no order, one cell or all. *)
LEMMA Written ==
    ASSUME AesInv, pc = "busy", UNCHANGED <<cache, jobs>>, NEW some,
           some \subseteq DOMAIN bus.posted,
           mem' = [c \in 0 .. Cells - 1 |-> IF c \in some THEN bus.posted[c] ELSE mem[c]]
    PROVE  /\ \A i \in 0 .. job.blocks - 1 : i >= Begun => Latest(job.src + i)' = Latest(job.src + i)
           /\ \A i \in 0 .. job.blocks - 1 : i < Begun =>
                mem'[job.dst + i] = IF job.dst + i \in some THEN bus.posted[job.dst + i] ELSE mem[job.dst + i]
<1>0. /\ Working /\ Commanded /\ job' = job /\ jobs # <<>> /\ job.by \in Processors
      /\ Begun \in 0 .. job.blocks /\ job.blocks \in Nat
  BY JobFits, Progress DEF Working, Commanded, job, AesInv, Shape
<1>1. ASSUME NEW i \in 0 .. job.blocks - 1, i >= Begun PROVE Latest(job.src + i)' = Latest(job.src + i)
  <2>1. PICK c \in 0 .. Cells - 1 : c = job.src + i
    BY <1>0, JobFits DEF AesInv, Shape
  <2>2. c \notin some
    <3> SUFFICES ASSUME c \in some PROVE FALSE
      OBVIOUS
    <3>1. PICK k \in 0 .. job.blocks - 1 : k < Begun /\ c = job.dst + k
      BY DEF AesInv, PlainInv
    <3> QED
      BY <1>0, <1>1, <2>1, <3>1, Unharmed DEF AesInv
  <2>3. mem'[c] = mem[c]
    BY <2>2
  <2> QED
    BY <1>0, <2>1, <2>3 DEF Latest
<1>2. \A i \in 0 .. job.blocks - 1 : job.dst + i \in 0 .. Cells - 1
  BY <1>0, JobFits DEF AesInv
<1> QED
  BY <1>1, <1>2

(* The plaintext is where memory is. *)
LEMMA PostedFits == AesInv /\ Working => DOMAIN bus.posted \subseteq 0 .. Cells - 1
BY SMTT(20), JobFits DEF AesInv, PlainInv, Shape

LEMMA ahb_flush_fromKeeps == AesInv /\ ahb_flush_from => AesInv'
<1> SUFFICES ASSUME AesInv, ahb_flush_from PROVE AesInv'
  OBVIOUS
<1>0. /\ UNCHANGED <<cache, engine, jobs, at, want>> /\ pc = "busy" /\ pc' = "next"
      /\ engine.left = 0 /\ bus' = [posted |-> <<>>, held |-> bus.held]
      /\ Working /\ Working' /\ Commanded /\ Commanded' /\ job' = job
      /\ Begun' = Begun
  BY DEF ahb_flush_from, Working, Commanded, job, Begun, AesInv, Shape
<1>1. mem' = [c \in 0 .. Cells - 1 |-> IF c \in DOMAIN bus.posted THEN bus.posted[c] ELSE mem[c]]
  <2>1. DOMAIN bus.posted \cup DOMAIN mem = 0 .. Cells - 1
    BY <1>0, PostedFits DEF AesInv, Shape
  <2> QED
    BY <2>1 DEF ahb_flush_from, Over
<1>2. /\ \A i \in 0 .. job.blocks - 1 : i >= Begun => Latest(job.src + i)' = Latest(job.src + i)
      /\ \A i \in 0 .. job.blocks - 1 : i < Begun =>
           mem'[job.dst + i] = IF job.dst + i \in DOMAIN bus.posted
                               THEN bus.posted[job.dst + i] ELSE mem[job.dst + i]
  BY <1>0, <1>1, Written
<1>3. Shape'
  BY <1>0, <1>1 DEF AesInv, Shape
<1>4. \A q \in Processors, k \in Lines : ~cache[q][k].dirty
  BY <1>0, Settled DEF AesInv, Shape
<1>5. DirtyInv' /\ SyncInv' /\ Dropped' /\ EngineInv' /\ WantInv'
  BY <1>0, <1>4 DEF AesInv, DirtyInv, SyncInv, Dropped, EngineInv, WantInv, Cipher, ThisChunk, Left
<1>6. CipherInv'
  <2> SUFFICES ASSUME NEW i \in 0 .. job.blocks - 1, i >= Begun PROVE Latest(job.src + i)' = Cipher(i)
    BY <1>0 DEF CipherInv, Cipher, Latest
  <2> QED
    BY <1>0, <1>2 DEF AesInv, CipherInv
<1>7. PlainInv'
  BY <1>0, <1>2 DEF AesInv, PlainInv
<1> QED
  BY <1>3, <1>5, <1>6, <1>7 DEF AesInv

LEMMA ArriveKeeps == ASSUME NEW c \in DOMAIN bus.posted PROVE AesInv /\ Arrive(c) => AesInv'
<1> SUFFICES ASSUME AesInv, Arrive(c) PROVE AesInv'
  OBVIOUS
<1>0. /\ UNCHANGED <<cache, engine, jobs, pc, at, want>> /\ pc = "busy"
      /\ bus' = [posted |-> [d \in DOMAIN bus.posted \ {c} |-> bus.posted[d]], held |-> bus.held]
      /\ Working /\ Working' /\ Commanded /\ Commanded' /\ job' = job
      /\ Begun' = Begun
  BY DEF Arrive, Working, Commanded, job, Begun, AesInv, Shape, EngineInv
<1>1. mem' = [d \in 0 .. Cells - 1 |-> IF d \in {c} THEN bus.posted[d] ELSE mem[d]]
  BY DEF Arrive, AesInv, Shape
<1>2. /\ \A i \in 0 .. job.blocks - 1 : i >= Begun => Latest(job.src + i)' = Latest(job.src + i)
      /\ \A i \in 0 .. job.blocks - 1 : i < Begun =>
           mem'[job.dst + i] = IF job.dst + i \in {c} THEN bus.posted[job.dst + i] ELSE mem[job.dst + i]
  BY <1>0, <1>1, Written
<1>3. Shape'
  BY <1>0, <1>1 DEF AesInv, Shape
<1>4. DirtyInv' /\ SyncInv' /\ Dropped' /\ EngineInv' /\ WantInv'
  BY <1>0 DEF AesInv, DirtyInv, SyncInv, Dropped, EngineInv, WantInv, Cipher, ThisChunk, Left
<1>5. CipherInv'
  <2> SUFFICES ASSUME NEW i \in 0 .. job.blocks - 1, i >= Begun
               PROVE  /\ Latest(job.src + i)' = Cipher(i)
                      /\ job.src + i \in DOMAIN bus.held => bus.held[job.src + i] = Cipher(i)
    BY <1>0 DEF CipherInv, Cipher, Latest
  <2> QED
    BY <1>0, <1>2 DEF AesInv, CipherInv
<1>6. PlainInv'
  <2>1. DOMAIN bus'.posted = DOMAIN bus.posted \ {c} /\ \A d \in DOMAIN bus'.posted : bus'.posted[d] = bus.posted[d]
    BY <1>0
  <2>2. \A d \in DOMAIN bus'.posted : \E i \in 0 .. job.blocks - 1 : i < Begun /\ d = job.dst + i
    BY <2>1 DEF AesInv, PlainInv
  <2>3. ASSUME NEW i \in 0 .. job.blocks - 1, i < Begun
        PROVE  want[i] = IF job.dst + i \in DOMAIN bus'.posted THEN bus'.posted[job.dst + i] ELSE mem'[job.dst + i]
    BY <1>0, <1>2, <2>1, <2>3 DEF AesInv, PlainInv
  <2> QED
    BY <1>0, <2>2, <2>3 DEF PlainInv
<1> QED
  BY <1>3, <1>4, <1>5, <1>6 DEF AesInv

(* The engine reads the ciphertext of the block it is at, from memory or   *)
(* from a line that is held back.                                          *)
LEMMA DecryptKeeps == AesInv /\ Decrypt => AesInv'
<1> SUFFICES ASSUME AesInv, Decrypt PROVE AesInv'
  OBVIOUS
<1> DEFINE read == Over(bus.held, [c \in CellsOf(LineOf(engine.src)) |-> mem[c]])
           plain == Plain(engine.chain, read[engine.src])
           written == [c \in {engine.dst} |-> plain]
<1>0. /\ UNCHANGED <<mem, cache, jobs, pc, at, want>> /\ pc = "busy" /\ engine.left > 0
      /\ bus' = [posted |-> Over(written, bus.posted), held |-> read]
      /\ engine' = [iv |-> engine.iv, chain |-> read[engine.src], left |-> engine.left - 1,
                    src |-> engine.src + 1, dst |-> engine.dst + 1]
      /\ Working /\ Working' /\ Commanded /\ Commanded' /\ job' = job
      /\ ThisChunk' = ThisChunk
  <2>1. UNCHANGED <<mem, cache, jobs, pc, at, want>> /\ pc = "busy" /\ engine.left > 0
    BY DEF Decrypt, Commanded, AesInv, Shape, EngineInv
  <2>2. bus' = [posted |-> Over(written, bus.posted), held |-> read]
    BY DEF Decrypt
  <2>3. engine' = [iv |-> engine.iv, chain |-> read[engine.src], left |-> engine.left - 1,
                   src |-> engine.src + 1, dst |-> engine.dst + 1]
    <3>1. engine' = [engine EXCEPT !.chain = read[engine.src], !.left = @ - 1, !.src = @ + 1, !.dst = @ + 1]
      BY DEF Decrypt
    <3> HIDE DEF read
    <3> QED
      BY <3>1 DEF AesInv, Shape
  <2> HIDE DEF read, written
  <2> QED
    BY <2>1, <2>2, <2>3 DEF Working, Commanded, job, ThisChunk, Left
<1> HIDE DEF read, plain, written
<1>a. engine'.left = engine.left - 1 /\ engine'.src = engine.src + 1 /\ engine'.dst = engine.dst + 1
  BY <1>0
<1>b. /\ engine' = [iv |-> engine'.iv, chain |-> engine'.chain, left |-> engine'.left,
                    src |-> engine'.src, dst |-> engine'.dst]
      /\ bus' = [posted |-> bus'.posted, held |-> bus'.held]
  BY <1>0
<1>c. /\ Working /\ Working' /\ Commanded /\ Commanded' /\ job' = job
      /\ ThisChunk' = ThisChunk /\ at' = at /\ pc = "busy" /\ pc' = pc
  BY <1>0
<1>1. /\ job.src \in Nat /\ job.dst \in Nat /\ job.blocks \in Nat /\ at.done \in Nat
      /\ engine.left \in Nat /\ engine.left > 0 /\ engine.src \in Nat /\ engine.dst \in Nat
      /\ engine.src = job.src + Begun /\ engine.dst = job.dst + Begun /\ at.done <= Begun
      /\ Begun + engine.left = at.done + ThisChunk /\ Chunk \in Nat
      /\ Begun \in 0 .. job.blocks
  BY <1>0, JobFits, Progress DEF AesInv, Shape, EngineInv
<1>2. ThisChunk \in Int /\ ThisChunk <= job.blocks - at.done
  BY <1>1 DEF ThisChunk, Left
<1>3. Begun \in 0 .. job.blocks - 1 /\ Begun' = Begun + 1
  <2>1. Begun \in 0 .. job.blocks - 1
    BY <1>0, <1>1, <1>2
  <2>2. Begun = engine.src - job.src /\ Begun' = engine'.src - job.src
    BY <1>c DEF Begun
  <2> QED
    BY <1>1, <1>a, <2>1, <2>2
<1>4. \A q \in Processors, k \in Lines : ~cache[q][k].dirty
  BY <1>0, Settled DEF AesInv, Shape
<1>5. \A c \in 0 .. Cells - 1 : Latest(c) = mem[c] /\ Latest(c)' = mem[c]
  <2>1. \A c \in 0 .. Cells - 1 : Latest(c) = mem[c]
    BY <1>0, Settled DEF AesInv, Shape
  <2> QED
    BY <1>0, <2>1 DEF Latest
<1>6. ASSUME NEW i \in 0 .. job.blocks - 1, i >= Begun
      PROVE  /\ Latest(job.src + i)' = Cipher(i)
             /\ job.src + i \in DOMAIN read => read[job.src + i] = Cipher(i)
  <2>1. PICK c \in 0 .. Cells - 1 : c = job.src + i
    BY <1>0, JobFits DEF AesInv, Shape
  <2>2. /\ mem[c] = Cipher(i)
        /\ c \in DOMAIN bus.held => bus.held[c] = Cipher(i)
    BY <1>0, <1>5, <1>6, <2>1 DEF AesInv, CipherInv
  <2>3. c \in DOMAIN read => read[c] = IF c \in DOMAIN bus.held THEN bus.held[c] ELSE mem[c]
    BY DEF Over, read
  <2>4. Latest(c)' = mem[c]
    BY <1>5
  <2>5. Latest(job.src + i)' = mem[c]
    BY <1>0, <2>1, <2>4 DEF Latest
  <2> QED
    BY <2>1, <2>2, <2>3, <2>5
<1>7. read[engine.src] = Cipher(Begun)
  <2>1. engine.src \in 0 .. Cells - 1
    BY <1>0, <1>1, <1>3, JobFits DEF AesInv, Shape
  <2>2. engine.src \in DOMAIN read
    BY <2>1, CellLines DEF Over, read
  <2> QED
    BY <1>1, <1>3, <1>6, <2>2
<1>8. Shape'
  <2>1. engine.left \in Nat \ {0} /\ engine.src \in Nat /\ engine.dst \in Nat
    BY <1>1
  <2>2. engine'.left \in Nat /\ engine'.src \in Nat /\ engine'.dst \in Nat
    BY <1>a, <2>1
  <2> QED
    BY <1>0, <1>b, <2>2 DEF AesInv, Shape
<1>9. DirtyInv' /\ SyncInv' /\ Dropped'
  BY <1>0, <1>4 DEF AesInv, DirtyInv, SyncInv, Dropped
<1>10. EngineInv'
  <2>1. /\ engine'.src = job.src + Begun' /\ engine'.dst = job.dst + Begun'
        /\ at.done <= Begun' /\ Begun' + engine'.left = at.done + ThisChunk
    <3>1. Begun \in Nat /\ Begun' = Begun + 1 /\ at.done \in Nat /\ at.done <= Begun
      BY <1>1, <1>3
    <3>2. engine'.src = job.src + Begun'
      <4>1. job.src \in Nat /\ engine.src = job.src + Begun
        BY <1>1
      <4> QED
        BY <1>a, <3>1, <4>1
    <3>3. engine'.dst = job.dst + Begun'
      <4>1. job.dst \in Nat /\ engine.dst = job.dst + Begun
        BY <1>1
      <4> QED
        BY <1>a, <3>1, <4>1
    <3>4. Begun' + engine'.left = Begun + engine.left
      <4>1. engine.left \in Nat
        BY <1>1
      <4> QED
        BY <1>a, <3>1, <4>1
    <3> QED
      BY <1>1, <3>1, <3>2, <3>3, <3>4
  <2>2. at.done < job.blocks
    BY <1>c DEF AesInv, EngineInv
  <2> QED
    BY <1>c, <2>1, <2>2 DEF EngineInv
<1>11. WantInv'
  <2>1. Begun' < job.blocks => want[Begun'].chain = Cipher(Begun)
    <3>1. \A i \in 1 .. job.blocks - 1 : want[i].chain = Cipher(i - 1)
      BY <1>0 DEF AesInv, WantInv
    <3>2. Begun' < job.blocks => Begun' \in 1 .. job.blocks - 1 /\ Begun' - 1 = Begun
      BY <1>1, <1>3
    <3> QED
      BY <3>1, <3>2
  <2>2. engine'.chain = Cipher(Begun)
    BY <1>0, <1>7
  <2> QED
    BY <1>0, <2>1, <2>2 DEF AesInv, WantInv, Cipher
<1>12. CipherInv'
  <2> SUFFICES ASSUME NEW i \in 0 .. job.blocks - 1, i >= Begun'
               PROVE  /\ Latest(job.src + i)' = Cipher(i)
                      /\ job.src + i \in DOMAIN read => read[job.src + i] = Cipher(i)
    BY <1>0 DEF CipherInv, Cipher, Latest
  <2> QED
    BY <1>1, <1>3, <1>6
<1>13. PlainInv'
  <2>1. /\ DOMAIN bus'.posted = {engine.dst} \cup DOMAIN bus.posted
        /\ bus'.posted[engine.dst] = plain
        /\ \A d \in DOMAIN bus.posted : d # engine.dst => bus'.posted[d] = bus.posted[d]
    BY <1>0 DEF Over, written
  <2>2. \A d \in DOMAIN bus'.posted : \E i \in 0 .. job.blocks - 1 : i < Begun' /\ d = job.dst + i
    <3>1. ASSUME NEW d \in DOMAIN bus'.posted
          PROVE  \E i \in 0 .. job.blocks - 1 : i < Begun' /\ d = job.dst + i
      <4>1. CASE d = engine.dst
        BY <1>1, <1>3, <4>1
      <4>2. CASE d # engine.dst
        <5>1. PICK i \in 0 .. job.blocks - 1 : i < Begun /\ d = job.dst + i
          BY <2>1, <4>2 DEF AesInv, PlainInv
        <5> QED
          BY <1>1, <1>3, <5>1
      <4> QED
        BY <4>1, <4>2
    <3> QED
      BY <3>1
  <2>3. plain = want[Begun]
    <3>1. want[Begun] = Plain(want[Begun].chain, Cipher(Begun)) /\ want[Begun].chain = engine.chain
      BY <1>1, <1>3, <1>c DEF AesInv, WantInv
    <3> QED
      BY <1>7, <3>1 DEF plain
  <2>4. ASSUME NEW i \in 0 .. job.blocks - 1, i < Begun'
        PROVE  want[i] = IF job.dst + i \in DOMAIN bus'.posted THEN bus'.posted[job.dst + i] ELSE mem[job.dst + i]
    <3>1. CASE i = Begun
      BY <1>1, <2>1, <2>3, <3>1
    <3>2. CASE i # Begun
      <4>1. i < Begun /\ job.dst + i # engine.dst
        BY <1>1, <1>3, <2>4, <3>2
      <4>2. want[i] = IF job.dst + i \in DOMAIN bus.posted THEN bus.posted[job.dst + i] ELSE mem[job.dst + i]
        BY <1>0, <4>1 DEF AesInv, PlainInv
      <4> QED
        BY <2>1, <4>1, <4>2
    <3> QED
      BY <3>1, <3>2
  <2> QED
    BY <1>0, <2>2, <2>4 DEF PlainInv
<1> QED
  BY <1>8, <1>9, <1>10, <1>11, <1>12, <1>13 DEF AesInv
-----------------------------------------------------------------------------
(* A program that has nothing decrypted starts with clean caches and a bus *)
(* at rest.                                                                *)
LEMMA WriteKeeps == AesInv /\ Write => AesInv'
<1> SUFFICES ASSUME AesInv, Write PROVE AesInv'
  OBVIOUS
<1>0. /\ UNCHANGED <<mem, bus, jobs>> /\ pc = "idle" /\ jobs # <<>>
      /\ pc' = (IF job.by = "ppc" THEN "sync" ELSE "flush")
      /\ at' = [done |-> 0, keep |-> job.keep]
      /\ engine' = [iv |-> IV, chain |-> engine.chain, left |-> engine.left,
                    src |-> engine.src, dst |-> engine.dst]
      /\ Working' /\ ~Commanded /\ ~Commanded' /\ job' = job /\ Begun' = 0
  BY DEF Write, Working, Commanded, job, Begun, AesInv, Shape
<1>1. /\ job.by \in Processors /\ job.src \in Nat /\ job.blocks \in Nat \ {0} /\ job.keep \in BOOLEAN
      /\ engine.left = 0 /\ DOMAIN bus.posted = {} /\ at'.done = 0 /\ at'.keep = job.keep
  BY <1>0, JobFits DEF AesInv, Shape, EngineInv
<1> DEFINE put(c) == IF c \in job.src .. job.src + job.blocks - 1 THEN Cipher(c - job.src) ELSE View(job.by, c)
           line(l) == [dirty |-> TRUE, data |-> [c \in CellsOf(l) |-> put(c)]]
<1>2. \A q \in Processors, k \in Lines :
        cache'[q][k] = IF q = job.by /\ k \in LinesOf(job.src, job.blocks) THEN line(k) ELSE cache[q][k]
  BY <1>1 DEF Write, AesInv, Shape
<1>3. \A k \in Lines : /\ IsLine(line(k)) /\ line(k).dirty
                       /\ line(k).data = [c \in CellsOf(k) |-> put(c)]
  BY LineKinds
<1>4. \A q \in Processors, k \in Lines : ~cache[q][k].dirty
  BY <1>0, Settled DEF AesInv, Shape
<1>5. Shape'
  <2>1. \A q \in Processors, k \in Lines : IsLine(cache'[q][k]) /\ cache'[q][k].dirty \in BOOLEAN
    <3>1. ASSUME NEW q \in Processors, NEW k \in Lines
          PROVE  IsLine(cache'[q][k]) /\ cache'[q][k].dirty \in BOOLEAN
      <4>1. line(k).dirty = TRUE
        OBVIOUS
      <4> HIDE DEF line
      <4> QED
        BY ZenonT(40), <1>2, <1>3, <4>1 DEF AesInv, Shape
    <3> QED
      BY <3>1
  <2>2. cache' = [q \in Processors |-> [k \in Lines |-> cache'[q][k]]]
    BY DEF Write, AesInv, Shape
  <2> QED
    BY <1>0, <1>1, <2>1, <2>2 DEF AesInv, Shape
<1>6. DirtyInv'
  <2>1. \A q \in Processors, k \in Lines :
          cache'[q][k].dirty => q = job.by /\ k \in LinesOf(job.src, job.blocks)
    BY <1>2, <1>4
  <2> QED
    BY <1>0, <1>1, <2>1 DEF DirtyInv, LinesOf, Processors
<1>7. EngineInv' /\ SyncInv' /\ PlainInv' /\ Dropped'
  BY <1>0, <1>1 DEF EngineInv, SyncInv, PlainInv, Dropped
<1>8. WantInv'
  <2>1. want' = [i \in 0 .. job.blocks - 1 |-> Plain(Chained(i), Cipher(i))]
    BY DEF Write
  <2>2. \A i \in 0 .. job.blocks - 1 : /\ want'[i] = Plain(Chained(i), Cipher(i))
                                       /\ want'[i].chain = Chained(i)
    BY <2>1 DEF Plain
  <2>3. \A i \in 0 .. job.blocks - 1 : want'[i] = Plain(want'[i].chain, Cipher(i))
    BY <2>2
  <2>4. \A i \in 1 .. job.blocks - 1 : want'[i].chain = Cipher(i - 1)
    BY <1>1, <2>2 DEF Chained
  <2>5. want'[0].chain = IF at'.keep THEN engine'.chain ELSE engine'.iv
    BY <1>0, <1>1, <2>2 DEF Chained
  <2> QED
    BY <1>0, <1>1, <2>3, <2>4, <2>5 DEF WantInv, Cipher
<1>9. CipherInv'
  <2>1. ASSUME NEW i \in 0 .. job.blocks - 1 PROVE Latest(job.src + i)' = Cipher(i)
    <3>1. PICK c \in 0 .. Cells - 1 : c = job.src + i /\ LineOf(c) \in LinesOf(job.src, job.blocks)
      BY <1>0, JobFits DEF AesInv
    <3>2. LineOf(c) \in Lines /\ c \in CellsOf(LineOf(c))
      BY CellLines
    <3>3. cache'[job.by][LineOf(c)] = line(LineOf(c))
      BY <1>1, <1>2, <3>1, <3>2
    <3>4. put(c) = Cipher(i)
      <4>1. c \in job.src .. job.src + job.blocks - 1 /\ c - job.src = i
        BY <1>1, <3>1
      <4> QED
        BY <4>1
    <3>5. line(LineOf(c)).dirty /\ line(LineOf(c)).data[c] = Cipher(i)
      BY <1>3, <3>2, <3>4
    <3> HIDE DEF line
    <3>6. Latest(c)' = Cipher(i)
      BY <1>0, <3>3, <3>5 DEF Latest
    <3> QED
      BY <1>0, <3>1, <3>6 DEF Latest
  <2> QED
    BY <1>0, <2>1 DEF CipherInv, Cipher, Latest
<1> QED
  BY <1>5, <1>6, <1>7, <1>8, <1>9 DEF AesInv

-----------------------------------------------------------------------------
LEMMA AesNextKeeps == AesInv /\ [AesNext]_aesVars => AesInv'
<1> SUFFICES ASSUME AesInv, [AesNext]_aesVars PROVE AesInv'
  OBVIOUS
<1>1. CASE UNCHANGED aesVars
  <2>1. UNCHANGED <<mem, cache, engine, bus, jobs, pc, at, want>>
    BY <1>1 DEF aesVars
  <2>2. /\ job' = job /\ Working' = Working /\ Commanded' = Commanded /\ Begun' = Begun /\ ThisChunk' = ThisChunk
        /\ Shape'
    BY <2>1 DEF job, Working, Commanded, Begun, ThisChunk, Left, AesInv, Shape
  <2>3. DirtyInv' /\ SyncInv' /\ EngineInv' /\ PlainInv' /\ Dropped'
    BY <2>1, <2>2 DEF AesInv, DirtyInv, SyncInv, EngineInv, PlainInv, Dropped
  <2>4. WantInv' /\ CipherInv'
    BY <2>1, <2>2 DEF AesInv, WantInv, CipherInv, Cipher, Latest
  <2> QED
    BY <2>2, <2>3, <2>4 DEF AesInv
<1>2. ASSUME NEW p \in Processors, NEW l \in Lines, Fetch(p, l) PROVE AesInv'
  BY <1>2, FetchKeeps
<1>3. ASSUME NEW p \in Processors, NEW l \in Lines, Evict(p, l) PROVE AesInv'
  BY <1>3, EvictKeeps
<1>4. ASSUME NEW c \in DOMAIN bus.posted, Arrive(c) PROVE AesInv'
  BY <1>4, ArriveKeeps
<1> QED
  BY <1>1, <1>2, <1>3, <1>4, WriteKeeps, sync_after_writeKeeps, dc_flushrangeKeeps,
     dc_invalidaterangeKeeps, ahb_flush_toKeeps, aes_commandKeeps, ahb_flush_fromKeeps,
     NextChunkKeeps, DecryptedKeeps, sync_before_readKeeps, ReadPlainKeeps, DecryptKeeps DEF AesNext

(* The lines of the plaintext are in no cache, the bus is at rest, and all *)
(* of it is in memory.                                                     *)
LEMMA PlaintextRead == AesInv => ReadsPlaintext
<1> SUFFICES ASSUME AesInv, pc = "read", NEW i \in 0 .. job.blocks - 1
             PROVE  View(job.by, job.dst + i) = want[i]
  BY DEF ReadsPlaintext
<1>1. /\ Working /\ ~Commanded /\ jobs # <<>> /\ at.done = job.blocks /\ Begun = job.blocks
      /\ DOMAIN bus.posted = {}
  BY DEF Working, Commanded, AesInv, Shape, EngineInv, Begun
<1>2. /\ job.by \in Processors /\ job.blocks \in Nat \ {0} /\ job.dst + i \in 0 .. Cells - 1
      /\ LineOf(job.dst + i) \in LinesOf(job.dst, job.blocks)
  BY <1>1, JobFits DEF AesInv
<1>3. cache[job.by][LineOf(job.dst + i)] = NoLine
  BY <1>1, <1>2 DEF AesInv, Dropped, Processors
<1>4. want[i] = mem[job.dst + i]
  BY <1>1, <1>2 DEF AesInv, PlainInv
<1> QED
  BY <1>3, <1>4 DEF View

(* Whatever buffers programs decrypt, in memory of any size, with lines    *)
(* and commands of any length, and whenever lines leave a cache and writes *)
(* reach memory: a program reads the plaintext of all it had decrypted, if *)
(* no line of its destination was dirty when it began (AesInit, Write).    *)
THEOREM ReadsPlaintextAlways == AesSpec => []ReadsPlaintext
<1>1. AesInit => AesInv
  BY AesInitOk
<1>2. AesInv /\ [AesNext]_aesVars => AesInv'
  BY AesNextKeeps
<1>3. AesInv => ReadsPlaintext
  BY PlaintextRead
<1> QED
  BY <1>1, <1>2, <1>3, PTL DEF AesSpec

HIDE AesAssumption

-----------------------------------------------------------------------------
(***************************************************************************)
(* Loading boot2.  While a copy is loaded: the map is the best of those of *)
(* the blocks looked at; the list has the blocks in use that were passed,  *)
(* each at its place; and the buffer has the first pages of the copy.  A   *)
(* copy of more pages than the counter counts is never loaded: page_ptr    *)
(* goes on where pages_read starts again.                                  *)
(***************************************************************************)
Listing == phase = "list"
Fetching == Loading \/ boot2_initialized
PageSize == boot2[0].data + boot2[boot2[0].data - 1].content

Boot2Types ==
    /\ chip \in Chips /\ copy \in {0, 1}
    /\ phase \in {"start", "scan", "list", "header", "data", "content", "idle"}
    /\ block \in 0 .. LastBlock + 1
    /\ good_blockmap \in Map
    /\ boot2_blocks \in Seq(Blocks)
    /\ pages_read \in 0 .. CounterSize - 1 /\ page_ptr \in Nat /\ target \in Nat
    /\ boot2 = [p \in 0 .. CounterSize - 1 |-> boot2[p]]
    /\ boot2_initialized \in BOOLEAN

(* The map of a block, as find_valid_map finds it. *)
MapOf(b) == find_valid_map(chip.maps[b])
BestOf(blocks) ==
    IF good_blockmap = NoMap THEN \A b \in blocks : MapOf(b) = NoMap
    ELSE /\ \E b \in blocks : MapOf(b) = good_blockmap
         /\ \A b \in blocks : MapOf(b) # NoMap => MapOf(b).generation <= good_blockmap.generation
MapInv ==
    /\ phase = "scan" => BestOf(1 .. block - 1) /\ block > 0 /\ boot2_blocks = <<>> /\ pages_read = 0
    /\ Listing \/ Fetching => BestOf(Blocks) /\ good_blockmap # NoMap

ListInv ==
    /\ Listing => /\ Len(boot2_blocks) = Cardinality(Before(good_blockmap, block)) /\ pages_read = 0
                  /\ IF copy = 0 THEN block > 0 ELSE block <= LastBlock
    /\ Listing \/ Fetching => \A n \in 1 .. Len(boot2_blocks) :
          /\ good_blockmap.blocks[boot2_blocks[n]]
          /\ Cardinality(Before(good_blockmap, boot2_blocks[n])) = n - 1

ReadInv == Fetching =>
    /\ page_ptr < CounterSize => pages_read = page_ptr
    /\ page_ptr >= CounterSize => target >= CounterSize /\ ~boot2_initialized
    /\ \A p \in 0 .. CounterSize - 1 : p < page_ptr =>
          /\ p < Len(boot2_blocks) * BlockPages
          /\ boot2[p] = chip.pages[boot2_page_translate(p)] /\ boot2[p].good

PhaseInv ==
    /\ phase = "header" => target = 1
    /\ phase = "data" => page_ptr > 0 /\ target = boot2[0].data
    /\ phase = "content" \/ boot2_initialized => page_ptr > 0 /\ page_ptr >= boot2[0].data /\ target = PageSize
    /\ boot2_initialized => phase = "idle" /\ target <= page_ptr

RunInv ==
    /\ phase # "idle" => reply = NoReply /\ vector = "none"
    /\ boot2_initialized => reply \in {NoReply, copy}
    /\ vector = "boot2" => boot2_initialized /\ (image.title # Menu => image.count = 1)

Boot2Inv == Boot2Types /\ MapInv /\ ListInv /\ ReadInv /\ PhaseInv /\ RunInv
-----------------------------------------------------------------------------
(* Pages and blocks. *)
USE Boot2Assumption

LEMMA PageDivision ==
    ASSUME NEW n \in Nat
    PROVE  /\ n \div BlockPages \in Nat /\ n % BlockPages \in 0 .. BlockPages - 1
           /\ n = (n \div BlockPages) * BlockPages + (n % BlockPages)
OBVIOUS

LEMMA BlocksApart ==
    ASSUME NEW a \in Nat, NEW b \in Nat, a < b PROVE a * BlockPages + BlockPages <= b * BlockPages
<1>1. a + 1 <= b
  OBVIOUS
<1>2. (a + 1) * BlockPages <= b * BlockPages
  BY <1>1
<1>3. (a + 1) * BlockPages = a * BlockPages + BlockPages
  OBVIOUS
<1> QED
  BY <1>2, <1>3

LEMMA PageOfBlock ==
    ASSUME NEW b \in Nat, NEW r \in 0 .. BlockPages - 1
    PROVE  /\ (b * BlockPages + r) \div BlockPages = b
           /\ (b * BlockPages + r) % BlockPages = r
<1> DEFINE n == b * BlockPages + r
           q == n \div BlockPages
           s == n % BlockPages
<1>1. n \in Nat
  OBVIOUS
<1>2. q \in Nat /\ s \in 0 .. BlockPages - 1 /\ n = q * BlockPages + s
  BY <1>1, PageDivision
<1> HIDE DEF q, s
<1>3. ~(q < b)
  <2> SUFFICES ASSUME q < b PROVE FALSE
    OBVIOUS
  <2>1. q * BlockPages + BlockPages <= b * BlockPages
    BY <1>2, BlocksApart
  <2>2. q * BlockPages \in Nat /\ b * BlockPages \in Nat
    BY <1>2
  <2> QED
    BY <1>2, <2>1, <2>2
<1>4. ~(b < q)
  <2> SUFFICES ASSUME b < q PROVE FALSE
    OBVIOUS
  <2>1. b * BlockPages + BlockPages <= q * BlockPages
    BY <1>2, BlocksApart
  <2>2. b * BlockPages \in Nat /\ q * BlockPages \in Nat
    BY <1>2
  <2> QED
    BY <1>2, <2>1, <2>2
<1>5. q = b
  BY <1>2, <1>3, <1>4
<1>6. s = r
  BY <1>2, <1>5
<1> QED
  BY <1>5, <1>6 DEF q, s

LEMMA BlockOfPage ==
    ASSUME NEW n \in Nat, NEW k \in Nat, n < k * BlockPages PROVE n \div BlockPages < k
<1>1. /\ n \div BlockPages \in Nat /\ n % BlockPages \in 0 .. BlockPages - 1
      /\ n = (n \div BlockPages) * BlockPages + (n % BlockPages)
  BY PageDivision
<1> SUFFICES ASSUME ~(n \div BlockPages < k) PROVE FALSE
  OBVIOUS
<1>2. k * BlockPages <= (n \div BlockPages) * BlockPages
  <2>1. PICK d \in Nat : n \div BlockPages = k + d
    BY <1>1
  <2>2. (k + d) * BlockPages = k * BlockPages + d * BlockPages /\ d * BlockPages \in Nat /\ k * BlockPages \in Nat
    OBVIOUS
  <2> QED
    BY <2>1, <2>2
<1>3. k * BlockPages \in Nat /\ (n \div BlockPages) * BlockPages \in Nat
  BY <1>1
<1> QED
  BY <1>1, <1>2, <1>3

-----------------------------------------------------------------------------
(* find_valid_map finds the map that two of three copies agree on. *)
LEMMA TwoOfThree ==
    ASSUME NEW S \in SUBSET (1 .. 3) PROVE Cardinality(S) >= 2 <=> \E i, j \in S : i # j
<1>1. IsFiniteSet(S) /\ Cardinality(S) \in Nat
  <2>1. S \in SUBSET Nat /\ \A s \in S : s <= 3
    OBVIOUS
  <2> QED
    BY <2>1, FS_BoundedSetOfNaturals, FS_CardinalityType
<1>2. ASSUME NEW i \in S, NEW j \in S, i # j PROVE Cardinality(S) >= 2
  <2>1. IsFiniteSet({i}) /\ Cardinality({i}) = 1
    BY FS_Singleton
  <2> DEFINE T == {i}
  <2>2. Cardinality(T \cup {j}) = 2
    <3>1. j \notin T
      BY <1>2
    <3> HIDE DEF T
    <3>2. Cardinality(T \cup {j}) = Cardinality(T) + 1
      BY <2>1, <3>1, FS_AddElement DEF T
    <3>3. Cardinality(T) = 1
      BY <2>1 DEF T
    <3> QED
      BY <3>2, <3>3
  <2>3. T \cup {j} \in SUBSET S
    OBVIOUS
  <2> QED
    BY <1>1, <2>2, <2>3, FS_Subset
<1>3. ASSUME \A i, j \in S : i = j PROVE ~(Cardinality(S) >= 2)
  <2>1. CASE S = {}
    BY <2>1, FS_EmptySet
  <2>2. CASE S # {}
    <3>1. PICK i \in S : S = {i}
      BY ZenonT(40), <1>3, <2>2
    <3>2. Cardinality({i}) = 1
      BY FS_Singleton
    <3> QED
      BY <3>1, <3>2
  <2> QED
    BY <2>1, <2>2
<1> QED
  BY <1>2, <1>3

LEMMA MapTypes ==
    ASSUME chip \in Chips, NEW b \in Blocks
    PROVE  MapOf(b) \in Map /\ (MapOf(b) # NoMap => MapOf(b).generation \in Nat /\ MapOf(b).blocks \in [Blocks -> BOOLEAN])
<1>1. chip.maps[b] \in [1 .. 3 -> Map]
  OBVIOUS
<1>2. MapOf(b) \in Map
  BY <1>1 DEF MapOf, find_valid_map, Map
<1> QED
  BY <1>2 DEF Map

LEMMA ValidMap ==
    ASSUME chip \in Chips, NEW b \in Blocks
    PROVE  Valid(b) = {MapOf(b)} \ {NoMap}
<1> DEFINE maps == chip.maps[b]
           Copies(map) == {i \in 1 .. 3 : maps[i] = map}
<1>1. maps \in [1 .. 3 -> Map]
  OBVIOUS
<1>2. \A map : Cardinality(Copies(map)) >= 2 <=> \E i, j \in 1 .. 3 : i # j /\ maps[i] = map /\ maps[j] = map
  <2> TAKE map
  <2>1. Copies(map) \in SUBSET (1 .. 3)
    OBVIOUS
  <2>2. Cardinality(Copies(map)) >= 2 <=> \E i, j \in Copies(map) : i # j
    BY <2>1, TwoOfThree
  <2> QED
    BY <2>2
<1>3. \A map : map \in Valid(b) <=> map # NoMap /\ \E i, j \in 1 .. 3 : i # j /\ maps[i] = map /\ maps[j] = map
  <2> TAKE map
  <2>1. map \in Valid(b) <=> map \in Agreed /\ Cardinality(Copies(map)) >= 2
    BY DEF Valid
  <2>2. (\E i \in 1 .. 3 : maps[i] = map) /\ map # NoMap => map \in Agreed
    BY DEF Agreed
  <2>3. map \in Agreed => map # NoMap
    BY DEF Agreed
  <2> QED
    BY <1>2, <2>1, <2>2, <2>3
<1>4. \A map : (map # NoMap /\ \E i, j \in 1 .. 3 : i # j /\ maps[i] = map /\ maps[j] = map)
               <=> map = MapOf(b) /\ map # NoMap
  <2> TAKE map
  <2>1. (\E i, j \in 1 .. 3 : i # j /\ maps[i] = map /\ maps[j] = map)
        <=> \/ maps[1] = map /\ maps[2] = map
            \/ maps[1] = map /\ maps[3] = map
            \/ maps[2] = map /\ maps[3] = map
    <3>1. \A i \in 1 .. 3 : i = 1 \/ i = 2 \/ i = 3
      OBVIOUS
    <3>2. 1 \in 1 .. 3 /\ 2 \in 1 .. 3 /\ 3 \in 1 .. 3
      OBVIOUS
    <3> HIDE DEF maps
    <3> QED
      BY <3>1, <3>2
  <2>2. MapOf(b) = CASE maps[1] # NoMap /\ maps[1] \in {maps[2], maps[3]} -> maps[1]
                     [] maps[2] # NoMap /\ maps[2] = maps[3] -> maps[2]
                     [] OTHER -> NoMap
    BY DEF MapOf, find_valid_map
  <2> HIDE DEF maps
  <2> QED
    BY <2>1, <2>2
<1> DEFINE T == {MapOf(b)} \ {NoMap}
<1>5. \A map : map \in Valid(b) <=> map \in T
  BY <1>3, <1>4
<1> HIDE DEF T
<1>6. Valid(b) = T
  BY <1>5 DEF Valid
<1> QED
  BY <1>6 DEF T

(* The best map of all blocks is one of the newest. *)
LEMMA BestIsNewest ==
    ASSUME Boot2Types, BestOf(Blocks), good_blockmap # NoMap
    PROVE  good_blockmap \in NewestMaps
<1>1. chip \in Chips
  BY DEF Boot2Types
<1>2. PICK b \in Blocks : MapOf(b) = good_blockmap
  BY DEF BestOf
<1>3. good_blockmap \in Valid(b)
  BY <1>1, <1>2, ValidMap
<1>4. \A d \in Blocks : \A other \in Valid(d) : other.generation <= good_blockmap.generation
  BY <1>1, ValidMap DEF BestOf
<1> QED
  BY <1>3, <1>4 DEF NewestMaps

-----------------------------------------------------------------------------
(* The list of blocks. *)
LEMMA BeforeFinite == ASSUME NEW map, NEW b PROVE IsFiniteSet(Before(map, b)) /\ Cardinality(Before(map, b)) \in Nat
<1>1. IsFiniteSet(Blocks) /\ Before(map, b) \subseteq Blocks
  BY FS_Interval DEF Blocks, Before
<1> QED
  BY <1>1, FS_Subset, FS_CardinalityType

(* A block in use has more in use before it than one that lies before it. *)
LEMMA PlacesApart ==
    ASSUME NEW map, NEW b \in Blocks, NEW d \in Blocks, map.blocks[b], map.blocks[d],
           Cardinality(Before(map, b)) = Cardinality(Before(map, d))
    PROVE  b = d
<1>1. ASSUME NEW e \in Blocks, NEW f \in Blocks, map.blocks[e], IF copy = 0 THEN e < f ELSE e > f
      PROVE  Cardinality(Before(map, e)) # Cardinality(Before(map, f))
  <2>1. e \in Before(map, f) /\ e \notin Before(map, e) /\ Before(map, e) \subseteq Before(map, f)
    BY <1>1 DEF Before, Blocks
  <2> QED
    BY <2>1, BeforeFinite, FS_Subset
<1> QED
  BY <1>1 DEF Blocks

LEMMA BeforeNext ==
    ASSUME NEW map, NEW b \in Blocks
    PROVE  LET next == IF copy = 0 THEN b + 1 ELSE b - 1 IN
           Cardinality(Before(map, next)) = Cardinality(Before(map, b)) + (IF map.blocks[b] THEN 1 ELSE 0)
<1> DEFINE next == IF copy = 0 THEN b + 1 ELSE b - 1
<1>1. CASE map.blocks[b]
  <2>1. Before(map, next) = Before(map, b) \cup {b} /\ b \notin Before(map, b)
    BY <1>1 DEF Before, Blocks
  <2> QED
    BY <1>1, <2>1, BeforeFinite, FS_AddElement
<1>2. CASE ~map.blocks[b]
  <2>1. Before(map, next) = Before(map, b)
    BY <1>2 DEF Before, Blocks
  <2> QED
    BY <1>2, <2>1, BeforeFinite
<1> QED
  BY <1>1, <1>2

LEMMA BeforeFirst ==
    ASSUME NEW map PROVE Cardinality(Before(map, IF copy = 0 THEN 1 ELSE LastBlock)) = 0
<1>1. Before(map, IF copy = 0 THEN 1 ELSE LastBlock) = {}
  BY DEF Before, Blocks
<1> QED
  BY <1>1, FS_EmptySet
-----------------------------------------------------------------------------
(* The steps. *)
LEMMA Boot2InitOk == Boot2Init => Boot2Inv
<1> SUFFICES ASSUME Boot2Init PROVE Boot2Inv
  OBVIOUS
<1>1. Boot2Types
  <2>1. 1 \in 0 .. LastBlock + 1 /\ 0 \in 0 .. CounterSize - 1 /\ 0 \in Nat
    OBVIOUS
  <2>2. NoMap \in Map /\ <<>> \in Seq(Blocks)
    BY DEF Map
  <2>3. boot2 = [p \in 0 .. CounterSize - 1 |-> boot2[p]]
    BY DEF Boot2Init
  <2> QED
    BY <2>1, <2>2, <2>3 DEF Boot2Init, Boot2Types
<1>2. /\ ~Listing /\ ~Fetching /\ phase = "start" /\ ~boot2_initialized
      /\ reply = NoReply /\ vector = "none"
  BY DEF Boot2Init, Listing, Fetching, Loading
<1> QED
  BY <1>1, <1>2 DEF Boot2Inv, MapInv, ListInv, ReadInv, PhaseInv, RunInv

(* A load that failed leaves nothing loaded, and is not taken up again. *)
LEMMA FailKeeps ==
    ASSUME Boot2Inv, phase # "idle", Fail,
           UNCHANGED <<block, target, good_blockmap, boot2_blocks, pages_read, boot2, page_ptr>>
    PROVE  Boot2Inv'
<1>1. /\ UNCHANGED <<boot2_initialized, image, reply, vector, chip>> /\ ~boot2_initialized
      /\ reply = NoReply /\ vector = "none" /\ phase' \in {"start", "idle"} /\ copy' \in {0, 1}
  BY DEF Fail, Boot2Inv, Boot2Types, PhaseInv, RunInv
<1>2. Boot2Types'
  BY <1>1 DEF Boot2Inv, Boot2Types
<1>3. ~Listing' /\ ~Fetching'
  BY <1>1 DEF Listing, Fetching, Loading
<1> QED
  BY <1>1, <1>2, <1>3 DEF Boot2Inv, MapInv, ListInv, ReadInv, PhaseInv, RunInv

LEMMA LoadKeeps == Boot2Inv /\ Load => Boot2Inv'
<1> SUFFICES ASSUME Boot2Inv, Load PROVE Boot2Inv'
  OBVIOUS
<1>1. /\ UNCHANGED <<chip, copy, target, boot2, page_ptr, boot2_initialized, image, reply, vector>>
      /\ phase = "start" /\ phase' = "scan" /\ block' = 1 /\ good_blockmap' = NoMap /\ boot2_blocks' = <<>>
      /\ pages_read' = 0 /\ ~boot2_initialized /\ reply = NoReply /\ vector = "none"
  BY DEF Load, Boot2Inv, PhaseInv, RunInv
<1>2. Boot2Types'
  BY <1>1 DEF Boot2Inv, Boot2Types, Map
<1>3. ~Listing' /\ ~Fetching'
  BY <1>1 DEF Listing, Fetching, Loading
<1>4. BestOf(1 .. block - 1)'
  BY <1>1 DEF BestOf
<1> QED
  BY <1>1, <1>2, <1>3, <1>4 DEF Boot2Inv, MapInv, ListInv, ReadInv, PhaseInv, RunInv

LEMMA ReadMapsKeeps == Boot2Inv /\ ReadMaps => Boot2Inv'
<1> SUFFICES ASSUME Boot2Inv, ReadMaps PROVE Boot2Inv'
  OBVIOUS
<1>1. /\ UNCHANGED <<chip, copy, phase, target, boot2_blocks, pages_read, boot2, page_ptr, boot2_initialized, image, reply, vector>>
      /\ phase = "scan" /\ block \in Blocks /\ block' = block + 1
      /\ good_blockmap' = Best(good_blockmap, MapOf(block))
      /\ ~boot2_initialized /\ reply = NoReply /\ vector = "none"
      /\ chip \in Chips /\ good_blockmap \in Map
  BY DEF ReadMaps, Boot2Inv, Boot2Types, MapInv, PhaseInv, RunInv, MapOf, Blocks
<1>2. MapOf(block) \in Map /\ (MapOf(block) # NoMap => MapOf(block).generation \in Nat)
  BY <1>1, MapTypes
<1>3. good_blockmap # NoMap => good_blockmap.generation \in Nat
  BY <1>1 DEF Map
<1>4. Boot2Types'
  <2>1. good_blockmap' \in Map
    BY <1>1, <1>2 DEF Best
  <2> QED
    BY <1>1, <2>1 DEF Boot2Inv, Boot2Types, Blocks
<1>5. ~Listing' /\ ~Fetching'
  BY <1>1 DEF Listing, Fetching, Loading
<1>6. BestOf(1 .. block - 1)'
  <2>1. BestOf(1 .. block - 1)
    BY <1>1 DEF Boot2Inv, MapInv
  <2>2. 1 .. block' - 1 = (1 .. block - 1) \cup {block}
    BY <1>1 DEF Blocks
  <2>3. \A b \in 1 .. block - 1 : MapOf(b)' = MapOf(b) /\ (MapOf(b) # NoMap => MapOf(b).generation \in Nat)
    <3>1. \A b \in 1 .. block - 1 : b \in Blocks
      BY <1>1 DEF Blocks
    <3>2. \A b \in Blocks : MapOf(b) # NoMap => MapOf(b).generation \in Nat
      BY <1>1, MapTypes
    <3>3. \A b \in Blocks : MapOf(b)' = MapOf(b)
      BY <1>1 DEF MapOf
    <3> QED
      BY <3>1, <3>2, <3>3
  <2>4. PICK k : k = block
    OBVIOUS
  <2>5. MapOf(k)' = MapOf(k)
    BY <1>1 DEF MapOf
  <2>6. CASE MapOf(k) # NoMap /\ (good_blockmap = NoMap \/ MapOf(k).generation >= good_blockmap.generation)
    <3>1. good_blockmap' = MapOf(k)
      BY <1>1, <1>2, <2>4, <2>6 DEF Best
    <3>2. k \in 1 .. block' - 1 /\ MapOf(k)' = good_blockmap'
      BY <2>2, <2>4, <2>5, <3>1
    <3>3. ASSUME NEW b \in 1 .. block' - 1, MapOf(b)' # NoMap
          PROVE  MapOf(b)'.generation <= good_blockmap'.generation
      <4>1. CASE b = k
        BY <1>2, <2>4, <2>5, <2>6, <3>1, <4>1
      <4>2. CASE b # k
        <5>1. b \in 1 .. block - 1
          BY <2>2, <2>4, <4>2
        <5>2. MapOf(b)' = MapOf(b) /\ MapOf(b).generation \in Nat /\ MapOf(b) # NoMap
          BY <2>3, <3>3, <5>1
        <5>3. good_blockmap # NoMap /\ MapOf(b).generation <= good_blockmap.generation
          BY <2>1, <5>1, <5>2 DEF BestOf
        <5>4. good_blockmap.generation <= MapOf(k).generation /\ MapOf(k).generation \in Nat
              /\ good_blockmap.generation \in Nat
          BY <1>2, <1>3, <2>4, <2>6, <5>3
        <5> QED
          BY <3>1, <5>2, <5>3, <5>4
      <4> QED
        BY <4>1, <4>2
    <3>4. good_blockmap' # NoMap
      BY <2>6, <3>1
    <3> QED
      BY <3>2, <3>3, <3>4 DEF BestOf
  <2>7. CASE ~(MapOf(k) # NoMap /\ (good_blockmap = NoMap \/ MapOf(k).generation >= good_blockmap.generation))
    <3>1. good_blockmap' = good_blockmap
      BY <1>1, <1>2, <2>4, <2>7 DEF Best
    <3> QED
      BY <1>2, <1>3, <2>1, <2>2, <2>3, <2>4, <2>5, <2>7, <3>1 DEF BestOf
  <2> QED
    BY <2>6, <2>7
<1>7. block' > 0 /\ boot2_blocks' = <<>> /\ pages_read' = 0
  BY <1>1 DEF Boot2Inv, MapInv, Blocks
<1> QED
  BY <1>1, <1>4, <1>5, <1>6, <1>7 DEF Boot2Inv, MapInv, ListInv, ReadInv, PhaseInv, RunInv

LEMMA MapsReadKeeps == Boot2Inv /\ MapsRead => Boot2Inv'
<1> SUFFICES ASSUME Boot2Inv, MapsRead PROVE Boot2Inv'
  OBVIOUS
<1>1. CASE good_blockmap = NoMap
  BY <1>1, FailKeeps DEF MapsRead, loadVars
<1>2. CASE good_blockmap # NoMap
  <2>1. /\ UNCHANGED <<chip, copy, target, good_blockmap, boot2_blocks, pages_read, boot2, page_ptr, boot2_initialized, image, reply, vector>>
        /\ phase = "scan" /\ phase' = "list" /\ block = LastBlock + 1
        /\ block' = (IF copy = 0 THEN 1 ELSE LastBlock)
        /\ ~boot2_initialized /\ reply = NoReply /\ vector = "none"
        /\ boot2_blocks = <<>> /\ pages_read = 0 /\ BestOf(1 .. block - 1)
    BY <1>2 DEF MapsRead, Boot2Inv, Boot2Types, MapInv, PhaseInv, RunInv
  <2>2. Boot2Types'
    BY <2>1 DEF Boot2Inv, Boot2Types
  <2>3. BestOf(Blocks)'
    <3>1. BestOf(Blocks)
      BY <2>1 DEF Blocks
    <3> QED
      BY <2>1, <3>1 DEF BestOf, MapOf
  <2>4. PICK map, b : map = good_blockmap /\ b = block'
    OBVIOUS
  <2>5. Cardinality(Before(map, b)) = 0
    BY <2>1, <2>4, BeforeFirst
  <2>6. Before(map, b)' = Before(map, b)
    BY <2>1 DEF Before
  <2>7. Len(boot2_blocks') = 0
    BY <2>1
  <2>8. ListInv'
    BY <2>1, <2>4, <2>5, <2>6, <2>7 DEF ListInv, Listing, Fetching, Loading
  <2> QED
    BY <1>2, <2>1, <2>2, <2>3, <2>8 DEF Boot2Inv, MapInv, ReadInv, PhaseInv, RunInv, Fetching, Loading
<1> QED
  BY <1>1, <1>2

LEMMA ListBlockKeeps == Boot2Inv /\ ListBlock => Boot2Inv'
<1> SUFFICES ASSUME Boot2Inv, ListBlock PROVE Boot2Inv'
  OBVIOUS
<1>1. /\ UNCHANGED <<chip, copy, phase, target, good_blockmap, pages_read, boot2, page_ptr, boot2_initialized, image, reply, vector>>
      /\ phase = "list" /\ block \in Blocks
      /\ boot2_blocks' = (IF good_blockmap.blocks[block] THEN Append(boot2_blocks, block) ELSE boot2_blocks)
      /\ block' = (IF copy = 0 THEN block + 1 ELSE block - 1)
      /\ ~boot2_initialized /\ reply = NoReply /\ vector = "none" /\ boot2_blocks \in Seq(Blocks)
      /\ Listing /\ Listing' /\ ~Fetching'
  BY DEF ListBlock, Boot2Inv, Boot2Types, PhaseInv, RunInv, Listing, Fetching, Loading
<1>2. Boot2Types'
  <2>1. boot2_blocks' \in Seq(Blocks)
    BY <1>1
  <2>2. block' \in 0 .. LastBlock + 1
    BY <1>1 DEF Blocks
  <2> QED
    BY <1>1, <2>1, <2>2 DEF Boot2Inv, Boot2Types
<1>3. MapInv'
  BY <1>1 DEF Boot2Inv, MapInv, BestOf, MapOf
<1>4. PICK map, b, n : map = good_blockmap /\ b = block /\ n = block'
  OBVIOUS
<1>6. /\ Len(boot2_blocks) = Cardinality(Before(map, b)) /\ pages_read = 0
      /\ \A k \in 1 .. Len(boot2_blocks) :
            map.blocks[boot2_blocks[k]] /\ Cardinality(Before(map, boot2_blocks[k])) = k - 1
  BY <1>1, <1>4 DEF Boot2Inv, ListInv
<1>7. Cardinality(Before(map, n)) = Cardinality(Before(map, b)) + (IF map.blocks[b] THEN 1 ELSE 0)
  BY <1>1, <1>4, BeforeNext
<1>8. /\ Len(boot2_blocks') = Len(boot2_blocks) + (IF map.blocks[b] THEN 1 ELSE 0)
      /\ \A k \in 1 .. Len(boot2_blocks') :
            boot2_blocks'[k] = IF k \in 1 .. Len(boot2_blocks) THEN boot2_blocks[k] ELSE b
      /\ ~map.blocks[b] => boot2_blocks' = boot2_blocks
  BY <1>1, <1>4
<1>9. \A k \in 1 .. Len(boot2_blocks') :
        map.blocks[boot2_blocks'[k]] /\ Cardinality(Before(map, boot2_blocks'[k])) = k - 1
  <2> TAKE k \in 1 .. Len(boot2_blocks')
  <2>1. Len(boot2_blocks) \in Nat
    BY <1>1
  <2>2. CASE k \in 1 .. Len(boot2_blocks)
    BY <1>6, <1>8, <2>2
  <2>3. CASE k \notin 1 .. Len(boot2_blocks)
    <3>1. map.blocks[b] /\ k = Len(boot2_blocks) + 1 /\ boot2_blocks'[k] = b
      BY <1>8, <2>1, <2>3
    <3> QED
      BY <1>6, <2>1, <3>1
  <2> QED
    BY <2>2, <2>3
<1>10. ListInv'
  <2>1. IF copy = 0 THEN block' > 0 ELSE block' <= LastBlock
    BY <1>1 DEF Blocks
  <2>2. Len(boot2_blocks') = Cardinality(Before(map, n))
    BY <1>6, <1>7, <1>8
  <2>3. ASSUME NEW k \in 1 .. Len(boot2_blocks')
        PROVE  good_blockmap'.blocks[boot2_blocks'[k]] /\ Cardinality(Before(good_blockmap, boot2_blocks[k])') = k - 1
    <3>1. PICK d : d = boot2_blocks'[k]
      OBVIOUS
    <3>2. Before(good_blockmap, boot2_blocks[k])' = Before(map, d)
      BY <1>1, <1>4, <3>1 DEF Before
    <3> QED
      BY <1>1, <1>4, <1>9, <3>1, <3>2
  <2>4. Before(good_blockmap, block)' = Before(map, n)
    BY <1>1, <1>4 DEF Before
  <2> QED
    BY <1>1, <1>6, <2>1, <2>2, <2>3, <2>4 DEF ListInv
<1> QED
  BY <1>1, <1>2, <1>3, <1>10 DEF Boot2Inv, ReadInv, PhaseInv, RunInv

LEMMA ListedKeeps == Boot2Inv /\ Listed => Boot2Inv'
<1> SUFFICES ASSUME Boot2Inv, Listed PROVE Boot2Inv'
  OBVIOUS
<1>1. /\ UNCHANGED <<chip, copy, block, good_blockmap, boot2_blocks, pages_read, boot2, boot2_initialized, image, reply, vector>>
      /\ phase = "list" /\ phase' = "header" /\ target' = 1 /\ page_ptr' = 0
      /\ ~boot2_initialized /\ reply = NoReply /\ vector = "none" /\ pages_read = 0
      /\ Listing /\ ~Listing' /\ Fetching'
  BY DEF Listed, Boot2Inv, Boot2Types, ListInv, PhaseInv, RunInv, Listing, Fetching, Loading
<1>2. Boot2Types'
  BY <1>1 DEF Boot2Inv, Boot2Types
<1>3. MapInv'
  BY <1>1 DEF Boot2Inv, MapInv, BestOf, MapOf
<1>4. ListInv'
  BY <1>1 DEF Boot2Inv, ListInv, Before
<1> QED
  BY <1>1, <1>2, <1>3, <1>4 DEF Boot2Inv, ReadInv, PhaseInv, RunInv

-----------------------------------------------------------------------------
(* The pages of a copy. *)
LEMMA CopyPage ==
    ASSUME Boot2Types, NEW p \in Nat, p < Len(boot2_blocks) * BlockPages
    PROVE  LET t == boot2_page_translate(p) IN
           /\ p \div BlockPages + 1 \in 1 .. Len(boot2_blocks)
           /\ t \in DOMAIN chip.pages /\ t \in Nat /\ t % BlockPages = p % BlockPages
           /\ t \div BlockPages = boot2_blocks[p \div BlockPages + 1]
<1> DEFINE q == p \div BlockPages
           r == p % BlockPages
           b == boot2_blocks[q + 1]
<1>1. q \in Nat /\ r \in 0 .. BlockPages - 1
  BY PageDivision
<1>2. Len(boot2_blocks) \in Nat /\ boot2_blocks \in Seq(Blocks)
  BY DEF Boot2Types
<1>3. q < Len(boot2_blocks)
  BY <1>2, BlockOfPage
<1>4. boot2_page_translate(p) = b * BlockPages + r
  BY DEF boot2_page_translate
<1> HIDE DEF q, r
<1>5. q + 1 \in 1 .. Len(boot2_blocks) /\ b \in Blocks
  BY <1>1, <1>2, <1>3
<1> HIDE DEF b
<1>6. b \in Nat /\ b >= 1 /\ b <= LastBlock
  BY <1>5 DEF Blocks
<1>7. (b * BlockPages + r) \div BlockPages = b /\ (b * BlockPages + r) % BlockPages = r
  BY <1>1, <1>6, PageOfBlock
<1>8. b * BlockPages + r \in BlockPages .. (LastBlock + 1) * BlockPages - 1
  <2>1. b * BlockPages \in Nat /\ b * BlockPages + BlockPages <= (LastBlock + 1) * BlockPages
    BY <1>6, BlocksApart
  <2>2. BlockPages <= b * BlockPages
    <3>1. CASE b = 1
      BY <3>1
    <3>2. CASE b > 1
      <4>1. 1 * BlockPages + BlockPages <= b * BlockPages
        BY <1>6, <3>2, BlocksApart
      <4> QED
        BY <2>1, <4>1
    <3> QED
      BY <1>6, <3>1, <3>2
  <2>3. (LastBlock + 1) * BlockPages \in Nat
    OBVIOUS
  <2> QED
    BY <1>1, <2>1, <2>2, <2>3
<1>9. DOMAIN chip.pages = BlockPages .. (LastBlock + 1) * BlockPages - 1
  BY DEF Boot2Types
<1>10. b * BlockPages + r \in Nat
  BY <1>8
<1> QED
  BY <1>4, <1>5, <1>7, <1>8, <1>9, <1>10 DEF q, r, b

(* The list finds the page that is that far on in the blocks in use. *)
LEMMA PageOfCopy ==
    ASSUME Boot2Inv, Fetching, NEW p \in Nat, p < Len(boot2_blocks) * BlockPages
    PROVE  PageOf(good_blockmap, p) = boot2_page_translate(p)
<1> DEFINE t == boot2_page_translate(p)
           Is(n) == /\ good_blockmap.blocks[n \div BlockPages] /\ n % BlockPages = p % BlockPages
                    /\ Cardinality(Before(good_blockmap, n \div BlockPages)) = p \div BlockPages
<1>1. /\ p \div BlockPages + 1 \in 1 .. Len(boot2_blocks)
      /\ t \in DOMAIN chip.pages /\ t % BlockPages = p % BlockPages
      /\ t \div BlockPages = boot2_blocks[p \div BlockPages + 1]
  BY CopyPage DEF Boot2Inv
<1>2. p \div BlockPages \in Nat
  BY PageDivision
<1> HIDE DEF t
<1>3. Is(t)
  <2>1. \A n \in 1 .. Len(boot2_blocks) :
          /\ good_blockmap.blocks[boot2_blocks[n]]
          /\ Cardinality(Before(good_blockmap, boot2_blocks[n])) = n - 1
    BY DEF Boot2Inv, ListInv
  <2> QED
    BY <1>1, <1>2, <2>1
<1>4. DOMAIN chip.pages = BlockPages .. (LastBlock + 1) * BlockPages - 1
  BY DEF Boot2Inv, Boot2Types
<1>5. ASSUME NEW n \in DOMAIN chip.pages PROVE n \in Nat /\ n \div BlockPages \in Blocks
  <2>1. n \in Nat /\ n >= BlockPages /\ n < (LastBlock + 1) * BlockPages
    <3>1. (LastBlock + 1) * BlockPages \in Nat
      OBVIOUS
    <3> QED
      BY <1>4, <3>1
  <2>2. /\ n \div BlockPages \in Nat /\ n % BlockPages \in 0 .. BlockPages - 1
        /\ n = (n \div BlockPages) * BlockPages + (n % BlockPages)
    BY <2>1, PageDivision
  <2>3. n \div BlockPages < LastBlock + 1
    BY <2>1, BlockOfPage
  <2>4. PICK q \in Nat : q = n \div BlockPages /\ q < LastBlock + 1
    BY <2>2, <2>3
  <2>5. n < q * BlockPages + BlockPages
    BY <2>1, <2>2, <2>4
  <2>6. q # 0
    BY <2>1, <2>5
  <2> QED
    BY <2>1, <2>4, <2>6 DEF Blocks
<1>6. ASSUME NEW n \in DOMAIN chip.pages, Is(n) PROVE n = t
  <2>1. n \div BlockPages = t \div BlockPages
    BY <1>1, <1>3, <1>5, <1>6, PlacesApart
  <2>2. n % BlockPages = t % BlockPages
    BY <1>3, <1>6
  <2>3. n \in Nat /\ t \in Nat
    BY <1>1, <1>5, <1>6
  <2>4. n = (n \div BlockPages) * BlockPages + (n % BlockPages) /\ t = (t \div BlockPages) * BlockPages + (t % BlockPages)
    BY <2>3, PageDivision
  <2> QED
    BY <2>1, <2>2, <2>4
<1>7. PageOf(good_blockmap, p) = CHOOSE n \in DOMAIN chip.pages : Is(n)
  BY DEF PageOf
<1> HIDE DEF Is
<1>8. (CHOOSE n \in DOMAIN chip.pages : Is(n)) = t
  BY <1>1, <1>3, <1>6
<1> QED
  BY <1>7, <1>8 DEF t

(* What was read of a copy tells sizes. *)
LEMMA PageSizes ==
    ASSUME Boot2Inv, Fetching, NEW p \in 0 .. CounterSize - 1, p < page_ptr
    PROVE  boot2[p].data \in Nat \ {0} /\ boot2[p].content \in Nat
<1>1. p \in Nat /\ p < Len(boot2_blocks) * BlockPages /\ boot2[p] = chip.pages[boot2_page_translate(p)]
  BY DEF Boot2Inv, ReadInv
<1>2. boot2_page_translate(p) \in DOMAIN chip.pages
  BY <1>1, CopyPage DEF Boot2Inv
<1>3. chip \in Chips
  BY DEF Boot2Inv, Boot2Types
<1> QED
  BY <1>1, <1>2, <1>3

(* A loop of read_to that came to its end has not passed the end of the counter. *)
LEMMA ArrivedCounted ==
    ASSUME Boot2Inv, Arrived
    PROVE  page_ptr = pages_read /\ target <= page_ptr /\ page_ptr < CounterSize
<1>1. Fetching /\ target <= pages_read /\ pages_read \in 0 .. CounterSize - 1 /\ page_ptr \in Nat /\ target \in Nat
  BY DEF Arrived, Fetching, Boot2Inv, Boot2Types
<1>2. /\ page_ptr < CounterSize => pages_read = page_ptr
      /\ page_ptr >= CounterSize => target >= CounterSize
  BY <1>1 DEF Boot2Inv, ReadInv
<1> QED
  BY <1>1, <1>2

-----------------------------------------------------------------------------
(* The steps that read. *)
LEMMA ReadPageKeeps == Boot2Inv /\ ReadPage => Boot2Inv'
<1> SUFFICES ASSUME Boot2Inv, ReadPage PROVE Boot2Inv'
  OBVIOUS
<1>1. PICK content : content = chip.pages[boot2_page_translate(pages_read)]
  OBVIOUS
<1>2. CASE ~content.good
  BY <1>1, <1>2, FailKeeps DEF ReadPage, Loading, loadVars
<1>3. CASE content.good
  <2>1. /\ boot2' = [boot2 EXCEPT ![page_ptr] = content]
        /\ page_ptr' = page_ptr + 1 /\ pages_read' = (pages_read + 1) % CounterSize
        /\ UNCHANGED <<chip, copy, phase, block, target, good_blockmap, boot2_blocks, boot2_initialized, image, reply, vector>>
        /\ Loading /\ target <= Len(boot2_blocks) * BlockPages /\ target > pages_read
    <3>1. ~(target > Len(boot2_blocks) * BlockPages)
      BY DEF ReadPage, TooFar
    <3>2. target \in Nat /\ Len(boot2_blocks) * BlockPages \in Nat
      <4>1. Len(boot2_blocks) \in Nat
        BY DEF Boot2Inv, Boot2Types
      <4> QED
        BY <4>1 DEF Boot2Inv, Boot2Types
    <3> QED
      BY <1>1, <1>3, <3>1, <3>2 DEF ReadPage
  <2>2. /\ page_ptr \in Nat /\ pages_read \in 0 .. CounterSize - 1 /\ target \in Nat
        /\ boot2 = [p \in 0 .. CounterSize - 1 |-> boot2[p]]
        /\ phase \in {"header", "data", "content"} /\ ~Listing /\ Fetching /\ ~boot2_initialized
        /\ reply = NoReply /\ vector = "none"
    BY <2>1 DEF Boot2Inv, Boot2Types, PhaseInv, RunInv, Listing, Fetching, Loading
  <2>3. ~Listing' /\ Fetching' /\ Loading'
    BY <2>1, <2>2 DEF Listing, Fetching, Loading
  <2>4. \A p \in 0 .. CounterSize - 1 : boot2'[p] = IF p = page_ptr THEN content ELSE boot2[p]
    BY <2>1, <2>2
  <2>5. Boot2Types'
    <3>1. boot2' = [p \in 0 .. CounterSize - 1 |-> boot2'[p]]
      BY <2>1, <2>2
    <3>2. pages_read' \in 0 .. CounterSize - 1 /\ page_ptr' \in Nat
      BY <2>1, <2>2
    <3> QED
      BY <2>1, <3>1, <3>2 DEF Boot2Inv, Boot2Types
  <2>6. MapInv'
    BY <2>1, <2>2, <2>3 DEF Boot2Inv, MapInv, BestOf, MapOf
  <2>7. ListInv'
    BY <2>1, <2>2, <2>3 DEF Boot2Inv, ListInv, Before
  <2>8. /\ page_ptr < CounterSize => pages_read = page_ptr
        /\ page_ptr >= CounterSize => target >= CounterSize
        /\ \A p \in 0 .. CounterSize - 1 : p < page_ptr =>
              /\ p < Len(boot2_blocks) * BlockPages
              /\ boot2[p] = chip.pages[boot2_page_translate(p)] /\ boot2[p].good
    BY <2>2 DEF Boot2Inv, ReadInv
  <2>9. ReadInv'
    <3>1. /\ page_ptr' < CounterSize => pages_read' = page_ptr'
          /\ page_ptr' >= CounterSize => target' >= CounterSize /\ ~boot2_initialized'
      <4>1. CASE page_ptr + 1 < CounterSize
        <5>1. pages_read = page_ptr
          BY <2>2, <2>8, <4>1
        <5>2. PICK c \in Nat : c = page_ptr + 1
          BY <2>2
        <5>3. c < CounterSize => c % CounterSize = c
          OBVIOUS
        <5> QED
          BY <2>1, <2>2, <4>1, <5>1, <5>2, <5>3
      <4>2. CASE page_ptr + 1 >= CounterSize
        <5>1. target >= CounterSize
          BY <2>1, <2>2, <2>8, <4>2
        <5> QED
          BY <2>1, <2>2, <4>2, <5>1
      <4> QED
        BY <2>2, <4>1, <4>2
    <3>2. ASSUME NEW p \in 0 .. CounterSize - 1, p < page_ptr'
          PROVE  /\ p < Len(boot2_blocks) * BlockPages
                 /\ boot2'[p] = chip.pages[boot2_page_translate(p)] /\ boot2'[p].good
      <4>1. CASE p < page_ptr
        BY <2>2, <2>4, <2>8, <4>1
      <4>2. CASE p = page_ptr
        <5>1. p = pages_read /\ boot2'[p] = content
          BY <2>2, <2>4, <2>8, <4>2
        <5>2. p < Len(boot2_blocks) * BlockPages
          <6>1. Len(boot2_blocks) * BlockPages \in Nat
            <7>1. Len(boot2_blocks) \in Nat
              BY DEF Boot2Inv, Boot2Types
            <7> QED
              BY <7>1
          <6> QED
            BY <2>1, <2>2, <5>1, <6>1
        <5> QED
          BY <1>1, <1>3, <5>1, <5>2
      <4> QED
        BY <2>1, <2>2, <3>2, <4>1, <4>2
    <3>3. \A p : boot2_page_translate(p)' = boot2_page_translate(p)
      BY <2>1 DEF boot2_page_translate
    <3> QED
      BY <2>1, <2>2, <3>1, <3>2, <3>3 DEF ReadInv
  <2>10. PhaseInv'
    <3>1. 0 \in 0 .. CounterSize - 1
      OBVIOUS
    <3>2. phase \in {"data", "content"} => page_ptr > 0 /\ boot2'[0] = boot2[0]
      BY <2>2, <2>4, <3>1 DEF Boot2Inv, PhaseInv
    <3>3. phase = "content" => PageSize' = PageSize
      <4> SUFFICES ASSUME phase = "content" PROVE PageSize' = PageSize
        OBVIOUS
      <4>1. PICK d : d = boot2[0].data - 1
        OBVIOUS
      <4>2. boot2[0].data \in Nat \ {0} /\ boot2[0].data <= page_ptr
        <5>1. page_ptr >= boot2[0].data /\ page_ptr > 0
          BY DEF Boot2Inv, PhaseInv
        <5>2. boot2[0].data \in Nat \ {0}
          BY <2>2, <3>1, <5>1, PageSizes
        <5> QED
          BY <2>2, <5>1, <5>2
      <4>3. d \in Nat /\ d # page_ptr
        BY <2>2, <4>1, <4>2
      <4>4. boot2'[d] = boot2[d]
        <5>1. CASE d \in 0 .. CounterSize - 1
          BY <2>4, <4>3, <5>1
        <5>2. CASE d \notin 0 .. CounterSize - 1
          <6>1. d > page_ptr \/ page_ptr >= CounterSize
            BY <2>2, <4>1, <4>2, <4>3, <5>2
          <6>2. ~(d > page_ptr)
            BY <2>2, <4>1, <4>2
          <6>3. \A p \in 0 .. CounterSize - 1 : boot2'[p] = boot2[p]
            BY <2>2, <2>4, <6>1, <6>2
          <6>4. boot2' = [p \in 0 .. CounterSize - 1 |-> boot2'[p]]
            BY <2>1, <2>2
          <6>5. boot2' = boot2
            BY <2>2, <6>3, <6>4
          <6> QED
            BY <6>5
        <5> QED
          BY <5>1, <5>2
      <4> QED
        BY <3>2, <4>1, <4>4 DEF PageSize
    <3>4. phase = "content" => page_ptr >= boot2[0].data /\ boot2[0].data \in Nat
      BY <2>2, <3>1, PageSizes DEF Boot2Inv, PhaseInv
    <3>5. /\ phase = "header" => target = 1
          /\ phase = "data" => target = boot2[0].data
          /\ phase = "content" => target = PageSize
      BY DEF Boot2Inv, PhaseInv
    <3>6. page_ptr' > 0 /\ (phase = "content" => page_ptr' >= boot2[0].data)
      BY <2>1, <2>2, <3>4
    <3> QED
      BY <2>1, <2>2, <3>2, <3>3, <3>5, <3>6 DEF PhaseInv
  <2>11. RunInv'
    BY <2>1, <2>2 DEF RunInv
  <2> QED
    BY <2>5, <2>6, <2>7, <2>9, <2>10, <2>11 DEF Boot2Inv
<1> QED
  BY <1>2, <1>3

LEMMA PastEndKeeps == Boot2Inv /\ PastEnd => Boot2Inv'
BY FailKeeps DEF PastEnd, Loading, loadVars

(* A step that goes on with a further target changes nothing else. *)
LEMMA GoOnKeeps ==
    ASSUME Boot2Inv, Arrived, NEW next \in {"data", "content"}, NEW upTo \in Nat, GoOn(next, upTo), page_ptr > 0,
           next = "data" => upTo = boot2[0].data,
           next = "content" => upTo = PageSize /\ page_ptr >= boot2[0].data
    PROVE  Boot2Inv'
<1>1. /\ UNCHANGED <<chip, copy, block, good_blockmap, boot2_blocks, pages_read, boot2, page_ptr, boot2_initialized, image, reply, vector>>
      /\ phase' = next /\ target' = upTo
      /\ phase \in {"header", "data", "content"} /\ ~Listing /\ Fetching /\ ~boot2_initialized
      /\ reply = NoReply /\ vector = "none"
  BY DEF GoOn, Arrived, Boot2Inv, PhaseInv, RunInv, Listing, Fetching, Loading
<1>2. ~Listing' /\ Fetching'
  BY <1>1 DEF Listing, Fetching, Loading
<1>3. page_ptr = pages_read /\ page_ptr < CounterSize /\ page_ptr \in Nat
  BY ArrivedCounted DEF Boot2Inv, Boot2Types
<1>4. Boot2Types'
  BY <1>1 DEF Boot2Inv, Boot2Types
<1>5. MapInv'
  BY <1>1, <1>2 DEF Boot2Inv, MapInv, BestOf, MapOf
<1>6. ListInv'
  BY <1>1, <1>2 DEF Boot2Inv, ListInv, Before
<1>7. ReadInv'
  <2>1. /\ page_ptr < CounterSize => pages_read = page_ptr
        /\ page_ptr >= CounterSize => FALSE
    BY <1>3
  <2>2. \A p \in 0 .. CounterSize - 1 : p < page_ptr =>
           /\ p < Len(boot2_blocks) * BlockPages
           /\ boot2[p] = chip.pages[boot2_page_translate(p)] /\ boot2[p].good
    BY <1>1 DEF Boot2Inv, ReadInv
  <2>3. \A p : boot2_page_translate(p)' = boot2_page_translate(p)
    BY <1>1 DEF boot2_page_translate
  <2> QED
    BY <1>1, <2>1, <2>2, <2>3 DEF ReadInv
<1>8. PhaseInv'
  BY <1>1 DEF PhaseInv, PageSize
<1>9. RunInv'
  BY <1>1 DEF RunInv
<1> QED
  BY <1>4, <1>5, <1>6, <1>7, <1>8, <1>9 DEF Boot2Inv

LEMMA HeaderReadKeeps == Boot2Inv /\ HeaderRead => Boot2Inv'
<1> SUFFICES ASSUME Boot2Inv, HeaderRead PROVE Boot2Inv'
  OBVIOUS
<1>1. Arrived /\ phase = "header" /\ Fetching
  BY DEF HeaderRead, Arrived, Fetching
<1>2. CASE ~boot2[0].header
  BY <1>1, <1>2, FailKeeps DEF HeaderRead, loadVars
<1>3. CASE boot2[0].header
  <2>1. target = 1 /\ page_ptr \in Nat
    BY <1>1 DEF Boot2Inv, Boot2Types, PhaseInv
  <2>2. page_ptr > 0 /\ 0 \in 0 .. CounterSize - 1
    BY <1>1, <2>1, ArrivedCounted
  <2>3. boot2[0].data \in Nat
    BY <1>1, <2>2, PageSizes
  <2>4. GoOn("data", boot2[0].data)
    BY <1>3 DEF HeaderRead
  <2> QED
    BY <1>1, <2>2, <2>3, <2>4, GoOnKeeps
<1> QED
  BY <1>2, <1>3

(* The sizes of a copy whose page of the tmd was read. *)
LEMMA SizeOfCopy ==
    ASSUME Boot2Inv, Fetching, page_ptr > 0, page_ptr < CounterSize, page_ptr >= boot2[0].data
    PROVE  PageSize \in Nat
<1>1. page_ptr \in Nat /\ 0 \in 0 .. CounterSize - 1
  BY DEF Boot2Inv, Boot2Types
<1>2. boot2[0].data \in Nat \ {0}
  BY <1>1, PageSizes
<1>3. PICK d : d = boot2[0].data - 1
  OBVIOUS
<1>4. d \in 0 .. CounterSize - 1 /\ d < page_ptr
  BY <1>1, <1>2, <1>3
<1>5. boot2[d].content \in Nat
  BY <1>4, PageSizes
<1> QED
  BY <1>2, <1>3, <1>5 DEF PageSize

LEMMA DataReadKeeps == Boot2Inv /\ DataRead => Boot2Inv'
<1> SUFFICES ASSUME Boot2Inv, DataRead PROVE Boot2Inv'
  OBVIOUS
<1>1. Arrived /\ phase = "data" /\ Fetching /\ GoOn("content", PageSize)
  BY DEF DataRead, Arrived, Fetching, PageSize
<1>2. page_ptr > 0 /\ target = boot2[0].data
  BY <1>1 DEF Boot2Inv, PhaseInv
<1>3. page_ptr < CounterSize /\ target <= page_ptr /\ target \in Nat /\ page_ptr \in Nat
  BY <1>1, ArrivedCounted DEF Boot2Inv, Boot2Types
<1>4. page_ptr >= boot2[0].data
  BY <1>2, <1>3
<1>5. PageSize \in Nat
  BY <1>1, <1>2, <1>3, <1>4, SizeOfCopy
<1> QED
  BY <1>1, <1>2, <1>4, <1>5, GoOnKeeps

LEMMA ContentReadKeeps == Boot2Inv /\ ContentRead => Boot2Inv'
<1> SUFFICES ASSUME Boot2Inv, ContentRead PROVE Boot2Inv'
  OBVIOUS
<1>1. /\ UNCHANGED <<chip, copy, image, reply, vector, block, target, good_blockmap, boot2_blocks, pages_read, boot2, page_ptr>>
      /\ Arrived /\ phase = "content" /\ phase' = "idle" /\ boot2_initialized' = TRUE
      /\ Fetching /\ ~Listing /\ reply = NoReply /\ vector = "none"
  BY DEF ContentRead, loadVars, Arrived, Boot2Inv, RunInv, Listing, Fetching
<1>2. ~Listing' /\ Fetching'
  BY <1>1 DEF Listing, Fetching, Loading
<1>3. page_ptr = pages_read /\ target <= page_ptr /\ page_ptr < CounterSize /\ page_ptr \in Nat
  BY <1>1, ArrivedCounted DEF Boot2Inv, Boot2Types
<1>4. Boot2Types'
  BY <1>1 DEF Boot2Inv, Boot2Types
<1>5. MapInv'
  BY <1>1, <1>2 DEF Boot2Inv, MapInv, BestOf, MapOf
<1>6. ListInv'
  BY <1>1, <1>2 DEF Boot2Inv, ListInv, Before
<1>7. ReadInv'
  BY <1>1, <1>3 DEF Boot2Inv, ReadInv, boot2_page_translate
<1>8. PhaseInv'
  <2>1. page_ptr > 0 /\ page_ptr >= boot2[0].data /\ target = PageSize
    BY <1>1 DEF Boot2Inv, PhaseInv
  <2> QED
    BY <1>1, <1>3, <2>1 DEF PhaseInv, PageSize
<1>9. RunInv'
  BY <1>1 DEF RunInv
<1> QED
  BY <1>4, <1>5, <1>6, <1>7, <1>8, <1>9 DEF Boot2Inv

(* What is done when the load is over leaves the load alone. *)
LEMMA RestKeeps ==
    ASSUME Boot2Inv, UNCHANGED <<chip, copy, phase, boot2_initialized, loadVars>>, RunInv'
    PROVE  Boot2Inv'
<1>1. UNCHANGED <<chip, copy, phase, boot2_initialized, block, target, good_blockmap, boot2_blocks, pages_read, boot2, page_ptr>>
  BY DEF loadVars
<1>2. Boot2Types' /\ (Listing' <=> Listing) /\ (Fetching' <=> Fetching)
  BY <1>1 DEF Boot2Inv, Boot2Types, Listing, Fetching, Loading
<1>3. MapInv'
  BY <1>1, <1>2 DEF Boot2Inv, MapInv, BestOf, MapOf
<1>4. ListInv'
  BY <1>1, <1>2 DEF Boot2Inv, ListInv, Before
<1>5. ReadInv'
  <2>1. \A p : boot2_page_translate(p)' = boot2_page_translate(p)
    BY <1>1 DEF boot2_page_translate
  <2>2. \A p \in 0 .. CounterSize - 1 : p < page_ptr => chip'.pages[boot2_page_translate(p)'] = chip.pages[boot2_page_translate(p)]
    BY <1>1, <2>1
  <2>3. ReadInv
    BY DEF Boot2Inv
  <2> QED
    BY <1>1, <1>2, <2>2, <2>3 DEF ReadInv
<1>6. PhaseInv'
  BY <1>1 DEF Boot2Inv, PhaseInv, PageSize
<1> QED
  BY <1>2, <1>3, <1>4, <1>5, <1>6 DEF Boot2Inv

LEMMA RunKeeps == ASSUME NEW title PROVE Boot2Inv /\ boot2_ipc(title) => Boot2Inv'
<1> SUFFICES ASSUME Boot2Inv, boot2_ipc(title) PROVE Boot2Inv'
  OBVIOUS
<1>1. UNCHANGED <<chip, copy, phase, boot2_initialized, loadVars>> /\ phase = "idle" /\ vector = "none"
  BY DEF boot2_ipc
<1>2. CASE boot2_initialized
  <2>1. reply' = copy /\ boot2_run(title)
    BY <1>2 DEF boot2_ipc
  <2> DEFINE menus == boot2[boot2[0].data - 1].menus
  <2>2. image' = [title |-> title, count |-> menus]
        /\ vector' = IF title = Menu \/ image'.count = 1 THEN "boot2" ELSE "panic"
    BY <2>1 DEF boot2_run
  <2> HIDE DEF menus
  <2>3. image'.title = title
    BY <2>2
  <2>4. vector' = "boot2" => (image'.title # Menu => image'.count = 1)
    BY <2>2, <2>3
  <2> QED
    BY <1>1, <1>2, <2>1, <2>4, RestKeeps DEF RunInv
<1>3. CASE ~boot2_initialized
  <2>1. vector' = "none"
    BY <1>1, <1>3 DEF boot2_ipc
  <2> QED
    BY <1>1, <1>3, <2>1, RestKeeps DEF RunInv
<1> QED
  BY <1>2, <1>3

LEMMA BootMenuKeeps == Boot2Inv /\ BootMenu => Boot2Inv'
<1> SUFFICES ASSUME Boot2Inv, BootMenu PROVE Boot2Inv'
  OBVIOUS
<1>1. UNCHANGED <<chip, copy, phase, boot2_initialized, reply, loadVars>> /\ phase = "idle" /\ reply = NoReply
  BY DEF BootMenu
<1>2. CASE boot2_initialized
  <2> DEFINE menus == boot2[boot2[0].data - 1].menus
  <2>1. image' = [title |-> Menu, count |-> menus]
    BY <1>2 DEF BootMenu, boot2_run
  <2> HIDE DEF menus
  <2>2. image'.title = Menu
    BY <2>1
  <2> QED
    BY <1>1, <1>2, <2>2, RestKeeps DEF RunInv
<1>3. CASE ~boot2_initialized
  <2>1. vector' = "stray"
    BY <1>3 DEF BootMenu
  <2> QED
    BY <1>1, <1>3, <2>1, RestKeeps DEF RunInv
<1> QED
  BY <1>2, <1>3

LEMMA Boot2Step == Boot2Inv /\ [Boot2Next]_boot2Vars => Boot2Inv'
<1> SUFFICES ASSUME Boot2Inv, [Boot2Next]_boot2Vars PROVE Boot2Inv'
  OBVIOUS
<1>1. CASE UNCHANGED boot2Vars
  <2>1. UNCHANGED <<chip, copy, phase, boot2_initialized, loadVars>> /\ UNCHANGED <<image, reply, vector>>
    BY <1>1 DEF boot2Vars, loadVars
  <2>2. RunInv'
    BY <2>1 DEF Boot2Inv, RunInv
  <2> QED
    BY <2>1, <2>2, RestKeeps
<1>2. CASE Boot2Next
  BY <1>2, LoadKeeps, ReadMapsKeeps, MapsReadKeeps, ListBlockKeeps, ListedKeeps, ReadPageKeeps, PastEndKeeps,
     HeaderReadKeeps, DataReadKeeps, ContentReadKeeps, RunKeeps, BootMenuKeeps DEF Boot2Next
<1> QED
  BY <1>1, <1>2

-----------------------------------------------------------------------------
(* A loaded boot2 is the first PageSize pages of the copy of a newest map. *)
LEMMA WholeFromInv == Boot2Inv => BootsWhole
<1> SUFFICES ASSUME Boot2Inv PROVE BootsWhole
  OBVIOUS
<1>1. ASSUME boot2_initialized
      PROVE  \E map \in NewestMaps : \A page \in 0 .. PageSize - 1 :
                boot2[page] = chip.pages[PageOf(map, page)] /\ boot2[page].good
  <2>1. Fetching
    BY <1>1 DEF Fetching
  <2>2. good_blockmap \in NewestMaps
    BY <2>1, BestIsNewest DEF Boot2Inv, MapInv
  <2>3. page_ptr \in Nat /\ target \in Nat /\ page_ptr < CounterSize /\ target <= page_ptr /\ target = PageSize
    <3>1. page_ptr \in Nat /\ target \in Nat
      BY DEF Boot2Inv, Boot2Types
    <3>2. target <= page_ptr /\ target = PageSize
      BY <1>1 DEF Boot2Inv, PhaseInv
    <3>3. ~(page_ptr >= CounterSize)
      BY <1>1, <2>1 DEF Boot2Inv, ReadInv
    <3> QED
      BY <3>1, <3>2, <3>3
  <2>4. ASSUME NEW page \in 0 .. PageSize - 1
        PROVE  boot2[page] = chip.pages[PageOf(good_blockmap, page)] /\ boot2[page].good
    <3>1. page \in Nat /\ page \in 0 .. CounterSize - 1 /\ page < page_ptr
      BY <2>3
    <3>2. /\ page < Len(boot2_blocks) * BlockPages
          /\ boot2[page] = chip.pages[boot2_page_translate(page)] /\ boot2[page].good
      BY <2>1, <3>1 DEF Boot2Inv, ReadInv
    <3>3. PageOf(good_blockmap, page) = boot2_page_translate(page)
      BY <2>1, <3>1, <3>2, PageOfCopy
    <3> QED
      BY <3>2, <3>3
  <2> QED
    BY <2>2, <2>4
<1>2. vector = "boot2" => boot2_initialized /\ reply \in {NoReply, copy} /\ (image.title # Menu => image.count = 1)
  BY DEF Boot2Inv, RunInv
<1> QED
  BY <1>1, <1>2 DEF BootsWhole, PageSize

(***************************************************************************)
(* boot2_load, boot2_run: whatever the chip holds, a boot2 that is loaded  *)
(* is one whole copy by a newest map two of three copies agree on, and one *)
(* that runs was loaded and starts the title that was asked for.           *)
(***************************************************************************)
THEOREM BootsWholeAlways == Boot2Spec => []BootsWhole
<1>1. Boot2Init => Boot2Inv
  BY Boot2InitOk
<1>2. Boot2Inv /\ [Boot2Next]_boot2Vars => Boot2Inv'
  BY Boot2Step
<1>3. Boot2Inv => BootsWhole
  BY WholeFromInv
<1> QED
  BY <1>1, <1>2, <1>3, PTL DEF Boot2Spec

HIDE Boot2Assumption

-----------------------------------------------------------------------------
(* SHA-1.  The cells that are handed over in one hashing: the message, a   *)
(* one, zeros up to the place of the length, the length.                   *)
Bytes == Len(message)
Hi == (Bytes * CellBits) \div WordSize
Lo == (Bytes * CellBits) % WordSize
LengthAt == Bytes + 1 + Zeros(Bytes)
Cell(k) ==
    IF k <= Bytes THEN message[k]
    ELSE IF k = Bytes + 1 THEN "1"
    ELSE IF k <= LengthAt THEN "0"
    ELSE IF k = LengthAt + 1 THEN Hi
    ELSE Lo
BlockAt(b) == [k \in 1 .. BlockCells |-> Cell((b - 1) * BlockCells + k)]
HasBlock(cells, from, b) == \A i \in 1 .. BlockCells : cells[from + i] = BlockAt(b)[i]
FirstBlocks(n) == [b \in 1 .. n |-> BlockAt(b)]
(* The first n blocks of the cells are those that come after L blocks. *)
AreNext(cells, L, n) ==
    \A b \in 1 .. n : SubSeq(cells, (b - 1) * BlockCells + 1, b * BlockCells) = BlockAt(L + b)

Alphabet == {<<"m", k>> : k \in Nat} \cup {"0", "1"} \cup Int
DataFrom(p, len) == \A k \in 1 .. len : data[k] = Cell(p + k)
RestFrom(p, u, len) ==
    /\ DOMAIN SubSeq(data, u + 1, len) = 1 .. len - u
    /\ \A k \in 1 .. len - u : SubSeq(data, u + 1, len)[k] = Cell(p + u + k)

MessageInv == message \in Seq(Alphabet) /\ Bytes <= MaxMessage

(* Which cells data is, when p were handed over by the calls before. *)
StageInv(p) ==
    /\ stage \in {"message", "one", "zeros", "length"}
    /\ stage = "message" => p = 0 /\ data = message
    /\ stage = "one" => p = Bytes /\ data = <<"1">>
    /\ stage = "zeros" => p > Bytes /\ p < LengthAt /\ data = <<"0">>
    /\ stage = "length" => p = LengthAt /\ data = finalcount
    /\ stage # "message" => finalcount = <<Hi, Lo>>

(* Where they are: full blocks went to the hardware, the rest is in the    *)
(* buffer; during a call, in its data.                                     *)
Compressed == Len(context.state) * BlockCells
Buffered(r) == \A k \in 1 .. r : context.buffer[k] = Cell(Compressed + k)
PlaceInv(p) ==
    /\ used \in Int /\ used >= -1
    /\ context = [state |-> context.state, count |-> context.count, buffer |-> context.buffer]
    /\ context.state = FirstBlocks(Len(context.state)) /\ Len(context.state) \in Nat
    /\ used = -1 => p - Compressed \in 0 .. BlockCells - 1 /\ Buffered(p - Compressed)
    /\ used = 0 => /\ p - Compressed \in Nat /\ p + Len(data) - Compressed < BlockCells
                   /\ Buffered(p - Compressed)
    /\ used > 0 => p + used = Compressed /\ used <= Len(data)

(* What the two words count: bits, and the message's for the length. *)
CountedTo(p) == IF used = -1 THEN p ELSE p + Len(data)
CountInv(p) ==
    /\ context.count[1] = (CountedTo(p) * CellBits) % WordSize
    /\ stage = "message" => context.count[2] = IF used = -1 THEN 0 ELSE Hi

HashingInv(p) == StageInv(p) /\ PlaceInv(p) /\ CountInv(p)
Sha1Inv ==
    /\ MessageInv
    /\ IF stage = "done" THEN used = -1 /\ digest = Message(message) ELSE \E p \in Nat : HashingInv(p)
-----------------------------------------------------------------------------
(* Cells, blocks and words. *)
LEMMA Division ==
    ASSUME NEW n \in Nat, NEW v \in Nat \ {0}
    PROVE  n \div v \in Nat /\ n % v \in 0 .. v - 1 /\ n = (n \div v) * v + (n % v)
OBVIOUS

USE Sha1Assumption

LEMMA CellsApart ==
    ASSUME NEW a \in Nat, NEW b \in Nat, a < b PROVE a * BlockCells + BlockCells <= b * BlockCells
<1>1. a + 1 <= b
  OBVIOUS
<1>2. (a + 1) * BlockCells <= b * BlockCells
  BY <1>1
<1>3. (a + 1) * BlockCells = a * BlockCells + BlockCells
  OBVIOUS
<1> QED
  BY <1>2, <1>3

LEMMA CellOfBlock ==
    ASSUME NEW b \in Nat, NEW r \in 0 .. BlockCells - 1
    PROVE  (b * BlockCells + r) % BlockCells = r /\ (b * BlockCells + r) \div BlockCells = b
<1> DEFINE n == b * BlockCells + r
           q == n \div BlockCells
           s == n % BlockCells
<1>1. n \in Nat
  OBVIOUS
<1>2. q \in Nat /\ s \in 0 .. BlockCells - 1 /\ n = q * BlockCells + s
  BY <1>1
<1> HIDE DEF q, s
<1>3. ~(q < b)
  <2> SUFFICES ASSUME q < b PROVE FALSE
    OBVIOUS
  <2>1. q * BlockCells + BlockCells <= b * BlockCells
    BY <1>2, CellsApart
  <2>2. q * BlockCells \in Nat /\ b * BlockCells \in Nat
    BY <1>2
  <2> QED
    BY <1>2, <2>1, <2>2
<1>4. ~(b < q)
  <2> SUFFICES ASSUME b < q PROVE FALSE
    OBVIOUS
  <2>1. b * BlockCells + BlockCells <= q * BlockCells
    BY <1>2, CellsApart
  <2>2. b * BlockCells \in Nat /\ q * BlockCells \in Nat
    BY <1>2
  <2> QED
    BY <1>2, <2>1, <2>2
<1>5. q = b
  BY <1>2, <1>3, <1>4
<1>6. s = r
  BY <1>2, <1>5
<1> QED
  BY <1>5, <1>6 DEF q, s

(* The same for the bits of a word, which are whole cells and blocks. *)
LEMMA WordUnique ==
    ASSUME NEW q \in Nat, NEW b \in Nat, NEW s \in 0 .. WordSize - 1, NEW r \in 0 .. WordSize - 1,
           q * WordSize + s = b * WordSize + r
    PROVE  q = b /\ s = r
<1>1. ASSUME NEW c \in Nat, NEW d \in Nat, NEW t \in 0 .. WordSize - 1, NEW u \in 0 .. WordSize - 1,
             c * WordSize + t = d * WordSize + u, c < d
      PROVE  FALSE
  <2>1. PICK e \in Nat : d = c + 1 + e
    <3>1. d - c - 1 \in Nat
      BY <1>1
    <3> QED
      BY <3>1
  <2>2. d * WordSize = c * WordSize + WordSize + e * WordSize
    BY <2>1
  <2>3. e * WordSize \in Nat /\ c * WordSize \in Nat
    OBVIOUS
  <2> QED
    BY <1>1, <2>2, <2>3
<1>2. q = b
  BY <1>1
<1> QED
  BY <1>2

LEMMA WordDivision ==
    ASSUME NEW q \in Nat, NEW s \in 0 .. WordSize - 1
    PROVE  (q * WordSize + s) \div WordSize = q /\ (q * WordSize + s) % WordSize = s
<1> DEFINE n == q * WordSize + s
<1>1. n \in Nat
  OBVIOUS
<1>2. n \div WordSize \in Nat /\ n % WordSize \in 0 .. WordSize - 1 /\ n = (n \div WordSize) * WordSize + (n % WordSize)
  BY <1>1, Division
<1> QED
  BY <1>2, WordUnique

LEMMA WordCells ==
    \E w \in Nat : WordSize = CellBits * (w * BlockCells) /\ w * BlockCells \in Nat \ {0}
<1>1. PICK w \in Nat : WordSize = w * (CellBits * BlockCells)
  <2>1. PICK v \in Nat \ {0} : v = CellBits * BlockCells
    BY DEF CellBits, LengthCells
  <2>2. WordSize \div v \in Nat /\ WordSize = (WordSize \div v) * v + (WordSize % v)
    BY Division
  <2>3. WordSize % v = 0
    BY <2>1
  <2> QED
    BY <2>1, <2>2, <2>3
<1>2. w * (CellBits * BlockCells) = CellBits * (w * BlockCells)
  BY DEF CellBits
<1>3. w * BlockCells \in Nat
  OBVIOUS
<1>4. w * BlockCells # 0
  BY <1>1, <1>2 DEF CellBits
<1> QED
  BY <1>1, <1>2, <1>3, <1>4

(* The place in the buffer follows from the count of bits, whatever was    *)
(* carried out of it.                                                      *)
LEMMA Gathers ==
    ASSUME NEW count, NEW b \in Nat, NEW r \in 0 .. BlockCells - 1,
           count[1] = ((b * BlockCells + r) * CellBits) % WordSize
    PROVE  Gathered(count) = r
<1>1. PICK w \in Nat : WordSize = CellBits * (w * BlockCells) /\ w * BlockCells \in Nat \ {0}
  BY WordCells
<1>2. PICK n \in Nat : n = b * BlockCells + r
  OBVIOUS
<1>3. PICK v \in Nat \ {0} : v = w * BlockCells
  BY <1>1
<1>4. PICK d \in Nat, t \in 0 .. v - 1 : n = d * v + t
  <2>1. n \div v \in Nat /\ n % v \in 0 .. v - 1 /\ n = (n \div v) * v + (n % v)
    BY Division
  <2> QED
    BY <2>1
<1>5. n * CellBits = d * WordSize + t * CellBits
  <2>1. d * WordSize = (d * v) * CellBits
    BY <1>1, <1>3 DEF CellBits
  <2> QED
    BY <1>4, <2>1 DEF CellBits
<1>6. t * CellBits \in 0 .. WordSize - 1
  BY <1>1, <1>3 DEF CellBits
<1>7. (n * CellBits) % WordSize = t * CellBits
  <2>1. PICK m \in Nat, u \in 0 .. WordSize - 1 : m = n * CellBits /\ u = t * CellBits
    BY <1>6 DEF CellBits
  <2>2. m = d * WordSize + u
    BY <1>5, <2>1
  <2>3. m % WordSize = u
    BY <2>2, WordDivision
  <2> QED
    BY <2>1, <2>3
<1>8. count[1] \div CellBits = t
  BY <1>2, <1>7 DEF CellBits
<1>9. t = (b - d * w) * BlockCells + r
  <2>1. d * v = (d * w) * BlockCells
    BY <1>3
  <2>2. (b - d * w) * BlockCells = b * BlockCells - (d * w) * BlockCells
    OBVIOUS
  <2> QED
    BY <1>2, <1>4, <2>1, <2>2
<1>10. b - d * w \in Nat
  <2>1. PICK e \in Int : e = b - d * w
    OBVIOUS
  <2>2. t = e * BlockCells + r /\ t >= 0
    BY <1>9, <2>1
  <2>3. ~(e < 0)
    <3> SUFFICES ASSUME e < 0 PROVE FALSE
      OBVIOUS
    <3>1. e * BlockCells <= (-1) * BlockCells
      <4>1. PICK f \in Nat : e = -1 - f
        <5>1. -1 - e \in Nat
          OBVIOUS
        <5> QED
          BY <5>1
      <4>2. e * BlockCells = (-1) * BlockCells - f * BlockCells /\ f * BlockCells \in Nat
        BY <4>1
      <4> QED
        BY <4>2
    <3> QED
      BY <2>2, <3>1
  <2> QED
    BY <2>1, <2>3
<1>11. t % BlockCells = r
  BY <1>9, <1>10, CellOfBlock
<1> QED
  BY <1>8, <1>11 DEF Gathered

(* The length of the message fits into two words: nothing is carried.      *)
LEMMA LengthFits ==
    ASSUME NEW n \in Nat, n <= MaxMessage
    PROVE  /\ (n * CellBits) \div WordSize \in 0 .. WordSize - 1
           /\ n \div (WordSize \div CellBits) = (n * CellBits) \div WordSize
<1>1. PICK v \in Nat \ {0} : WordSize = CellBits * v
  BY WordCells
<1>2. PICK d \in Nat, t \in 0 .. v - 1 : n = d * v + t /\ d = n \div v
  <2>1. n \div v \in Nat /\ n % v \in 0 .. v - 1 /\ n = (n \div v) * v + (n % v)
    BY Division
  <2> QED
    BY <2>1
<1>3. n * CellBits = d * WordSize + t * CellBits
  <2>1. d * WordSize = (d * v) * CellBits
    BY <1>1 DEF CellBits
  <2> QED
    BY <1>2, <2>1 DEF CellBits
<1>4. t * CellBits \in 0 .. WordSize - 1
  BY <1>1 DEF CellBits
<1>5. (n * CellBits) \div WordSize = d
  BY <1>3, <1>4, WordDivision
<1>6. WordSize \div CellBits = v
  BY <1>1 DEF CellBits
<1>7. d < WordSize
  <2> SUFFICES ASSUME d >= WordSize PROVE FALSE
    BY <1>2
  <2>1. d * WordSize >= WordSize * WordSize
    <3>1. PICK e \in Nat : d = WordSize + e
      <4>1. d - WordSize \in Nat
        OBVIOUS
      <4> QED
        BY <4>1
    <3>2. d * WordSize = WordSize * WordSize + e * WordSize /\ e * WordSize \in Nat
      BY <3>1
    <3> QED
      BY <3>2
  <2>2. n * CellBits >= d * WordSize
    BY <1>3, <1>4
  <2>3. n * CellBits <= MaxMessage * CellBits
    BY DEF CellBits
  <2>4. PICK a \in Nat, c \in Nat, e \in Nat : a = d * WordSize /\ c = WordSize * WordSize /\ e = MaxMessage * CellBits
    BY DEF CellBits
  <2>5. PICK f \in Nat : f = n * CellBits
    BY DEF CellBits
  <2> QED
    BY <2>1, <2>2, <2>3, <2>4, <2>5
<1> QED
  BY <1>2, <1>5, <1>6, <1>7

(* A count goes on with the bits of the data. *)
LEMMA CountsOn ==
    ASSUME NEW count, NEW p \in Nat, NEW len \in Nat, count[1] = (p * CellBits) % WordSize
    PROVE  Counted(count, len)[1] = ((p + len) * CellBits) % WordSize
<1>1. PICK a \in Nat, r \in 0 .. WordSize - 1 : p * CellBits = a * WordSize + r /\ r = count[1]
  <2>1. p * CellBits \in Nat
    BY DEF CellBits
  <2>2. PICK m \in Nat : m = p * CellBits
    BY <2>1
  <2>3. m \div WordSize \in Nat /\ m % WordSize \in 0 .. WordSize - 1 /\ m = (m \div WordSize) * WordSize + (m % WordSize)
    BY Division
  <2> QED
    BY <2>2, <2>3
<1>2. PICK b \in Nat, s \in 0 .. WordSize - 1 : len * CellBits = b * WordSize + s /\ s = (len * CellBits) % WordSize
  <2>1. len * CellBits \in Nat
    BY DEF CellBits
  <2>2. PICK m \in Nat : m = len * CellBits
    BY <2>1
  <2>3. m \div WordSize \in Nat /\ m % WordSize \in 0 .. WordSize - 1 /\ m = (m \div WordSize) * WordSize + (m % WordSize)
    BY Division
  <2> QED
    BY <2>2, <2>3
<1>3. PICK c \in Nat, t \in 0 .. WordSize - 1 : r + s = c * WordSize + t /\ t = (r + s) % WordSize
  <2>1. PICK m \in Nat : m = r + s
    OBVIOUS
  <2>2. m \div WordSize \in Nat /\ m % WordSize \in 0 .. WordSize - 1 /\ m = (m \div WordSize) * WordSize + (m % WordSize)
    BY Division
  <2> QED
    BY <2>1, <2>2
<1>4. (p + len) * CellBits = (a + b + c) * WordSize + t
  <2>1. (p + len) * CellBits = p * CellBits + len * CellBits
    BY DEF CellBits
  <2>2. (a + b + c) * WordSize = a * WordSize + b * WordSize + c * WordSize
    OBVIOUS
  <2> QED
    BY <1>1, <1>2, <1>3, <2>1, <2>2
<1>5. ((p + len) * CellBits) % WordSize = t
  <2>1. PICK m \in Nat, x \in Nat : m = (p + len) * CellBits /\ x = a + b + c
    BY DEF CellBits
  <2>2. m = x * WordSize + t
    BY <1>4, <2>1
  <2>3. m % WordSize = t
    BY <2>2, WordDivision
  <2> QED
    BY <2>1, <2>3
<1>6. Counted(count, len)[1] = (count[1] + ((len * CellBits) % WordSize)) % WordSize
  BY DEF Counted
<1> QED
  BY <1>1, <1>2, <1>3, <1>5, <1>6

(* The first call counts the whole message. *)
LEMMA CountsMessage ==
    ASSUME NEW n \in Nat, n <= MaxMessage
    PROVE  Counted(<<0, 0>>, n)[2] = (n * CellBits) \div WordSize
<1>1. PICK bits \in 0 .. WordSize - 1 : bits = (n * CellBits) % WordSize
  <2>1. PICK m \in Nat : m = n * CellBits
    BY DEF CellBits
  <2> QED
    BY <2>1
<1>2. (0 + bits) % WordSize = bits
  BY WordDivision
<1>3. PICK hi \in 0 .. WordSize - 1 : hi = (n * CellBits) \div WordSize /\ hi = n \div (WordSize \div CellBits)
  BY LengthFits
<1>4. (0 + 0 + hi) % WordSize = hi
  BY WordDivision
<1>5. Counted(<<0, 0>>, n)[2] =
        (0 + (IF (0 + bits) % WordSize < bits THEN 1 ELSE 0) + (n \div (WordSize \div CellBits))) % WordSize
  BY <1>1 DEF Counted
<1> QED
  BY <1>1, <1>2, <1>3, <1>4, <1>5
-----------------------------------------------------------------------------
(* The padding. *)
LEMMA SomeCells == BlockCells \in Nat \ {0} /\ BlockCells > LengthCells
BY DEF LengthCells

LEMMA ZerosPad ==
    ASSUME NEW n \in Nat
    PROVE  Zeros(n) \in 0 .. BlockCells - 1 /\ \E t \in Nat \ {0} : n + 1 + Zeros(n) + LengthCells = t * BlockCells
<1> DEFINE Pads(z) == (n + 1 + z + LengthCells) % BlockCells = 0
<1>1. \E z \in 0 .. BlockCells - 1 : Pads(z)
  <2>1. PICK q \in Nat, r \in 0 .. BlockCells - 1 : n + 1 + LengthCells = q * BlockCells + r
    <3>1. PICK m \in Nat : m = n + 1 + LengthCells
      BY DEF LengthCells
    <3>2. m \div BlockCells \in Nat /\ m % BlockCells \in 0 .. BlockCells - 1
          /\ m = (m \div BlockCells) * BlockCells + (m % BlockCells)
      BY Division, SomeCells
    <3> QED
      BY <3>1, <3>2
  <2>2. CASE r = 0
    <3>1. n + 1 + 0 + LengthCells = q * BlockCells + 0 /\ 0 \in 0 .. BlockCells - 1
      BY <2>1, <2>2 DEF LengthCells
    <3>2. (q * BlockCells + 0) % BlockCells = 0
      BY <3>1, CellOfBlock
    <3>3. Pads(0)
      BY <3>1, <3>2
    <3> QED
      BY <3>1, <3>3
  <2>3. CASE r # 0
    <3>1. BlockCells - r \in 0 .. BlockCells - 1 /\ 0 \in 0 .. BlockCells - 1
      BY <2>3
    <3>2. (q + 1) * BlockCells = q * BlockCells + BlockCells
      OBVIOUS
    <3>3. n + 1 + (BlockCells - r) + LengthCells = (q + 1) * BlockCells + 0
      <4>1. PICK m \in Nat : m = q * BlockCells
        OBVIOUS
      <4> QED
        BY <2>1, <3>2, <4>1 DEF LengthCells
    <3>4. ((q + 1) * BlockCells + 0) % BlockCells = 0
      BY <3>1, CellOfBlock
    <3>5. Pads(BlockCells - r)
      BY <3>3, <3>4
    <3> QED
      BY <3>1, <3>5
  <2> QED
    BY <2>2, <2>3
<1>2. Zeros(n) = CHOOSE z \in 0 .. BlockCells - 1 : Pads(z)
  BY DEF Zeros
<1>3. Zeros(n) \in 0 .. BlockCells - 1 /\ Pads(Zeros(n))
  <2> HIDE DEF Pads
  <2> QED
    BY <1>1, <1>2
<1>4. PICK m \in Nat \ {0} : m = n + 1 + Zeros(n) + LengthCells
  BY <1>3 DEF LengthCells
<1>5. PICK t \in Nat : m = t * BlockCells + (m % BlockCells)
  <2>1. m \div BlockCells \in Nat /\ m = (m \div BlockCells) * BlockCells + (m % BlockCells)
    BY Division, SomeCells
  <2> QED
    BY <2>1
<1>6. m % BlockCells = 0
  BY <1>3, <1>4
<1>7. m = t * BlockCells
  BY <1>5, <1>6
<1>8. t # 0
  BY <1>7
<1> QED
  BY <1>3, <1>4, <1>7, <1>8

LEMMA Lengths ==
    ASSUME MessageInv
    PROVE  /\ Bytes \in Nat /\ Bytes <= MaxMessage /\ LengthAt \in Nat /\ LengthAt > Bytes
           /\ Zeros(Bytes) \in Nat /\ Zeros(Bytes) < BlockCells
           /\ \E t \in Nat \ {0} : LengthAt + LengthCells = t * BlockCells
<1>1. Bytes \in Nat /\ Bytes <= MaxMessage
  BY DEF MessageInv, Bytes
<1>2. PICK n \in Nat : n = Bytes
  BY <1>1
<1>3. Zeros(n) \in 0 .. BlockCells - 1 /\ \E t \in Nat \ {0} : n + 1 + Zeros(n) + LengthCells = t * BlockCells
  BY ZerosPad
<1>4. LengthAt = n + 1 + Zeros(n)
  BY <1>2 DEF LengthAt
<1> QED
  BY <1>1, <1>2, <1>3, <1>4

(* The loop ends at the first cell that leaves room for the length. *)
LEMMA PaddedAt ==
    ASSUME MessageInv, NEW q \in Nat, q > Bytes, q <= LengthAt, NEW count, count[1] = (q * CellBits) % WordSize
    PROVE  Gathered(count) = BlockCells - LengthCells <=> q = LengthAt
<1>1. PICK t \in Nat \ {0} : LengthAt + LengthCells = t * BlockCells
  BY Lengths
<1>2. LengthAt \in Nat /\ Bytes \in Nat /\ LengthAt - q < BlockCells
  BY Lengths DEF LengthAt
<1>3. PICK b \in Nat, r \in 0 .. BlockCells - 1 : q = b * BlockCells + r
  <2>1. q \div BlockCells \in Nat /\ q % BlockCells \in 0 .. BlockCells - 1
        /\ q = (q \div BlockCells) * BlockCells + (q % BlockCells)
    BY Division, SomeCells
  <2> QED
    BY <2>1
<1>4. Gathered(count) = r
  BY <1>3, Gathers
<1>5. ASSUME r = BlockCells - LengthCells PROVE q = LengthAt
  <2>1. (b + 1) * BlockCells = b * BlockCells + BlockCells
    OBVIOUS
  <2>2. q + LengthCells = (b + 1) * BlockCells
    BY <1>3, <1>5, <2>1 DEF LengthCells
  <2>3. ~(b + 1 < t)
    <3> SUFFICES ASSUME b + 1 < t PROVE FALSE
      OBVIOUS
    <3>1. PICK c \in Nat : c = b + 1
      OBVIOUS
    <3>2. c * BlockCells + BlockCells <= t * BlockCells
      BY <3>1, CellsApart
    <3>3. PICK x \in Nat, y \in Nat : x = c * BlockCells /\ y = t * BlockCells
      OBVIOUS
    <3> QED
      BY <1>1, <1>2, <2>2, <3>1, <3>2, <3>3 DEF LengthCells
  <2>4. ~(t < b + 1)
    <3> SUFFICES ASSUME t < b + 1 PROVE FALSE
      OBVIOUS
    <3>1. PICK c \in Nat : c = b + 1
      OBVIOUS
    <3>2. t * BlockCells + BlockCells <= c * BlockCells
      BY <3>1, CellsApart
    <3>3. PICK x \in Nat, y \in Nat : x = c * BlockCells /\ y = t * BlockCells
      OBVIOUS
    <3> QED
      BY <1>1, <1>2, <2>2, <3>1, <3>2, <3>3 DEF LengthCells
  <2>5. t = b + 1
    BY <2>3, <2>4
  <2> QED
    BY <1>1, <1>2, <2>2, <2>5 DEF LengthCells
<1>6. ASSUME q = LengthAt PROVE r = BlockCells - LengthCells
  <2>1. PICK c \in Nat : t = c + 1
    <3>1. t - 1 \in Nat
      OBVIOUS
    <3> QED
      BY <3>1
  <2>2. t * BlockCells = c * BlockCells + BlockCells
    BY <2>1
  <2>3. PICK s \in 0 .. BlockCells - 1 : s = BlockCells - LengthCells
    BY DEF LengthCells
  <2>4. q = c * BlockCells + s
    BY <1>1, <1>6, <2>2, <2>3 DEF LengthCells
  <2>5. q % BlockCells = s
    BY <2>4, CellOfBlock
  <2>6. q % BlockCells = r
    BY <1>3, CellOfBlock
  <2> QED
    BY <2>3, <2>5, <2>6
<1> QED
  BY <1>4, <1>5, <1>6

-----------------------------------------------------------------------------
(* Blocks of cells. *)
LEMMA Joined ==
    ASSUME NEW S, NEW s \in Seq(S), NEW t \in Seq(S), NEW m, NEW n, Len(s) = m, Len(t) = n
    PROVE  /\ s \o t \in Seq(S) /\ Len(s \o t) = m + n
           /\ \A i \in 1 .. m + n : (s \o t)[i] = IF i <= m THEN s[i] ELSE t[i - m]
BY ZenonT(40), ConcatProperties

LEMMA BlockOfCells ==
    ASSUME NEW cells, NEW from \in Nat, NEW b \in Nat, HasBlock(cells, from, b)
    PROVE  SubSeq(cells, from + 1, from + BlockCells) = BlockAt(b)
<1> DEFINE C(i) == BlockAt(b)[i]
           S == {C(i) : i \in 1 .. BlockCells}
           s == SubSeq(cells, from + 1, from + BlockCells)
<1>1. \A i \in (from + 1) .. (from + BlockCells) : cells[i] \in S
  <2> SUFFICES ASSUME NEW i \in (from + 1) .. (from + BlockCells) PROVE cells[i] \in S
    OBVIOUS
  <2>1. PICK j \in 1 .. BlockCells : i = from + j
    <3>1. i - from \in 1 .. BlockCells
      OBVIOUS
    <3> QED
      BY <3>1
  <2> QED
    BY <2>1 DEF HasBlock
<1>2. from + 1 \in Int /\ from + BlockCells \in Int
  OBVIOUS
<1> HIDE DEF S
<1>3. /\ s \in Seq(S)
      /\ Len(s) = IF from + 1 <= from + BlockCells THEN from + BlockCells - (from + 1) + 1 ELSE 0
      /\ \A i \in 1 .. from + BlockCells - (from + 1) + 1 : s[i] = cells[from + 1 + i - 1]
  BY <1>1, <1>2, SubSeqProperties
<1>4. from + BlockCells - (from + 1) + 1 = BlockCells /\ from + 1 <= from + BlockCells
  BY SomeCells
<1> HIDE DEF s
<1>5. Len(s) = BlockCells
  BY <1>3, <1>4
<1>6. \A i \in 1 .. BlockCells : s[i] = C(i)
  <2> SUFFICES ASSUME NEW i \in 1 .. BlockCells PROVE s[i] = C(i)
    OBVIOUS
  <2>1. i \in 1 .. from + BlockCells - (from + 1) + 1
    BY <1>4
  <2>2. s[i] = cells[from + 1 + i - 1]
    BY <1>3, <2>1
  <2>3. from + 1 + i - 1 = from + i
    OBVIOUS
  <2> QED
    BY <2>2, <2>3 DEF HasBlock
<1>7. s = [i \in 1 .. BlockCells |-> s[i]]
  BY <1>3, <1>5
<1>8. s = [i \in 1 .. BlockCells |-> C(i)]
  <2> HIDE DEF C
  <2> QED
    BY <1>6, <1>7
<1>9. BlockAt(b) = [i \in 1 .. BlockCells |-> C(i)]
  BY DEF BlockAt
<1> QED
  BY <1>8, <1>9 DEF s

(* The hardware is given the next blocks. *)
LEMMA Appends ==
    ASSUME NEW L \in Nat, NEW n \in Nat, NEW cells, AreNext(cells, L, n)
    PROVE  /\ Transformed(FirstBlocks(L), cells, n) = FirstBlocks(L + n)
           /\ Len(FirstBlocks(L + n)) = L + n
<1> DEFINE S == {BlockAt(b) : b \in Nat}
           t == [b \in 1 .. n |-> BlockAt(L + b)]
           state == [b \in 1 .. L |-> BlockAt(b)]
           all == [b \in 1 .. L + n |-> BlockAt(b)]
<1>1. state \in Seq(S) /\ Len(state) = L
  <2>1. \A b \in 1 .. L : BlockAt(b) \in S
    OBVIOUS
  <2> HIDE DEF S
  <2> QED
    BY <2>1
<1>2. t \in Seq(S) /\ Len(t) = n
  <2>1. \A b \in 1 .. n : BlockAt(L + b) \in S
    <3>1. \A b \in 1 .. n : L + b \in Nat
      OBVIOUS
    <3> QED
      BY <3>1, Zenon
  <2> HIDE DEF S
  <2> QED
    BY <2>1
<1>3. all \in Seq(S) /\ Len(all) = L + n
  <2>1. \A b \in 1 .. L + n : BlockAt(b) \in S
    OBVIOUS
  <2> HIDE DEF S
  <2> QED
    BY <2>1
<1>4. Transformed(state, cells, n) = state \o t
  <2>1. [b \in 1 .. n |-> SubSeq(cells, (b - 1) * BlockCells + 1, b * BlockCells)] = t
    BY DEF AreNext
  <2> QED
    BY <2>1 DEF Transformed
<1>5. \A b \in 1 .. L : state[b] = BlockAt(b)
  OBVIOUS
<1>6. \A b \in 1 .. n : t[b] = BlockAt(L + b)
  OBVIOUS
<1>7. \A b \in 1 .. L + n : all[b] = BlockAt(b)
  OBVIOUS
<1> HIDE DEF S, t, all, state
<1>8. /\ state \o t \in Seq(S) /\ Len(state \o t) = L + n
      /\ \A i \in 1 .. L + n : (state \o t)[i] = IF i <= L THEN state[i] ELSE t[i - L]
  BY <1>1, <1>2, Joined
<1>9. \A i \in 1 .. L + n : (state \o t)[i] = all[i]
  <2> SUFFICES ASSUME NEW i \in 1 .. L + n PROVE (state \o t)[i] = all[i]
    OBVIOUS
  <2>1. CASE i <= L
    BY <1>5, <1>7, <1>8, <2>1
  <2>2. CASE ~(i <= L)
    <3>1. PICK k \in 1 .. n : i = L + k /\ i - L = k
      <4>1. i - L \in 1 .. n
        BY <2>2
      <4> QED
        BY <4>1
    <3>2. t[k] = BlockAt(L + k)
      BY <1>6
    <3> QED
      BY <1>7, <1>8, <2>2, <3>1, <3>2
  <2> QED
    BY <2>1, <2>2
<1>10. state \o t = all
  BY <1>3, <1>8, <1>9, SeqEqual
<1> QED
  BY <1>3, <1>4, <1>10 DEF all, state, FirstBlocks

(* The reference pads to the same cells. *)
LEMMA MessageBlocks ==
    ASSUME MessageInv, NEW t \in Nat, LengthAt + LengthCells = t * BlockCells
    PROVE  Message(message) = FirstBlocks(t)
<1> DEFINE n == Len(message)
           zeros == [z \in 1 .. Zeros(n) |-> "0"]
           tail == <<(n * CellBits) \div WordSize, (n * CellBits) % WordSize>>
           c1 == message \o <<"1">>
           c2 == c1 \o zeros
           cells == c2 \o tail
<1>1. n \in Nat /\ n = Bytes /\ Zeros(n) \in Nat /\ LengthAt = n + 1 + Zeros(n)
  BY Lengths DEF Bytes, LengthAt
<1>2. message \in Seq(Alphabet)
  BY DEF MessageInv
<1>3. <<"1">> \in Seq(Alphabet) /\ Len(<<"1">>) = 1 /\ <<"1">>[1] = "1"
  BY DEF Alphabet
<1>4. zeros \in Seq(Alphabet) /\ Len(zeros) = Zeros(n) /\ \A k \in 1 .. Zeros(n) : zeros[k] = "0"
  <2>1. "0" \in Alphabet
    BY DEF Alphabet
  <2> QED
    BY <1>1, <2>1
<1>5. tail \in Seq(Alphabet) /\ Len(tail) = 2 /\ tail[1] = Hi /\ tail[2] = Lo
  <2>1. n * CellBits \in Nat
    BY <1>1 DEF CellBits
  <2>2. (n * CellBits) \div WordSize \in Int /\ (n * CellBits) % WordSize \in Int
    BY <2>1
  <2>3. Hi \in Alphabet /\ Lo \in Alphabet /\ tail = <<Hi, Lo>>
    BY <1>1, <2>2 DEF Alphabet, Hi, Lo
  <2> QED
    BY <2>3
<1> HIDE DEF n, zeros, tail
<1>6. /\ c1 \in Seq(Alphabet) /\ Len(c1) = n + 1
      /\ \A k \in 1 .. n + 1 : c1[k] = IF k <= n THEN message[k] ELSE "1"
  <2>1. /\ c1 \in Seq(Alphabet) /\ Len(c1) = n + 1
        /\ \A k \in 1 .. n + 1 : c1[k] = IF k <= n THEN message[k] ELSE <<"1">>[k - n]
    BY <1>2, <1>3, Joined DEF n
  <2>2. \A k \in 1 .. n + 1 : k <= n \/ k - n = 1
    BY <1>1
  <2> HIDE DEF c1
  <2> QED
    BY <1>3, <2>1, <2>2
<1> HIDE DEF c1
<1>7. /\ c2 \in Seq(Alphabet) /\ Len(c2) = LengthAt
      /\ \A k \in 1 .. LengthAt : c2[k] = IF k <= n + 1 THEN c1[k] ELSE "0"
  <2>1. /\ c2 \in Seq(Alphabet) /\ Len(c2) = n + 1 + Zeros(n)
        /\ \A k \in 1 .. n + 1 + Zeros(n) : c2[k] = IF k <= n + 1 THEN c1[k] ELSE zeros[k - (n + 1)]
    BY <1>4, <1>6, Joined
  <2>2. \A k \in 1 .. n + 1 + Zeros(n) : k <= n + 1 \/ k - (n + 1) \in 1 .. Zeros(n)
    BY <1>1
  <2> HIDE DEF c2
  <2> QED
    BY <1>1, <1>4, <2>1, <2>2
<1> HIDE DEF c2
<1>8. LengthAt \in Nat
  BY Lengths
<1>9. /\ cells \in Seq(Alphabet) /\ Len(cells) = LengthAt + 2
      /\ \A k \in 1 .. LengthAt + 2 :
            cells[k] = IF k <= LengthAt THEN c2[k] ELSE IF k = LengthAt + 1 THEN Hi ELSE Lo
  <2>1. /\ cells \in Seq(Alphabet) /\ Len(cells) = LengthAt + 2
        /\ \A k \in 1 .. LengthAt + 2 : cells[k] = IF k <= LengthAt THEN c2[k] ELSE tail[k - LengthAt]
    <3>1. /\ cells \in Seq(Alphabet) /\ Len(cells) = Len(c2) + Len(tail)
          /\ \A k \in 1 .. Len(c2) + Len(tail) : cells[k] = IF k <= Len(c2) THEN c2[k] ELSE tail[k - Len(c2)]
      BY ZenonT(40), <1>5, <1>7, ConcatProperties
    <3> QED
      BY <1>5, <1>7, <3>1, Zenon
  <2>2. \A k \in 1 .. LengthAt + 2 :
            \/ k <= LengthAt
            \/ k - LengthAt = 1 /\ k = LengthAt + 1
            \/ k - LengthAt = 2 /\ k # LengthAt + 1 /\ ~(k <= LengthAt)
    BY <1>8
  <2> HIDE DEF cells
  <2> QED
    BY <1>5, <2>1, <2>2
<1> HIDE DEF cells
<1>10. \A k \in 1 .. LengthAt + 2 : cells[k] = Cell(k)
  <2> SUFFICES ASSUME NEW k \in 1 .. LengthAt + 2 PROVE cells[k] = Cell(k)
    OBVIOUS
  <2>1. CASE k <= n
    BY SMTT(20), <1>1, <1>6, <1>7, <1>9, <2>1 DEF Cell
  <2>2. CASE k = n + 1
    BY SMTT(20), <1>1, <1>6, <1>7, <1>9, <2>2 DEF Cell
  <2>3. CASE k > n + 1
    BY SMTT(20), <1>1, <1>7, <1>9, <2>3 DEF Cell
  <2> QED
    BY <1>1, <2>1, <2>2, <2>3
<1>11. Len(cells) \div BlockCells = t
  <2>1. Len(cells) = t * BlockCells + 0 /\ 0 \in 0 .. BlockCells - 1
    BY <1>9 DEF LengthCells
  <2> QED
    BY <2>1, CellOfBlock
<1>12. ASSUME NEW b \in 1 .. t PROVE SubSeq(cells, (b - 1) * BlockCells + 1, b * BlockCells) = BlockAt(b)
  <2>1. PICK from \in Nat : from = (b - 1) * BlockCells
    OBVIOUS
  <2>2. b * BlockCells = from + BlockCells
    BY <2>1
  <2>3. b * BlockCells <= t * BlockCells
    <3>1. CASE b = t
      BY <3>1
    <3>2. CASE b < t
      <4>1. b * BlockCells + BlockCells <= t * BlockCells
        BY <3>2, CellsApart
      <4> QED
        BY <4>1
    <3> QED
      BY <3>1, <3>2
  <2>4. ASSUME NEW i \in 1 .. BlockCells PROVE cells[from + i] = BlockAt(b)[i]
    <3>1. PICK x \in Nat, y \in Nat : x = b * BlockCells /\ y = t * BlockCells
      OBVIOUS
    <3>2. from + i \in 1 .. LengthAt + 2
      BY <1>8, <2>2, <2>3, <3>1 DEF LengthCells
    <3>3. cells[from + i] = Cell(from + i)
      BY <1>10, <3>2
    <3> QED
      BY <2>1, <3>3 DEF BlockAt
  <2>5. HasBlock(cells, from, b) /\ b \in Nat
    BY <2>4 DEF HasBlock
  <2>6. SubSeq(cells, from + 1, from + BlockCells) = BlockAt(b)
    BY <2>5, BlockOfCells
  <2> QED
    BY <2>1, <2>2, <2>6
<1>13. Message(message) = [b \in 1 .. Len(cells) \div BlockCells |-> SubSeq(cells, (b - 1) * BlockCells + 1, b * BlockCells)]
  BY DEF Message, cells, c2, c1, zeros, tail, n
<1> QED
  BY <1>11, <1>12, <1>13 DEF FirstBlocks
-----------------------------------------------------------------------------
(* The data of a call are the next cells. *)
LEMMA DataCells ==
    ASSUME MessageInv, NEW p \in Nat, StageInv(p)
    PROVE  /\ Len(data) \in Nat /\ DOMAIN data = 1 .. Len(data)
           /\ \A k \in 1 .. Len(data) : data[k] = Cell(p + k)
           /\ p + Len(data) <= LengthAt + LengthCells
           /\ stage # "message" => Len(data) \in {1, 2}
           /\ stage = "length" => Len(data) = LengthCells
<1>1. /\ Bytes \in Nat /\ LengthAt \in Nat /\ LengthAt > Bytes /\ LengthAt = Bytes + 1 + Zeros(Bytes)
      /\ Bytes = Len(message) /\ message \in Seq(Alphabet) /\ Zeros(Bytes) \in Nat
  BY Lengths DEF Bytes, LengthAt, MessageInv
<1>2. CASE stage = "message"
  <2>1. p = 0 /\ data = message
    BY <1>2 DEF StageInv
  <2>2. \A k \in 1 .. Len(message) : message[k] = Cell(0 + k)
    BY <1>1 DEF Cell
  <2> QED
    BY <1>1, <1>2, <2>1, <2>2 DEF LengthCells
<1>3. CASE stage = "one"
  <2>1. p = Bytes /\ data = <<"1">>
    BY <1>3 DEF StageInv
  <2>2. Cell(Bytes + 1) = "1"
    BY <1>1 DEF Cell
  <2> QED
    BY <1>1, <1>3, <2>1, <2>2 DEF LengthCells
<1>4. CASE stage = "zeros"
  <2>1. p > Bytes /\ p < LengthAt /\ data = <<"0">>
    BY <1>4 DEF StageInv
  <2>2. Cell(p + 1) = "0"
    BY <1>1, <2>1 DEF Cell
  <2> QED
    BY <1>1, <1>4, <2>1, <2>2 DEF LengthCells
<1>5. CASE stage = "length"
  <2>1. p = LengthAt /\ data = <<Hi, Lo>>
    BY <1>5 DEF StageInv
  <2>2. Cell(LengthAt + 1) = Hi /\ Cell(LengthAt + 2) = Lo
    BY SMTT(20), <1>1 DEF Cell
  <2>3. Len(data) = 2 /\ DOMAIN data = 1 .. 2 /\ data[1] = Hi /\ data[2] = Lo
    BY <2>1
  <2>4. \A k \in 1 .. 2 : data[k] = Cell(p + k)
    <3>1. \A k \in 1 .. 2 : k = 1 \/ k = 2
      OBVIOUS
    <3> QED
      BY <2>1, <2>2, <2>3, <3>1
  <2>5. p + 2 <= LengthAt + LengthCells /\ 2 = LengthCells /\ 2 \in Nat
    BY SMTT(20), <1>1, <2>1 DEF LengthCells
  <2> QED
    BY <1>5, <2>3, <2>4, <2>5
<1> QED
  BY <1>2, <1>3, <1>4, <1>5 DEF StageInv

LEMMA Sha1InitOk == Sha1Init => Sha1Inv
<1> SUFFICES ASSUME Sha1Init PROVE Sha1Inv
  OBVIOUS
<1>1. PICK n \in 0 .. MaxMessage : message = [k \in 1 .. n |-> <<"m", k>>]
  BY DEF Sha1Init
<1>2. MessageInv
  <2>1. \A k \in 1 .. n : <<"m", k>> \in Alphabet
    BY DEF Alphabet
  <2> DEFINE s == [k \in 1 .. n |-> <<"m", k>>]
  <2>2. s \in Seq(Alphabet) /\ Len(s) = n
    <3> HIDE DEF Alphabet
    <3> QED
      BY <2>1
  <2> QED
    BY <1>1, <2>2 DEF MessageInv, Bytes
<1>3. used = -1 /\ stage = "message" /\ data = message
      /\ context.state = <<>> /\ context.count = <<0, 0>>
  BY DEF Sha1Init, Cleared
<1>4. StageInv(0)
  BY <1>3 DEF StageInv
<1>5. PlaceInv(0)
  <2>1. Len(context.state) = 0 /\ context.state = FirstBlocks(0)
    <3>1. 1 .. 0 = {}
      OBVIOUS
    <3> QED
      BY <1>3, <3>1 DEF FirstBlocks
  <2>2. Compressed = 0
    BY <2>1 DEF Compressed
  <2>3. 0 - 0 \in 0 .. BlockCells - 1 /\ Buffered(0 - 0)
    BY SomeCells DEF Buffered
  <2> QED
    BY <1>3, <2>1, <2>2, <2>3 DEF PlaceInv, Sha1Init, Cleared
<1>6. CountInv(0)
  <2>1. (0 * WordSize + 0) % WordSize = 0
    BY WordDivision
  <2>2. 0 * CellBits = 0 /\ 0 * WordSize + 0 = 0
    BY DEF CellBits
  <2> QED
    BY <1>3, <2>1, <2>2 DEF CountInv, CountedTo
<1>7. \E p \in Nat : HashingInv(p)
  BY <1>4, <1>5, <1>6 DEF HashingInv
<1>8. stage # "done"
  BY <1>3
<1> QED
  BY <1>2, <1>7, <1>8 DEF Sha1Inv

(* Only the place of the cells changes. *)
LEMMA SameCells ==
    ASSUME message' = message
    PROVE  /\ \A k : Cell(k)' = Cell(k)
           /\ \A b : BlockAt(b)' = BlockAt(b)
           /\ \A b : FirstBlocks(b)' = FirstBlocks(b)
           /\ Bytes' = Bytes /\ Hi' = Hi /\ Lo' = Lo /\ LengthAt' = LengthAt /\ MessageInv' = MessageInv
BY DEF Cell, BlockAt, FirstBlocks, Bytes, Hi, Lo, LengthAt, MessageInv
-----------------------------------------------------------------------------
(* A call begins: what fills the block in the buffer. *)
LEMMA BeginKeeps == Sha1Inv /\ Begin => Sha1Inv'
<1> SUFFICES ASSUME Sha1Inv, Begin PROVE Sha1Inv'
  OBVIOUS
<1>1. /\ used = -1 /\ stage # "done"
      /\ message' = message /\ data' = data /\ stage' = stage /\ finalcount' = finalcount /\ digest' = digest
  BY DEF Begin
<1>2. PICK p \in Nat : HashingInv(p)
  BY <1>1 DEF Sha1Inv
<1>3. /\ MessageInv /\ StageInv(p) /\ PlaceInv(p) /\ CountInv(p)
  BY <1>2 DEF Sha1Inv, HashingInv
<1>4. PICK n \in Nat : n = Len(data)
  BY <1>3, DataCells
<1>5. \A k \in 1 .. n : data[k] = Cell(p + k)
  BY <1>3, <1>4, DataCells
<1>6. PICK L \in Nat, c \in Nat, j \in 0 .. BlockCells - 1 :
          L = Len(context.state) /\ j = p - Compressed /\ p = L * BlockCells + j /\ c = L * BlockCells /\ p = c + j
  <2>1. Len(context.state) \in Nat /\ p - Compressed \in 0 .. BlockCells - 1
    BY <1>1, <1>3 DEF PlaceInv
  <2>2. PICK L \in Nat, c \in Nat : L = Len(context.state) /\ c = L * BlockCells /\ c = Compressed
    BY <2>1, SomeCells DEF Compressed
  <2>3. p = c + (p - c)
    OBVIOUS
  <2> QED
    BY <2>1, <2>2, <2>3
<1>7. Gathered(context.count) = j
  <2>1. context.count[1] = (p * CellBits) % WordSize
    BY <1>1, <1>3 DEF CountInv, CountedTo
  <2> QED
    BY <1>6, <2>1, Gathers
<1> DEFINE head == IF j + n > BlockCells - 1 THEN BlockCells - j ELSE 0
           full == Into(context.buffer, j, SubSeq(data, 1, head))
<1>8. /\ used' = head
      /\ context' = [state |-> IF j + n > BlockCells - 1 THEN Transformed(context.state, full, 1) ELSE context.state,
                     count |-> Counted(context.count, n), buffer |-> full]
  BY <1>4, <1>7 DEF Begin
<1>9. DOMAIN SubSeq(data, 1, head) = 1 .. head /\ \A k \in 1 .. head : SubSeq(data, 1, head)[k] = data[k]
  <2>1. CASE head = 0
    <3>1. SubSeq(data, 1, 0) = <<>>
      BY SubSeqEmpty
    <3> QED
      BY <2>1, <3>1
  <2>2. CASE head # 0
    <3>1. head \in 1 .. n
      BY <2>2
    <3> DEFINE S == {data[i] : i \in 1 .. n}
               s == SubSeq(data, 1, head)
    <3>2. \A i \in 1 .. head : data[i] \in S
      BY <3>1
    <3> HIDE DEF S, head
    <3>3. /\ s \in Seq(S) /\ Len(s) = (IF 1 <= head THEN head - 1 + 1 ELSE 0)
          /\ \A i \in 1 .. head - 1 + 1 : s[i] = data[1 + i - 1]
      BY <3>1, <3>2, SubSeqProperties
    <3> HIDE DEF s
    <3>4. Len(s) = head /\ DOMAIN s = 1 .. Len(s)
      BY <3>1, <3>3
    <3>5. \A i \in 1 .. head : i \in 1 .. head - 1 + 1 /\ 1 + i - 1 = i
      BY <3>1
    <3> QED
      BY <3>3, <3>4, <3>5 DEF s
  <2> QED
    BY <2>1, <2>2
<1>10. head \in 0 .. n /\ j + head <= BlockCells
  OBVIOUS
<1>11. \A k \in 1 .. j + head : full[k] = Cell(L * BlockCells + k)
  <2> SUFFICES ASSUME NEW k \in 1 .. j + head PROVE full[k] = Cell(L * BlockCells + k)
    OBVIOUS
  <2>1. k \in 1 .. BlockCells
    BY <1>10
  <2>2. full[k] = IF k - j \in 1 .. head THEN SubSeq(data, 1, head)[k - j] ELSE context.buffer[k]
    BY <1>9, <2>1 DEF Into
  <2> HIDE DEF full, head
  <2>3. CASE k <= j
    <3>1. k \in 1 .. j /\ k - j \notin 1 .. head
      BY <2>3
    <3>2. context.buffer[k] = Cell(Compressed + k)
      BY <1>1, <1>3, <1>6, <3>1 DEF PlaceInv, Buffered
    <3> QED
      BY <1>6, <2>2, <3>1, <3>2 DEF Compressed
  <2>4. CASE ~(k <= j)
    <3>1. PICK i \in 1 .. head : k = j + i /\ k - j = i
      <4>1. k - j \in 1 .. head
        BY <1>10, <2>4
      <4> QED
        BY <4>1
    <3>2. full[k] = data[i]
      BY <1>9, <2>2, <3>1
    <3>3. i \in 1 .. n
      BY <1>10
    <3>4. data[i] = Cell(p + i)
      BY <1>5, <3>3
    <3>5. p + i = c + k
      <4>1. p = c + j
        BY <1>6
      <4> QED
        BY <3>1, <4>1
    <3>6. p + i = L * BlockCells + k
      BY <1>6, <3>5
    <3> QED
      BY <3>2, <3>4, <3>6
  <2> QED
    BY <2>3, <2>4
<1> HIDE DEF full
<1>0. context' = [state |-> context'.state, count |-> context'.count, buffer |-> context'.buffer]
  BY <1>8
<1>12. PlaceInv(p)'
  <2>0. context.state = FirstBlocks(L) /\ \A b : FirstBlocks(b)' = FirstBlocks(b)
    BY <1>1, <1>3, <1>6, SameCells DEF PlaceInv
  <2>1. CASE j + n > BlockCells - 1
    <3>1. head = BlockCells - j /\ head > 0 /\ head <= n
      BY <2>1
    <3>2. SubSeq(full, (1 - 1) * BlockCells + 1, 1 * BlockCells) = BlockAt(L + 1)
      <4>1. \A k \in 1 .. BlockCells : full[0 + k] = BlockAt(L + 1)[k]
        <5> SUFFICES ASSUME NEW k \in 1 .. BlockCells PROVE full[0 + k] = BlockAt(L + 1)[k]
          OBVIOUS
        <5>1. k \in 1 .. j + head /\ 0 + k = k
          BY <3>1
        <5>2. full[k] = Cell(L * BlockCells + k)
          BY <1>11, <5>1
        <5>3. (L + 1 - 1) * BlockCells = L * BlockCells
          OBVIOUS
        <5> QED
          BY <5>1, <5>2, <5>3 DEF BlockAt
      <4>2. PICK b \in Nat : b = L + 1
        OBVIOUS
      <4>3. \A k \in 1 .. BlockCells : full[0 + k] = BlockAt(b)[k]
        BY <4>1, <4>2
      <4>4. SubSeq(full, 0 + 1, 0 + BlockCells) = BlockAt(b)
        <5>1. PICK z \in Nat : z = 0
          OBVIOUS
        <5>2. HasBlock(full, z, b)
          BY <4>3, <5>1 DEF HasBlock
        <5>3. SubSeq(full, z + 1, z + BlockCells) = BlockAt(b)
          BY <5>2, BlockOfCells
        <5> QED
          BY <5>1, <5>3
      <4>5. (1 - 1) * BlockCells + 1 = 0 + 1 /\ 1 * BlockCells = 0 + BlockCells
        BY SomeCells
      <4> QED
        BY <4>2, <4>4, <4>5
    <3>3. AreNext(full, L, 1)
      BY <3>2 DEF AreNext
    <3>4. Transformed(FirstBlocks(L), full, 1) = FirstBlocks(L + 1) /\ Len(FirstBlocks(L + 1)) = L + 1
      BY <3>3, Appends
    <3>5. context.state' = FirstBlocks(L + 1) /\ Len(context.state') = L + 1
      BY <1>8, <2>0, <2>1, <3>4
    <3>6. Compressed' = L * BlockCells + BlockCells
      <4>1. (L + 1) * BlockCells = L * BlockCells + BlockCells
        OBVIOUS
      <4> QED
        BY <3>5, <4>1 DEF Compressed
    <3>7. p + used' = Compressed' /\ used' <= n /\ used' > 0
      <4>1. p = c + j /\ Compressed' = c + BlockCells /\ used' = BlockCells - j
        BY <1>6, <1>8, <3>1, <3>6
      <4>2. p + used' = Compressed'
        BY <4>1
      <4> QED
        BY <1>8, <3>1, <4>2
    <3>8. used' \in Int /\ used' >= -1 /\ used' # 0 /\ used' # -1
      BY <1>8, <3>1, <3>7
    <3> QED
      BY SMTT(20), <1>0, <1>1, <1>4, <2>0, <3>5, <3>7, <3>8 DEF PlaceInv
  <2>2. CASE ~(j + n > BlockCells - 1)
    <3>1. head = 0 /\ used' = 0 /\ context.state' = context.state /\ context.buffer' = full
      BY <1>8, <2>2
    <3>2. Compressed' = L * BlockCells /\ p - Compressed' = j
      BY <1>6, <3>1 DEF Compressed
    <3>3. Buffered(p - Compressed)'
      <4>1. \A k \in 1 .. j : full[k] = Cell(L * BlockCells + k)
        BY <1>11, <3>1
      <4>2. \A k : Cell(k)' = Cell(k)
        BY <1>1, SameCells
      <4> QED
        BY <3>1, <3>2, <4>1, <4>2 DEF Buffered
    <3>4. p + n - Compressed' < BlockCells
      <4>1. p = c + j /\ Compressed' = c
        BY <1>6, <3>2
      <4> QED
        BY <2>2, <4>1
    <3>5. context.state' = FirstBlocks(L) /\ Len(context.state') = L
      BY <1>6, <2>0, <3>1
    <3> QED
      BY <1>0, <1>1, <1>4, <2>0, <3>1, <3>2, <3>3, <3>4, <3>5 DEF PlaceInv
  <2> QED
    BY <2>1, <2>2
<1>13. StageInv(p)'
  BY <1>1, <1>3, SameCells DEF StageInv
<1>14. CountInv(p)'
  <2>1. used' # -1
    BY <1>8, <1>10
  <2>2. context.count[1] = (p * CellBits) % WordSize
    BY <1>1, <1>3 DEF CountInv, CountedTo
  <2>3. Counted(context.count, n)[1] = ((p + n) * CellBits) % WordSize
    BY <2>2, CountsOn
  <2>4. context.count'[1] = ((p + n) * CellBits) % WordSize
    BY <1>8, <2>3
  <2>5. CountedTo(p)' = p + n
    BY <1>1, <1>4, <2>1 DEF CountedTo
  <2>6. ASSUME stage = "message" PROVE context.count'[2] = Hi
    <3>1. p = 0 /\ n = Bytes /\ context.count[2] = 0 /\ n <= MaxMessage
      BY <1>1, <1>3, <1>4, <2>6, Lengths DEF StageInv, CountInv, Bytes
    <3>2. context.count[1] = 0
      <4>1. (0 * WordSize + 0) % WordSize = 0
        BY WordDivision
      <4>2. 0 * CellBits = 0 /\ 0 * WordSize + 0 = 0
        BY DEF CellBits
      <4> QED
        BY <2>2, <3>1, <4>1, <4>2
    <3>3. Counted(context.count, n)[2] = Counted(<<0, 0>>, n)[2]
      BY <3>1, <3>2 DEF Counted
    <3>4. Counted(<<0, 0>>, n)[2] = (n * CellBits) \div WordSize
      BY <3>1, CountsMessage
    <3> QED
      BY <1>8, <3>1, <3>3, <3>4 DEF Hi
  <2>7. Hi' = Hi
    BY <1>1, SameCells
  <2> QED
    BY <1>1, <2>1, <2>4, <2>5, <2>6, <2>7 DEF CountInv
<1>15. HashingInv(p)'
  BY <1>12, <1>13, <1>14 DEF HashingInv
<1>16. MessageInv' /\ stage' # "done"
  BY <1>1, <1>3, SameCells
<1> QED
  BY <1>15, <1>16 DEF Sha1Inv
(* What data has after u of its cells. *)
LEMMA RestCells ==
    ASSUME NEW p \in Nat, NEW u \in Nat, NEW len \in Nat, u <= len, DataFrom(p, len)
    PROVE  RestFrom(p, u, len)
<1> DEFINE S == {data[i] : i \in 1 .. len}
           s == SubSeq(data, u + 1, len)
           C(k) == Cell(p + u + k)
<1>1. \A i \in u + 1 .. len : data[i] \in S
  OBVIOUS
<1> HIDE DEF S
<1>2. /\ s \in Seq(S) /\ Len(s) = (IF u + 1 <= len THEN len - (u + 1) + 1 ELSE 0)
      /\ \A i \in 1 .. len - (u + 1) + 1 : s[i] = data[u + 1 + i - 1]
  BY <1>1, SubSeqProperties
<1> HIDE DEF s
<1>3. Len(s) = len - u /\ DOMAIN s = 1 .. Len(s)
  BY <1>2
<1>4. ASSUME NEW k \in 1 .. len - u PROVE s[k] = C(k)
  <2>1. k \in 1 .. len - (u + 1) + 1 /\ u + 1 + k - 1 = u + k /\ u + k \in 1 .. len
    OBVIOUS
  <2>2. s[k] = data[u + k]
    BY <1>2, <2>1
  <2>3. data[u + k] = Cell(p + (u + k))
    BY <2>1 DEF DataFrom
  <2>4. p + (u + k) = p + u + k
    OBVIOUS
  <2> QED
    BY <2>2, <2>3, <2>4
<1> QED
  BY <1>3, <1>4 DEF s, RestFrom

(* Blocks that are complete in the data go to the hardware from there. *)
LEMMA BiggerBlocksKeeps == Sha1Inv /\ BiggerBlocks => Sha1Inv'
<1> SUFFICES ASSUME Sha1Inv, BiggerBlocks PROVE Sha1Inv'
  OBVIOUS
<1>1. /\ used > 0 /\ stage' = stage /\ message' = message /\ data' = data
      /\ finalcount' = finalcount /\ digest' = digest
  BY DEF BiggerBlocks
<1>2. stage # "done"
  BY <1>1 DEF Sha1Inv
<1>3. PICK p \in Nat : HashingInv(p)
  BY <1>2 DEF Sha1Inv
<1>4. MessageInv /\ StageInv(p) /\ PlaceInv(p) /\ CountInv(p)
  BY <1>3 DEF Sha1Inv, HashingInv
<1>5. PICK n \in Batches : /\ Fits(n)
                           /\ context' = [context EXCEPT !.state = Transformed(@, SubSeq(data, used + 1, Len(data)), n)]
                           /\ used' = used + n * BlockCells
  BY DEF BiggerBlocks
<1>6. n \in Nat
  BY <1>5 DEF Batches
<1>7. PICK len \in Nat : len = Len(data) /\ \A k \in 1 .. len : data[k] = Cell(p + k)
  BY <1>4, DataCells
<1>8. PICK L \in Nat, c \in Nat, u \in Nat :
          L = Len(context.state) /\ c = L * BlockCells /\ c = Compressed /\ u = used /\ p + u = c /\ u <= len
          /\ context.state = FirstBlocks(L)
  <2>1. Len(context.state) \in Nat /\ used \in Nat /\ p + used = Compressed /\ used <= len
        /\ context.state = FirstBlocks(Len(context.state))
    BY <1>1, <1>4, <1>7 DEF PlaceInv
  <2>2. PICK L \in Nat, c \in Nat : L = Len(context.state) /\ c = L * BlockCells /\ c = Compressed
    BY <2>1, SomeCells DEF Compressed
  <2> QED
    BY <2>1, <2>2
<1>9. PICK m \in Nat : m = n * BlockCells /\ u + m <= len
  <2>1. PICK m \in Nat : m = n * BlockCells
    BY <1>6, SomeCells
  <2> QED
    BY <1>5, <1>7, <1>8, <2>1 DEF Fits
<1> DEFINE rest == SubSeq(data, u + 1, len)
<1>10. \A k \in 1 .. len - u : rest[k] = Cell(c + k)
  <2>1. DataFrom(p, len) /\ u <= len
    BY <1>7, <1>8 DEF DataFrom
  <2>2. RestFrom(p, u, len)
    BY <2>1, RestCells
  <2>3. p + u = c
    BY <1>8
  <2> QED
    BY <2>2, <2>3 DEF RestFrom
<1> HIDE DEF rest
<1>11. AreNext(rest, L, n)
  <2> SUFFICES ASSUME NEW b \in 1 .. n
               PROVE  SubSeq(rest, (b - 1) * BlockCells + 1, b * BlockCells) = BlockAt(L + b)
    BY DEF AreNext
  <2>1. PICK from \in Nat : from = (b - 1) * BlockCells /\ b * BlockCells = from + BlockCells
    <3>1. PICK a \in Nat : a = b - 1
      OBVIOUS
    <3>2. (a + 1) * BlockCells = a * BlockCells + BlockCells /\ a * BlockCells \in Nat
      BY SomeCells
    <3> QED
      BY <3>1, <3>2
  <2>2. from + BlockCells <= m
    <3>1. CASE b = n
      BY <1>9, <2>1, <3>1
    <3>2. CASE b < n
      <4>1. b * BlockCells + BlockCells <= n * BlockCells
        BY <1>6, <3>2, CellsApart
      <4> QED
        BY <1>9, <2>1, <4>1
    <3> QED
      BY <1>6, <3>1, <3>2
  <2>3. PICK d \in Nat : d = L + b
    BY <1>6
  <2>4. HasBlock(rest, from, d)
    <3> SUFFICES ASSUME NEW i \in 1 .. BlockCells PROVE rest[from + i] = BlockAt(d)[i]
      BY DEF HasBlock
    <3>1. from + i \in 1 .. len - u
      BY <1>9, <2>2
    <3>2. rest[from + i] = Cell(c + (from + i))
      BY <1>10, <3>1
    <3>3. (d - 1) * BlockCells = c + from
      <4>1. PICK a \in Nat : a = b - 1
        OBVIOUS
      <4>2. (L + a) * BlockCells = L * BlockCells + a * BlockCells /\ d - 1 = L + a
        BY <2>3, <4>1
      <4> QED
        BY <1>8, <2>1, <4>1, <4>2
    <3>4. c + (from + i) = c + from + i
      OBVIOUS
    <3> QED
      BY <3>2, <3>3, <3>4 DEF BlockAt
  <2>5. SubSeq(rest, from + 1, from + BlockCells) = BlockAt(d)
    BY <2>4, BlockOfCells
  <2> QED
    BY <2>1, <2>3, <2>5
<1>12. Transformed(FirstBlocks(L), rest, n) = FirstBlocks(L + n) /\ Len(FirstBlocks(L + n)) = L + n
  BY <1>6, <1>11, Appends
<1>13. /\ context' = [state |-> FirstBlocks(L + n), count |-> context.count, buffer |-> context.buffer]
       /\ used' = u + m
  <2>1. rest = SubSeq(data, used + 1, Len(data))
    BY <1>7, <1>8 DEF rest
  <2>2. context = [state |-> FirstBlocks(L), count |-> context.count, buffer |-> context.buffer]
    BY <1>4, <1>8 DEF PlaceInv
  <2>3. context' = [context EXCEPT !.state = FirstBlocks(L + n)]
    BY <1>5, <1>8, <1>12, <2>1
  <2> QED
    BY <1>5, <1>8, <1>9, <2>2, <2>3
<1>14. Len(context.state)' = L + n /\ Compressed' = c + m
  <2>1. (L + n) * BlockCells = c + m
    <3>1. (L + n) * BlockCells = L * BlockCells + n * BlockCells
      BY <1>6
    <3> QED
      BY <1>8, <1>9, <3>1
  <2> QED
    BY <1>12, <1>13, <2>1 DEF Compressed
<1>15. PlaceInv(p)'
  <2>1. FirstBlocks(L + n)' = FirstBlocks(L + n)
    BY <1>1, SameCells
  <2>2. context'.state = FirstBlocks(L + n) /\ L + n \in Nat
    BY <1>6, <1>13
  <2>3. p + used' = Compressed' /\ used' <= len /\ used' > 0 /\ used' \in Int /\ used' >= -1
    <3>1. p + u = c /\ u + m <= len /\ used' = u + m /\ Compressed' = c + m /\ u > 0
      BY <1>1, <1>8, <1>9, <1>13, <1>14
    <3> QED
      BY <3>1
  <2>4. context' = [state |-> context'.state, count |-> context'.count, buffer |-> context'.buffer]
    BY <1>13
  <2>5. used' # 0 /\ used' # -1
    BY <2>3
  <2>6. \A b : FirstBlocks(b)' = FirstBlocks(b)
    BY <1>1, SameCells
  <2> QED
    BY <1>1, <1>7, <1>14, <2>2, <2>3, <2>4, <2>5, <2>6 DEF PlaceInv
<1>16. StageInv(p)'
  BY <1>1, <1>4, SameCells DEF StageInv
<1>17. CountInv(p)'
  <2>1. context'.count = context.count /\ used # -1 /\ used' # -1
    BY SMTT(20), <1>1, <1>8, <1>9, <1>13
  <2> QED
    BY <1>1, <1>4, <2>1, SameCells DEF CountInv, CountedTo
<1>18. MessageInv' /\ stage' # "done"
  BY <1>1, <1>2, <1>4, SameCells
<1>19. HashingInv(p)'
  BY <1>15, <1>16, <1>17 DEF HashingInv
<1> QED
  BY <1>18, <1>19 DEF Sha1Inv

(* What is left of the data goes to the buffer, and the next piece begins. *)
LEMMA UpdatePlace ==
    ASSUME MessageInv, NEW p \in Nat, StageInv(p), PlaceInv(p), CountInv(p), Update, NEW q, q = p + Len(data)
    PROVE  PlaceInv(q)'
<1>1. /\ used >= 0 /\ ~(used > 0 /\ Fits(1)) /\ used' = -1 /\ context' = Kept /\ message' = message
  BY DEF Update
<1>2. PICK len \in Nat : len = Len(data) /\ \A k \in 1 .. len : data[k] = Cell(p + k)
  BY DataCells
<1>3. PICK L \in Nat, c \in Nat, u \in Nat :
          L = Len(context.state) /\ c = L * BlockCells /\ c = Compressed /\ u = used /\ context.state = FirstBlocks(L)
  <2>1. Len(context.state) \in Nat /\ used \in Nat /\ context.state = FirstBlocks(Len(context.state))
    BY <1>1 DEF PlaceInv
  <2>2. PICK L \in Nat, c \in Nat : L = Len(context.state) /\ c = L * BlockCells /\ c = Compressed
    BY <2>1, SomeCells DEF Compressed
  <2> QED
    BY <2>1, <2>2
<1> DEFINE J == IF used > 0 THEN 0 ELSE Gathered(context.count) - Len(data)
<1>4. PICK j \in Nat : /\ j = J /\ p + u = c + j /\ (u > 0 => j = 0) /\ u <= len /\ j + len - u \in 0 .. BlockCells - 1
                       /\ \A k \in 1 .. j : context.buffer[k] = Cell(c + k)
  <2>1. CASE used > 0
    <3>1. p + u = c /\ u <= len
      BY <1>2, <1>3, <2>1 DEF PlaceInv
    <3>2. ~(u + 1 * BlockCells - 1 < len)
      BY <1>1, <1>2, <1>3, <2>1 DEF Fits
    <3>3. len - u \in 0 .. BlockCells - 1
      BY <3>1, <3>2, SomeCells
    <3> QED
      BY <1>3, <2>1, <3>1, <3>3
  <2>2. CASE used = 0
    <3>1. p - c \in Nat /\ p + len - c < BlockCells /\ \A k \in 1 .. p - c : context.buffer[k] = Cell(c + k)
      BY <1>2, <1>3, <2>2 DEF PlaceInv, Buffered
    <3>2. PICK j \in Nat : j = p - c /\ p = c + j
      <4>1. p = c + (p - c)
        OBVIOUS
      <4> QED
        BY <3>1, <4>1
    <3>3. PICK r \in 0 .. BlockCells - 1 : r = j + len
      BY SMTT(20), <3>1, <3>2
    <3>4. context.count[1] = ((p + len) * CellBits) % WordSize
      BY <1>2, <2>2 DEF CountInv, CountedTo
    <3>5. p + len = L * BlockCells + r
      <4>1. p + len = c + r
        BY <3>2, <3>3
      <4> QED
        BY <1>3, <4>1
    <3>6. Gathered(context.count) = r
      BY <3>4, <3>5, Gathers
    <3>7. J = j
      BY <1>2, <2>2, <3>3, <3>6
    <3>8. p + u = c + j /\ (u > 0 => j = 0) /\ u <= len /\ j + len - u \in 0 .. BlockCells - 1
      <4>1. u = 0
        BY <1>3, <2>2
      <4> QED
        BY <3>2, <3>3, <4>1
    <3>9. \A k \in 1 .. j : context.buffer[k] = Cell(c + k)
      BY <3>1, <3>2
    <3> HIDE DEF J
    <3> QED
      BY <3>7, <3>8, <3>9, Zenon
  <2> QED
    BY <1>1, <2>1, <2>2 DEF PlaceInv
<1>5. PICK rest : /\ rest = SubSeq(data, used + 1, Len(data))
                  /\ DOMAIN rest = 1 .. len - u /\ \A k \in 1 .. len - u : rest[k] = Cell(p + u + k)
  <2>1. RestFrom(p, u, len)
    <3>1. DataFrom(p, len) /\ u <= len
      BY <1>2, <1>4 DEF DataFrom
    <3> QED
      BY <3>1, RestCells
  <2> QED
    BY <1>2, <1>3, <2>1 DEF RestFrom
<1>6. context' = [state |-> context.state, count |-> context.count, buffer |-> Into(context.buffer, j, rest)]
  <2>1. context = [state |-> context.state, count |-> context.count, buffer |-> context.buffer]
    BY DEF PlaceInv
  <2>2. context' = [context EXCEPT !.buffer = Into(context.buffer, j, rest)]
    BY <1>1, <1>4, <1>5 DEF Kept
  <2> QED
    BY <2>1, <2>2
<1>7. PICK r \in 0 .. BlockCells - 1 : r = j + len - u /\ p + len = c + r
  <2>1. PICK r \in 0 .. BlockCells - 1 : r = j + len - u
    BY <1>4
  <2>2. p + u = c + j
    BY <1>4
  <2> QED
    BY <2>1, <2>2
<1>8. \A k \in 1 .. r : context'.buffer[k] = Cell(c + k)
  <2> SUFFICES ASSUME NEW k \in 1 .. r PROVE context'.buffer[k] = Cell(c + k)
    OBVIOUS
  <2>1. context'.buffer[k] = IF k - j \in 1 .. len - u THEN rest[k - j] ELSE context.buffer[k]
    <3>1. k \in 1 .. BlockCells
      BY <1>7
    <3> QED
      BY <1>5, <1>6, <3>1 DEF Into
  <2>2. CASE k <= j
    <3>1. k \in 1 .. j /\ k - j \notin 1 .. len - u
      BY <2>2
    <3> QED
      BY <1>4, <2>1, <3>1
  <2>3. CASE ~(k <= j)
    <3>1. PICK i \in 1 .. len - u : i = k - j /\ k = j + i
      <4>1. r = j + len - u
        BY <1>7
      <4>2. k - j \in 1 .. len - u /\ k = j + (k - j)
        BY <2>3, <4>1
      <4> QED
        BY <4>2
    <3>2. context'.buffer[k] = Cell(p + u + i)
      BY <1>5, <2>1, <3>1
    <3>3. p + u + i = c + k
      <4>1. p + u = c + j /\ i \in Int /\ k = j + i
        BY <1>4, <3>1
      <4> QED
        BY <4>1
    <3> QED
      BY <3>2, <3>3
  <2> QED
    BY <2>2, <2>3
<1>9. context'.state = FirstBlocks(L) /\ Len(context'.state) = L /\ Compressed' = c
  BY <1>3, <1>6 DEF Compressed
<1>10. (\A b : FirstBlocks(b)' = FirstBlocks(b)) /\ \A k : Cell(k)' = Cell(k)
  BY <1>1, SameCells
<1>11. context' = [state |-> context'.state, count |-> context'.count, buffer |-> context'.buffer]
  BY <1>6
<1>12. q - c = r
  BY <1>2, <1>7
<1>13. Buffered(r)'
  BY <1>8, <1>9, <1>10 DEF Buffered
<1>14. used' \in Int /\ used' >= -1 /\ used' # 0 /\ ~(used' > 0)
  BY <1>1
<1>15. q - Compressed' = r
  BY <1>9, <1>12
<1>16. (context.state = FirstBlocks(Len(context.state)))' /\ Len(context'.state) \in Nat
  BY <1>9, <1>10
<1> QED
  BY <1>9, <1>11, <1>13, <1>14, <1>15, <1>16 DEF PlaceInv

(* Which piece that is: the zeros end where the length has its place. *)
LEMMA UpdateKeeps == Sha1Inv /\ Update => Sha1Inv'
<1> SUFFICES ASSUME Sha1Inv, Update PROVE Sha1Inv'
  OBVIOUS
<1>1. used >= 0 /\ used' = -1 /\ context' = Kept /\ NextPiece /\ message' = message /\ digest' = digest
  BY DEF Update
<1>2. stage # "done"
  BY <1>1 DEF Sha1Inv
<1>3. PICK p \in Nat : HashingInv(p)
  BY <1>2 DEF Sha1Inv
<1>4. MessageInv /\ StageInv(p) /\ PlaceInv(p) /\ CountInv(p)
  BY <1>3 DEF Sha1Inv, HashingInv
<1>5. PICK q \in Nat : q = p + Len(data)
  BY <1>4, DataCells
<1>6. PlaceInv(q)'
  BY <1>4, <1>5, UpdatePlace
<1>7. context'.count = context.count /\ context.count[1] = (q * CellBits) % WordSize
      /\ (stage = "message" => context.count[2] = Hi)
  <2>1. used # -1
    BY <1>1
  <2>2. context'.count = context.count
    BY <1>1, <1>4 DEF Kept, PlaceInv
  <2> QED
    BY <1>4, <1>5, <2>1, <2>2 DEF CountInv, CountedTo
<1>8. /\ Bytes \in Nat /\ LengthAt \in Nat /\ LengthAt > Bytes
  BY <1>4, Lengths
<1>9. stage' # "message" /\ stage' # "done"
  BY <1>1 DEF NextPiece
<1>10. CountInv(q)'
  BY <1>1, <1>7, <1>9 DEF CountInv, CountedTo
<1>11. Bytes' = Bytes /\ Hi' = Hi /\ Lo' = Lo /\ LengthAt' = LengthAt /\ MessageInv'
  BY <1>1, <1>4, SameCells
<1>12. ASSUME stage \in {"one", "zeros"} PROVE q > Bytes /\ q <= LengthAt /\ finalcount = <<Hi, Lo>>
  <2>1. CASE stage = "one"
    <3>1. p = Bytes /\ data = <<"1">> /\ finalcount = <<Hi, Lo>>
      BY <1>4, <2>1 DEF StageInv
    <3>2. q = p + 1
      BY <1>5, <3>1
    <3> QED
      BY <1>8, <3>1, <3>2
  <2>2. CASE stage = "zeros"
    <3>1. p > Bytes /\ p < LengthAt /\ data = <<"0">> /\ finalcount = <<Hi, Lo>>
      BY <1>4, <2>2 DEF StageInv
    <3>2. q = p + 1
      BY <1>5, <3>1
    <3> QED
      BY <1>8, <3>1, <3>2
  <2> QED
    BY <1>12, <2>1, <2>2
<1>13. ASSUME stage \in {"one", "zeros"} PROVE Padded <=> q = LengthAt
  BY <1>4, <1>7, <1>12, <1>13, PaddedAt DEF Padded
<1>14. StageInv(q)'
  <2>1. CASE stage = "message"
    <3>1. stage' = "one" /\ data' = <<"1">> /\ finalcount' = <<context.count[2], context.count[1]>>
      BY <1>1, <2>1 DEF NextPiece
    <3>2. q = Bytes
      BY <1>4, <1>5, <1>8, <2>1 DEF StageInv, Bytes
    <3>3. finalcount' = <<Hi, Lo>>
      BY <1>7, <2>1, <3>1, <3>2 DEF Lo
    <3> QED
      BY <1>11, <3>1, <3>2, <3>3 DEF StageInv
  <2>2. CASE stage \in {"one", "zeros"} /\ ~Padded
    <3>1. stage' = "zeros" /\ data' = <<"0">> /\ finalcount' = finalcount
      BY <1>1, <2>2 DEF NextPiece
    <3>2. q > Bytes /\ q < LengthAt /\ finalcount = <<Hi, Lo>>
      BY <1>8, <1>12, <1>13, <2>2
    <3> QED
      BY <1>11, <3>1, <3>2 DEF StageInv
  <2>3. CASE stage \in {"one", "zeros"} /\ Padded
    <3>1. stage' = "length" /\ data' = finalcount /\ finalcount' = finalcount
      BY <1>1, <2>3 DEF NextPiece
    <3>2. q = LengthAt /\ finalcount = <<Hi, Lo>>
      BY <1>12, <1>13, <2>3
    <3> QED
      BY <1>11, <3>1, <3>2 DEF StageInv
  <2> QED
    BY <1>1, <2>1, <2>2, <2>3 DEF NextPiece
<1>15. HashingInv(q)'
  BY <1>6, <1>10, <1>14 DEF HashingInv
<1> QED
  BY <1>9, <1>11, <1>15 DEF Sha1Inv

(* All that was padded is a whole number of blocks. *)
LEMMA SHA1FinalKeeps == Sha1Inv /\ SHA1Final => Sha1Inv'
<1> SUFFICES ASSUME Sha1Inv, SHA1Final PROVE Sha1Inv'
  OBVIOUS
<1>1. used > 0 /\ stage = "length" /\ digest' = context.state /\ used' = -1 /\ stage' = "done" /\ message' = message
  BY DEF SHA1Final
<1>2. PICK p \in Nat : HashingInv(p)
  BY <1>1 DEF Sha1Inv
<1>3. MessageInv /\ StageInv(p) /\ PlaceInv(p)
  BY <1>2 DEF Sha1Inv, HashingInv
<1>4. Len(data) = LengthCells /\ p = LengthAt
  BY <1>1, <1>3, DataCells DEF StageInv
<1>5. PICK t \in Nat \ {0} : LengthAt + LengthCells = t * BlockCells
  BY <1>3, Lengths
<1>6. PICK L \in Nat : L = Len(context.state) /\ context.state = FirstBlocks(L)
                       /\ p + used = L * BlockCells /\ used \in 1 .. LengthCells
  BY <1>1, <1>3, <1>4 DEF PlaceInv, Compressed, LengthCells
<1>7. PICK x \in Nat, y \in Nat : x = L * BlockCells /\ y = t * BlockCells /\ y - x \in Nat /\ y - x < BlockCells
  <2>1. PICK x \in Nat, y \in Nat : x = L * BlockCells /\ y = t * BlockCells
    BY SomeCells
  <2>2. y = p + LengthCells /\ x = p + used
    BY <1>4, <1>5, <1>6, <2>1
  <2>3. y - x = LengthCells - used
    BY <1>6, <2>2 DEF LengthCells
  <2>4. y - x \in Nat /\ y - x < BlockCells
    <3>1. y - x = 0 \/ y - x = 1
      BY <1>6, <2>3 DEF LengthCells
    <3> QED
      BY <3>1, SomeCells DEF LengthCells
  <2> QED
    BY <2>1, <2>4
<1>8. L = t
  <2>1. ~(L < t)
    <3> SUFFICES ASSUME L < t PROVE FALSE
      OBVIOUS
    <3>1. x + BlockCells <= y
      BY <1>7, CellsApart
    <3> QED
      BY <1>7, <3>1
  <2>2. ~(t < L)
    <3> SUFFICES ASSUME t < L PROVE FALSE
      OBVIOUS
    <3>1. y + BlockCells <= x
      BY <1>7, CellsApart
    <3> QED
      BY <1>7, <3>1, SomeCells
  <2> QED
    BY <2>1, <2>2
<1>9. digest' = Message(message)
  BY <1>1, <1>3, <1>5, <1>6, <1>8, MessageBlocks
<1>10. Message(message)' = Message(message) /\ MessageInv'
  BY <1>1, <1>3, SameCells DEF Message, Zeros
<1> QED
  BY <1>1, <1>9, <1>10 DEF Sha1Inv

-----------------------------------------------------------------------------
(***************************************************************************)
(* The digest is of the whole message, padded with its length, for blocks  *)
(* and batches of any size and messages of any length that two words count *)
(* (SHA1Update, SHA1Final): HashesMessage, from Sha1Inv.                   *)
(***************************************************************************)
THEOREM HashesMessageAlways == Sha1Spec => []HashesMessage
<1>1. Sha1Inv /\ [Sha1Next]_sha1Vars => Sha1Inv'
  <2> SUFFICES ASSUME Sha1Inv, [Sha1Next]_sha1Vars PROVE Sha1Inv'
    OBVIOUS
  <2>1. CASE UNCHANGED sha1Vars
    <3>1. UNCHANGED <<message, context, data, used, stage, finalcount, digest>>
      BY <2>1 DEF sha1Vars
    <3>2. MessageInv' /\ Message(message)' = Message(message)
      BY <3>1, SameCells DEF Sha1Inv, Message, Zeros
    <3>3. ASSUME NEW p \in Nat, HashingInv(p) PROVE HashingInv(p)'
      <4>1. StageInv(p)'
        BY <3>1, <3>3, SameCells DEF HashingInv, StageInv
      <4>2. PlaceInv(p)'
        <5>1. (Buffered(p - Compressed) <=> Buffered(p - Compressed)') /\ Compressed' = Compressed
          BY <3>1, SameCells DEF Buffered, Compressed
        <5> QED
          BY <3>1, <3>3, <5>1, SameCells DEF HashingInv, PlaceInv
      <4>3. CountInv(p)'
        BY <3>1, <3>3, SameCells DEF HashingInv, CountInv, CountedTo
      <4> QED
        BY <4>1, <4>2, <4>3 DEF HashingInv
    <3> QED
      BY <3>1, <3>2, <3>3 DEF Sha1Inv
  <2> QED
    BY <2>1, BeginKeeps, BiggerBlocksKeeps, UpdateKeeps, SHA1FinalKeeps DEF Sha1Next
<1>2. Sha1Inv => HashesMessage
  BY DEF Sha1Inv, HashesMessage
<1> QED
  BY <1>1, <1>2, Sha1InitOk, PTL DEF Sha1Spec

-----------------------------------------------------------------------------
(***************************************************************************)
(* The console's file system.  While the chip is searched the superblock   *)
(* in memory is the best of those read (ScanInv), and after that the       *)
(* newest (ChosenInv).  While a path is looked up, nodes that lead to the  *)
(* one looked at are known, and a file that has the path is in the rest of *)
(* the list (LookInv); that gives the file that was opened, and none if    *)
(* none was (FoundInv).  What is read of it so far is its bytes, and       *)
(* cur_cluster follows the offset along the file's chain (FileIs), while   *)
(* nandfs_seek skips clusters too.                                         *)
(***************************************************************************)
NfTypes ==
    /\ nand \in Images /\ initialized \in BOOLEAN
    /\ call \in {"none", "initialize", "open", "read", "seek"} /\ todo \in Nat
    /\ fp = [first_cluster |-> fp.first_cluster, cur_cluster |-> fp.cur_cluster,
             size |-> fp.size, offset |-> fp.offset]
    /\ fp.size \in Nat /\ fp.offset \in 0 .. fp.size
    /\ answer = [at |-> answer.at, count |-> answer.count, bytes |-> answer.bytes]
    /\ answer.at \in 0 .. fp.size /\ answer.count \in Nat
    /\ answer.bytes \in Seq({answer.bytes[k] : k \in DOMAIN answer.bytes})
    /\ names \in Paths \cup {<<>>}
    /\ path # <<>> => path = names

(* The choice among the first n clusters. *)
BestSuper(n) ==
    IF sffs = NoSuper THEN \A j \in 1 .. n : nand[j] = NoSuper
    ELSE \E i \in 1 .. n :
            /\ sffs = nand[i]
            /\ \A j \in 1 .. n :
                  nand[j].version <= nand[i].version /\ (j < i => nand[j].version < nand[i].version)
ScanInv == call = "initialize" => todo <= Len(nand) /\ BestSuper(Len(nand) - todo)

HasNewest == \E i \in DOMAIN nand : IsNewest(i)
ChosenInv == initialized => HasNewest /\ (call # "initialize" => sffs = Newest)

Parent(nodes, i) == IF i = 1 THEN 0 ELSE nodes[i - 1]
Depth == Len(names) - todo + 1
LeadsHere(nodes) ==
    /\ \A i \in 1 .. Depth - 1 :
          Newest.files[nodes[i]].name = names[i] /\ nodes[i] \in Entries(Parent(nodes, i))
    /\ cur # Nil => cur \in Entries(Parent(nodes, Depth))
Wanted(nodes) == Leads(nodes, names) /\ Newest.files[nodes[Len(names)]].kind = "file"
LookInv == call = "open" =>
    /\ initialized /\ names # <<>> /\ todo \in 1 .. Len(names) /\ path = <<>> /\ answer = NoAnswer
    /\ cur \in Nodes \cup {Nil}
    /\ \E walk \in [DOMAIN names -> Nodes] :
          /\ LeadsHere(walk)
          /\ Unambiguous => \A nodes \in [DOMAIN names -> Nodes] : Wanted(nodes) =>
                (\A i \in 1 .. Depth - 1 : nodes[i] = walk[i]) /\ nodes[Depth] \in Siblings(cur)

FoundInv ==
    /\ path # <<>> \/ names # <<>> => initialized
    /\ call # "open" /\ path = <<>> /\ names # <<>> /\ Unambiguous => Files(names) = {}

Due == IF answer.count < fp.size - answer.at THEN answer.count ELSE fp.size - answer.at
AnswerInv ==
    /\ call = "read" => answer.at + Len(answer.bytes) = fp.offset /\ Len(answer.bytes) + todo = Due
    /\ call # "read" => Len(answer.bytes) = Due
    /\ path = <<>> => fp.size = 0

(* Where cur_cluster is. *)
Skipping(node) == \E n, m \in Nat :
    /\ m = n * ClusterSize /\ fp.offset = m + todo
    /\ fp.cur_cluster = Chain(Newest.files[node].first)[n]
Following(node) ==
    /\ call # "seek" => \A o \in Nat : o = fp.offset => fp.cur_cluster = ClusterAt(node, o)
    /\ call = "seek" => Skipping(node) /\ (fp.offset = 0 \/ fp.offset % ClusterSize # 0)
Answers(node) == \A k \in DOMAIN answer.bytes, o \in Nat :
    o = answer.at + k - 1 => answer.bytes[k] = ByteAt(node, o)
FileIs(node) ==
    /\ fp.size = Newest.files[node].size /\ fp.first_cluster = Newest.files[node].first
    /\ straight => Answers(node) /\ Following(node)
FileInv == path # <<>> => \E node \in Files(path) : FileIs(node)

NandFsInv == NfTypes /\ ScanInv /\ ChosenInv /\ LookInv /\ FoundInv /\ AnswerInv /\ FileInv

-----------------------------------------------------------------------------
(* Induction over the natural numbers, stated with sets: what the library  *)
(* states with an operator for a parameter follows from least elements.    *)
LEMMA LeastNat ==
    ASSUME NEW T, T \subseteq Nat, T # {}
    PROVE  \E n \in T : \A m \in T : n <= m
<1>1. PICK n \in T : \A m \in T : <<m, n>> \notin OpToRel(<, Nat)
  BY NatLessThanWellFounded, WFMin
<1>2. ASSUME NEW m \in T, m < n PROVE FALSE
  <2>1. <<m, n>> \in Nat \X Nat /\ <<m, n>>[1] < <<m, n>>[2]
    BY <1>2
  <2>2. <<m, n>> \in {ss \in Nat \X Nat : ss[1] < ss[2]}
    BY <2>1
  <2>3. OpToRel(<, Nat) = {ss \in Nat \X Nat : ss[1] < ss[2]}
    BY Zenon DEF OpToRel
  <2> QED
    BY <1>1, <2>2, <2>3
<1> QED
  BY <1>2

LEMMA Induction ==
    ASSUME NEW S, 0 \in S, \A n \in Nat : n \in S => n + 1 \in S
    PROVE  Nat \subseteq S
<1> DEFINE T == Nat \ S
<1> SUFFICES ASSUME T # {} PROVE FALSE
  OBVIOUS
<1>1. PICK n \in T : \A m \in T : n <= m
  BY LeastNat
<1>2. n # 0 /\ n - 1 \in Nat /\ n - 1 \notin T
  BY <1>1
<1> QED
  BY <1>2

(* The recursive function of Chain exists: its first values do, they agree *)
(* with each other, and it is made of the last value of each.              *)
Linked(f, link, x, n) == f = [i \in 0 .. n |-> IF i = 0 THEN x ELSE link[f[i - 1]]]

LEMMA LinkedStep ==
    ASSUME NEW link, NEW x, NEW n \in Nat, NEW f, Linked(f, link, x, n)
    PROVE  \E g : Linked(g, link, x, n + 1)
<1> DEFINE g == [i \in 0 .. n + 1 |-> IF i <= n THEN f[i] ELSE link[f[i - 1]]]
           h == [i \in 0 .. n + 1 |-> IF i = 0 THEN x ELSE link[g[i - 1]]]
<1>1. \A i \in 0 .. n : g[i] = f[i]
  OBVIOUS
<1>2. \A i \in 0 .. n : f[i] = IF i = 0 THEN x ELSE link[f[i - 1]]
  BY DEF Linked
<1>3. \A i \in 0 .. n + 1 : g[i] = h[i]
  <2> SUFFICES ASSUME NEW i \in 0 .. n + 1 PROVE g[i] = h[i]
    OBVIOUS
  <2>1. i # 0 => i - 1 \in 0 .. n /\ g[i - 1] = f[i - 1]
    BY <1>1
  <2> QED
    BY <1>2, <2>1
<1>4. g = h
  BY <1>3
<1> QED
  BY <1>4 DEF Linked

LEMMA LinkedExists ==
    ASSUME NEW link, NEW x, NEW n \in Nat
    PROVE  \E f : Linked(f, link, x, n)
<1> DEFINE S == {m \in Nat : \E f : Linked(f, link, x, m)}
<1>1. 0 \in S
  <2>1. Linked([i \in 0 .. 0 |-> x], link, x, 0)
    BY DEF Linked
  <2> QED
    BY <2>1
<1>2. \A m \in Nat : m \in S => m + 1 \in S
  BY LinkedStep
<1>3. Nat \subseteq S
  <2> HIDE DEF S
  <2> QED
    BY <1>1, <1>2, Induction
<1> QED
  BY <1>3

LEMMA LinkedAgree ==
    ASSUME NEW link, NEW x, NEW n \in Nat, NEW m \in Nat, n <= m,
           NEW f, Linked(f, link, x, n), NEW g, Linked(g, link, x, m)
    PROVE  f[n] = g[n]
<1> DEFINE S == {i \in Nat : i <= n => f[i] = g[i]}
<1>1. /\ \A i \in 0 .. n : f[i] = IF i = 0 THEN x ELSE link[f[i - 1]]
      /\ \A i \in 0 .. m : g[i] = IF i = 0 THEN x ELSE link[g[i - 1]]
  BY DEF Linked
<1>2. 0 \in S
  BY <1>1
<1>3. \A i \in Nat : i \in S => i + 1 \in S
  <2> SUFFICES ASSUME NEW i \in Nat, i \in S, i + 1 <= n PROVE f[i + 1] = g[i + 1]
    OBVIOUS
  <2>1. i + 1 \in 0 .. n /\ i + 1 \in 0 .. m /\ i + 1 # 0 /\ i + 1 - 1 = i /\ f[i] = g[i]
    OBVIOUS
  <2>2. f[i + 1] = link[f[i]] /\ g[i + 1] = link[g[i]]
    BY <1>1, <2>1
  <2> QED
    BY <2>1, <2>2
<1>4. Nat \subseteq S
  <2> HIDE DEF S
  <2> QED
    BY <1>2, <1>3, Induction
<1> QED
  BY <1>4

(* What Chain does: it begins with the cluster and follows the table. *)
LEMMA ChainFollows ==
    ASSUME NEW x
    PROVE  /\ Chain(x)[0] = x
           /\ \A n \in Nat : Chain(x)[n + 1] = Newest.table[Chain(x)[n]]
<1> DEFINE link == Newest.table
           F == [n \in Nat |-> (CHOOSE f : Linked(f, link, x, n))[n]]
           G == [n \in Nat |-> IF n = 0 THEN x ELSE link[F[n - 1]]]
<1> HIDE DEF link
<1>1. \A n \in Nat : Linked(CHOOSE f : Linked(f, link, x, n), link, x, n)
  BY LinkedExists
<1>2. \A n \in Nat : F[n] = G[n]
  <2> SUFFICES ASSUME NEW n \in Nat PROVE F[n] = G[n]
    OBVIOUS
  <2>1. PICK f : f = (CHOOSE h : Linked(h, link, x, n)) /\ Linked(f, link, x, n) /\ F[n] = f[n]
    BY <1>1
  <2>2. f[n] = IF n = 0 THEN x ELSE link[f[n - 1]]
    <3>1. n \in 0 .. n
      OBVIOUS
    <3>2. \A i \in 0 .. n : f[i] = IF i = 0 THEN x ELSE link[f[i - 1]]
      BY <2>1 DEF Linked
    <3> QED
      BY <3>1, <3>2
  <2>3. CASE n = 0
    BY <2>1, <2>2, <2>3
  <2>4. CASE n # 0
    <3>1. n - 1 \in Nat /\ n - 1 <= n
      BY <2>4
    <3>2. PICK g : g = (CHOOSE h : Linked(h, link, x, n - 1)) /\ Linked(g, link, x, n - 1) /\ F[n - 1] = g[n - 1]
      BY <1>1, <3>1
    <3>3. g[n - 1] = f[n - 1]
      BY <2>1, <3>1, <3>2, LinkedAgree
    <3> HIDE DEF F
    <3> QED
      BY <2>1, <2>2, <2>4, <3>2, <3>3
  <2> QED
    BY <2>3, <2>4
<1>3. F = [n \in Nat |-> IF n = 0 THEN x ELSE Newest.table[F[n - 1]]]
  <2>1. F = G
    BY <1>2
  <2> HIDE DEF F
  <2> QED
    BY <2>1 DEF link
<1>4. \E f : f = [n \in Nat |-> IF n = 0 THEN x ELSE Newest.table[f[n - 1]]]
  <2> HIDE DEF F
  <2> QED
    BY <1>3
<1>5. Chain(x) = [n \in Nat |-> IF n = 0 THEN x ELSE Newest.table[Chain(x)[n - 1]]]
  <2> DEFINE found == CHOOSE f : f = [n \in Nat |-> IF n = 0 THEN x ELSE Newest.table[f[n - 1]]]
  <2>1. found = [n \in Nat |-> IF n = 0 THEN x ELSE Newest.table[found[n - 1]]]
    BY <1>4
  <2>2. Chain(x) = found
    BY Zenon DEF Chain
  <2> HIDE DEF found
  <2> QED
    BY <2>1, <2>2
<1>6. Chain(x)[0] = x
  BY <1>5
<1>7. ASSUME NEW n \in Nat PROVE Chain(x)[n + 1] = Newest.table[Chain(x)[n]]
  <2>1. n + 1 \in Nat /\ n + 1 # 0 /\ n + 1 - 1 = n
    OBVIOUS
  <2> QED
    BY <1>5, <2>1
<1> QED
  BY <1>6, <1>7

-----------------------------------------------------------------------------
(* Superblocks.  The newest of them is one. *)
LEMMA NewestIs ==
    ASSUME NEW i \in DOMAIN nand, IsNewest(i), nand \in Images
    PROVE  Newest = nand[i] /\ Sound(Newest)
<1>1. nand \in Seq({nand[j] : j \in DOMAIN nand}) /\ \A j \in DOMAIN nand : nand[j] = NoSuper \/ Sound(nand[j])
  BY NandFsAssumption
<1>2. DOMAIN nand = 1 .. Len(nand) /\ Len(nand) \in Nat
  BY <1>1
<1>3. \A j \in DOMAIN nand : nand[j].version \in Int
  BY <1>1 DEF Sound, NoSuper, Nil
<1>4. ASSUME NEW j \in DOMAIN nand, IsNewest(j) PROVE j = i
  <2>1. nand[j].version <= nand[i].version /\ nand[i].version <= nand[j].version
    BY <1>4 DEF IsNewest
  <2>2. ~(j < i) /\ ~(i < j)
    <3>1. nand[i].version \in Int /\ nand[j].version \in Int
      BY <1>3
    <3>2. (j < i => nand[j].version < nand[i].version) /\ (i < j => nand[i].version < nand[j].version)
      BY <1>4 DEF IsNewest
    <3> QED
      BY <2>1, <3>1, <3>2
  <2> QED
    BY <1>2, <2>2
<1>5. (CHOOSE j \in DOMAIN nand : IsNewest(j)) = i
  BY <1>4
<1>6. Newest = nand[i]
  BY <1>5 DEF Newest
<1> QED
  BY <1>1, <1>6 DEF IsNewest

LEMMA ChipFacts ==
    ASSUME nand \in Images
    PROVE  /\ Len(nand) \in Nat /\ DOMAIN nand = 1 .. Len(nand)
           /\ \A j \in DOMAIN nand : nand[j] = NoSuper \/ Sound(nand[j])
<1>1. nand \in Seq({nand[j] : j \in DOMAIN nand}) /\ \A j \in DOMAIN nand : nand[j] = NoSuper \/ Sound(nand[j])
  BY NandFsAssumption
<1> QED
  BY <1>1

LEMMA NewestSound == ASSUME NandFsInv, initialized PROVE Sound(Newest)
BY NewestIs DEF NandFsInv, NfTypes, ChosenInv, HasNewest

(* The nodes of a superblock. *)
LEMMA NodeFacts ==
    ASSUME Sound(Newest)
    PROVE  /\ Nodes \subseteq Nat /\ 0 \in Nodes /\ Nil \notin Nodes
           /\ Newest.files[0].kind = "dir"
           /\ \A n \in Nodes :
                 /\ Newest.files[n].size \in Nat /\ Newest.files[n].sibling \in Nodes \cup {Nil}
                 /\ Newest.files[n].kind = "dir" => Newest.files[n].first \in Nodes \cup {Nil}
BY DEF Sound, Nodes, Nil

(* A list begins with its head, goes on with the next one, and has nothing *)
(* but its head and the list from there.                                   *)
LEMMA ListHead == ASSUME NEW n \in Nodes PROVE n \in Siblings(n)
BY DEF Siblings

LEMMA ListGoesOn ==
    ASSUME Sound(Newest), NEW head, NEW n \in Siblings(head), Newest.files[n].sibling # Nil
    PROVE  Newest.files[n].sibling \in Siblings(head)
<1>1. n \in Nodes /\ n # Nil /\ Newest.files[n].sibling \in Nodes
  BY NodeFacts DEF Siblings
<1>2. ASSUME NEW set \in SUBSET (Nodes \cup {Nil}), head \in set, Closed(set)
      PROVE  Newest.files[n].sibling \in set
  <2>1. n \in set
    BY <1>2 DEF Siblings
  <2> QED
    BY <1>1, <1>2, <2>1 DEF Closed
<1> QED
  BY <1>1, <1>2 DEF Siblings

LEMMA ListRest ==
    ASSUME Sound(Newest), NEW n \in Nodes, NEW m \in Siblings(n), m # n
    PROVE  m \in Siblings(Newest.files[n].sibling)
<1>1. m \in Nodes
  BY DEF Siblings
<1>2. ASSUME NEW set \in SUBSET (Nodes \cup {Nil}), Newest.files[n].sibling \in set, Closed(set)
      PROVE  m \in set
  <2>1. set \cup {n} \in SUBSET (Nodes \cup {Nil}) /\ n \in set \cup {n}
    OBVIOUS
  <2>2. Closed(set \cup {n})
    BY <1>2 DEF Closed
  <2>3. m \in set \cup {n}
    BY <2>1, <2>2 DEF Siblings
  <2> QED
    BY <2>3
<1> QED
  BY <1>1, <1>2 DEF Siblings

LEMMA NoList == ASSUME Sound(Newest) PROVE Siblings(Nil) = {}
<1>1. Closed({Nil}) /\ {Nil} \in SUBSET (Nodes \cup {Nil})
  BY DEF Closed
<1>2. Nil \notin Nodes
  BY NodeFacts
<1> QED
  BY <1>1, <1>2 DEF Siblings

LEMMA EntryNodes == ASSUME NEW dir PROVE Entries(dir) \subseteq Nodes
BY DEF Entries, Siblings

-----------------------------------------------------------------------------
(* Offsets. *)
LEMMA OffsetDivision ==
    ASSUME NEW n \in Nat
    PROVE  /\ n \div ClusterSize \in Nat /\ n % ClusterSize \in 0 .. ClusterSize - 1
           /\ n = (n \div ClusterSize) * ClusterSize + (n % ClusterSize)
BY NandFsAssumption

LEMMA ClustersApart ==
    ASSUME NEW a \in Nat, NEW b \in Nat, a < b PROVE a * ClusterSize + ClusterSize <= b * ClusterSize
<1>0. ClusterSize \in Nat
  BY NandFsAssumption
<1>1. a + 1 <= b
  OBVIOUS
<1>2. (a + 1) * ClusterSize <= b * ClusterSize
  BY <1>0, <1>1
<1>3. (a + 1) * ClusterSize = a * ClusterSize + ClusterSize
  BY <1>0
<1> QED
  BY <1>2, <1>3

LEMMA OffsetOf ==
    ASSUME NEW a \in Nat, NEW m \in Nat, m = a * ClusterSize, NEW r \in 0 .. ClusterSize - 1
    PROVE  (m + r) \div ClusterSize = a /\ (m + r) % ClusterSize = r
<1>0. ClusterSize \in Nat \ {0}
  BY NandFsAssumption
<1>1. PICK b \in Nat, k \in Nat, t \in 0 .. ClusterSize - 1 :
          b = (m + r) \div ClusterSize /\ t = (m + r) % ClusterSize /\ k = b * ClusterSize /\ m + r = k + t
  <2>1. m + r \in Nat
    BY <1>0
  <2>2. PICK b \in Nat, t \in 0 .. ClusterSize - 1 :
            b = (m + r) \div ClusterSize /\ t = (m + r) % ClusterSize /\ m + r = b * ClusterSize + t
    BY <2>1, OffsetDivision
  <2>3. PICK k \in Nat : k = b * ClusterSize
    BY <1>0
  <2> QED
    BY <2>2, <2>3
<1>2. ~(a < b)
  <2>1. a < b => m + ClusterSize <= k
    BY <1>1, ClustersApart
  <2> QED
    BY <1>0, <1>1, <2>1
<1>3. ~(b < a)
  <2>1. b < a => k + ClusterSize <= m
    BY <1>1, ClustersApart
  <2> QED
    BY <1>0, <1>1, <2>1
<1>4. a = b
  BY <1>2, <1>3
<1>5. m = k
  BY <1>1, <1>4
<1> QED
  BY <1>0, <1>1, <1>4, <1>5

(* Past the end of its cluster an offset is in the next one. *)
LEMMA NextOffset ==
    ASSUME NEW o \in Nat, NEW n \in Nat \ {0}, (o % ClusterSize) + n <= ClusterSize
    PROVE  /\ (o + n) \div ClusterSize = IF (o % ClusterSize) + n = ClusterSize
                                         THEN (o \div ClusterSize) + 1 ELSE o \div ClusterSize
           /\ \A j \in 0 .. n - 1 : /\ (o + j) \div ClusterSize = o \div ClusterSize
                                    /\ (o + j) % ClusterSize = (o % ClusterSize) + j
<1>0. ClusterSize \in Nat \ {0}
  BY NandFsAssumption
<1>1. PICK a \in Nat, m \in Nat, r \in 0 .. ClusterSize - 1 :
          a = o \div ClusterSize /\ r = o % ClusterSize /\ m = a * ClusterSize /\ o = m + r
  <2>1. PICK a \in Nat, r \in 0 .. ClusterSize - 1 :
            a = o \div ClusterSize /\ r = o % ClusterSize /\ o = a * ClusterSize + r
    BY OffsetDivision
  <2>2. PICK m \in Nat : m = a * ClusterSize
    BY <1>0
  <2> QED
    BY <2>1, <2>2
<1>2. ASSUME NEW j \in 0 .. n, r + j < ClusterSize
      PROVE  (o + j) \div ClusterSize = a /\ (o + j) % ClusterSize = r + j
  <2>1. PICK t \in 0 .. ClusterSize - 1 : t = r + j
    BY <1>0, <1>2
  <2>2. (m + t) \div ClusterSize = a /\ (m + t) % ClusterSize = t
    BY <1>1, OffsetOf
  <2>3. m + t = o + j
    <3>1. r \in Nat /\ t \in Nat /\ j \in Nat /\ o = m + r
      BY <1>0, <1>1
    <3> QED
      BY <2>1, <3>1
  <2> QED
    BY <2>1, <2>2, <2>3
<1>3. CASE r + n = ClusterSize
  <2>1. PICK b \in Nat, k \in Nat : b = a + 1 /\ k = b * ClusterSize /\ k = o + n
    <3>1. (a + 1) * ClusterSize = m + ClusterSize
      BY <1>0, <1>1
    <3>2. m + ClusterSize = o + n /\ o + n \in Nat /\ a + 1 \in Nat
      BY <1>0, <1>1, <1>3
    <3> QED
      BY <3>1, <3>2
  <2>2. (k + 0) \div ClusterSize = b
    <3>1. 0 \in 0 .. ClusterSize - 1
      BY <1>0
    <3> QED
      BY <2>1, <3>1, OffsetOf
  <2>3. (o + n) \div ClusterSize = a + 1
    BY <2>1, <2>2
  <2>4. \A j \in 0 .. n - 1 : j \in 0 .. n /\ r + j < ClusterSize
    BY <1>3
  <2> QED
    BY <1>1, <1>2, <1>3, <2>3, <2>4
<1>4. CASE r + n # ClusterSize
  <2>1. \A j \in 0 .. n : r + j < ClusterSize
    BY <1>0, <1>1, <1>4
  <2>2. n \in 0 .. n /\ \A j \in 0 .. n - 1 : j \in 0 .. n
    OBVIOUS
  <2>3. (o + n) \div ClusterSize = a
    BY <1>2, <2>1, <2>2
  <2> QED
    BY <1>1, <1>2, <1>4, <2>1, <2>2, <2>3
<1> QED
  BY <1>3, <1>4

-----------------------------------------------------------------------------
(* The chip stays, and what it holds. *)
LEMMA ChipStays ==
    ASSUME nand' = nand
    PROVE  /\ Newest' = Newest /\ Nodes' = Nodes /\ (Unambiguous' <=> Unambiguous)
           /\ (HasNewest' <=> HasNewest)
           /\ \A x : Siblings(x)' = Siblings(x) /\ Entries(x)' = Entries(x) /\ Chain(x)' = Chain(x)
           /\ \A to : Files(to)' = Files(to) /\ \A nodes : Leads(nodes, to)' <=> Leads(nodes, to)
           /\ \A node, o : ClusterAt(node, o)' = ClusterAt(node, o) /\ ByteAt(node, o)' = ByteAt(node, o)
<1>1. Newest' = Newest /\ (HasNewest' <=> HasNewest)
  BY DEF Newest, IsNewest, HasNewest
<1>2. Nodes' = Nodes
  BY <1>1 DEF Nodes
<1>3. \A x : Siblings(x)' = Siblings(x)
  BY <1>1, <1>2 DEF Siblings, Closed
<1>4. \A x : Entries(x)' = Entries(x)
  BY <1>1, <1>3 DEF Entries
<1>5. Unambiguous' <=> Unambiguous
  BY <1>1, <1>2, <1>4 DEF Unambiguous
<1>6. \A x : Chain(x)' = Chain(x)
  BY <1>1 DEF Chain
<1>7. \A to, nodes : Leads(nodes, to)' <=> Leads(nodes, to)
  BY <1>1, <1>4 DEF Leads
<1>8. \A to : Files(to)' = Files(to)
  BY <1>1, <1>2, <1>7 DEF Files
<1>9. \A node, o : ClusterAt(node, o)' = ClusterAt(node, o) /\ ByteAt(node, o)' = ByteAt(node, o)
  BY <1>1, <1>6 DEF ClusterAt, ByteAt, Byte
<1> QED
  BY <1>1, <1>2, <1>3, <1>4, <1>5, <1>6, <1>7, <1>8, <1>9

LEMMA NandFsInitOk == NandFsInit => NandFsInv
<1> SUFFICES ASSUME NandFsInit PROVE NandFsInv
  OBVIOUS
<1>1. NfTypes
  <2>1. answer.bytes \in Seq({answer.bytes[k] : k \in DOMAIN answer.bytes})
    BY DEF NandFsInit, NoAnswer
  <2>2. /\ fp = [first_cluster |-> fp.first_cluster, cur_cluster |-> fp.cur_cluster,
                  size |-> fp.size, offset |-> fp.offset]
        /\ fp.size = 0 /\ fp.offset = 0
    BY DEF NandFsInit, NoFile
  <2>3. /\ answer = [at |-> answer.at, count |-> answer.count, bytes |-> answer.bytes]
        /\ answer.at = 0 /\ answer.count = 0
    BY DEF NandFsInit, NoAnswer
  <2>4. /\ nand \in Images /\ initialized \in BOOLEAN /\ call = "none" /\ todo \in Nat
        /\ names = <<>> /\ path = <<>>
    BY DEF NandFsInit
  <2>5. 0 \in 0 .. 0 /\ 0 \in Nat
    OBVIOUS
  <2> QED
    BY ONLY <2>1, <2>2, <2>3, <2>4, <2>5 DEF NfTypes
<1>2. ScanInv /\ ChosenInv /\ LookInv /\ FoundInv /\ FileInv
  BY DEF NandFsInit, ScanInv, ChosenInv, LookInv, FoundInv, FileInv
<1>3. AnswerInv
  BY DEF NandFsInit, AnswerInv, Due, NoFile, NoAnswer
<1> QED
  BY <1>1, <1>2, <1>3 DEF NandFsInv

(* What is known of the file, when a step leaves it alone. *)
LEMMA FileKept ==
    ASSUME FileInv, UNCHANGED <<nand, fp, path, straight>>, call # "seek", call' # "seek",
           answer' = answer \/ answer'.bytes = <<>>
    PROVE  FileInv'
<1> SUFFICES ASSUME path # <<>> PROVE \E node \in Files(path)' : FileIs(node)'
  BY DEF FileInv
<1>1. PICK node \in Files(path) : FileIs(node)
  BY DEF FileInv
<1>2. node \in Files(path)'
  <2>1. PICK to : to = path /\ to = path'
    OBVIOUS
  <2>2. Files(to)' = Files(to)
    BY ChipStays
  <2> QED
    BY <1>1, <2>1, <2>2
<1>3. FileIs(node)'
  <2>1. straight => Answers(node)'
    <3>1. \A o : ByteAt(node, o)' = ByteAt(node, o)
      BY ChipStays
    <3>2. CASE answer' = answer
      BY <1>1, <3>1, <3>2 DEF FileIs, Answers
    <3>3. CASE answer'.bytes = <<>>
      BY <3>3 DEF Answers
    <3> QED
      BY <3>2, <3>3
  <2>2. straight => Following(node)'
    <3>1. \A o : ClusterAt(node, o)' = ClusterAt(node, o)
      BY ChipStays
    <3> QED
      BY <1>1, <3>1 DEF FileIs, Following
  <2> QED
    BY <1>1, <2>1, <2>2, ChipStays DEF FileIs
<1> QED
  BY <1>2, <1>3

(* A step that leaves the path alone and is not of nandfs_open. *)
LEMMA FoundKept ==
    ASSUME FoundInv, UNCHANGED <<nand, path, names>>, initialized => initialized', call # "open"
    PROVE  FoundInv'
<1>1. PICK to : to = names /\ to = names'
  OBVIOUS
<1>2. Files(to)' = Files(to) /\ (Unambiguous' <=> Unambiguous)
  BY ChipStays
<1> QED
  BY <1>1, <1>2 DEF FoundInv

LEMMA NothingDue == ASSUME NfTypes, answer' = NoAnswer, fp'.size \in Nat PROVE Due' = 0 /\ Len(answer'.bytes) = 0
BY DEF Due, NoAnswer

-----------------------------------------------------------------------------
LEMMA nandfs_initializeKeeps == NandFsInv /\ nandfs_initialize => NandFsInv'
<1> SUFFICES ASSUME NandFsInv, nandfs_initialize PROVE NandFsInv'
  OBVIOUS
<1>1. /\ call = "none" /\ call' = "initialize" /\ todo' = Len(nand) /\ sffs' = NoSuper /\ answer' = NoAnswer
      /\ UNCHANGED <<nand, initialized, fp, cur, names, path, straight>>
  BY DEF nandfs_initialize, CallStarts, openVars
<1>2. Len(nand) \in Nat
  BY ChipFacts DEF NandFsInv, NfTypes
<1>3. NfTypes'
  BY <1>1, <1>2 DEF NandFsInv, NfTypes, NoAnswer
<1>4. ScanInv'
  BY <1>1, <1>2 DEF ScanInv, BestSuper
<1>5. ChosenInv' /\ LookInv'
  BY <1>1, ChipStays DEF NandFsInv, ChosenInv, LookInv
<1>6. FoundInv'
  BY <1>1, FoundKept DEF NandFsInv
<1>7. AnswerInv'
  <2>1. Due' = 0 /\ Len(answer'.bytes) = 0
    BY <1>1, NothingDue DEF NandFsInv, NfTypes
  <2> QED
    BY <1>1, <2>1 DEF NandFsInv, AnswerInv
<1>8. FileInv'
  <2>1. answer'.bytes = <<>>
    BY <1>1 DEF NoAnswer
  <2> QED
    BY <1>1, <2>1, FileKept DEF NandFsInv
<1> QED
  BY <1>3, <1>4, <1>5, <1>6, <1>7, <1>8 DEF NandFsInv

LEMMA ReadSuperKeeps == NandFsInv /\ ReadSuper => NandFsInv'
<1> SUFFICES ASSUME NandFsInv, ReadSuper PROVE NandFsInv'
  OBVIOUS
<1>1. /\ call = "initialize" /\ call' = call /\ todo > 0 /\ todo' = todo - 1
      /\ UNCHANGED <<nand, initialized, fp, cur, names, path, straight, answer>>
  BY DEF ReadSuper, CallGoes, openVars
<1>2. /\ Len(nand) \in Nat /\ DOMAIN nand = 1 .. Len(nand)
      /\ \A j \in DOMAIN nand : nand[j] = NoSuper \/ Sound(nand[j])
  BY ChipFacts DEF NandFsInv, NfTypes
<1>3. todo \in Nat /\ todo <= Len(nand) /\ BestSuper(Len(nand) - todo)
  BY <1>1 DEF NandFsInv, NfTypes, ScanInv
<1>4. PICK n \in Nat : n = Len(nand) - todo
  <2>1. Len(nand) \in Nat /\ todo \in Nat /\ todo <= Len(nand)
    BY <1>2, <1>3
  <2> QED
    BY SMTT(20), <2>1
<1>5. n + 1 \in DOMAIN nand /\ Len(nand) - todo' = n + 1 /\ todo' \in Nat /\ todo' <= Len(nand)
  BY <1>1, <1>2, <1>3, <1>4
<1>6. sffs' = Choice(sffs, nand[n + 1])
  BY <1>4, <1>5 DEF ReadSuper
<1>7. \A j \in 1 .. n + 1 : nand[j].version \in Int /\ nand[j].version >= -1 /\ (nand[j] # NoSuper => nand[j].version >= 0)
  <2>1. \A j \in 1 .. n + 1 : j \in DOMAIN nand
    BY <1>2, <1>5
  <2> QED
    BY <1>2, <2>1 DEF Sound, NoSuper, Nil
<1>8. BestSuper(n + 1)'
  <2>1. CASE nand[n + 1] = NoSuper
    <3>1. sffs' = sffs
      BY <1>6, <2>1 DEF Choice
    <3>2. CASE sffs = NoSuper
      BY <1>1, <1>3, <1>4, <2>1, <3>1, <3>2 DEF BestSuper
    <3>3. CASE sffs # NoSuper
      <4>1. PICK i \in 1 .. n : sffs = nand[i] /\ \A j \in 1 .. n :
                nand[j].version <= nand[i].version /\ (j < i => nand[j].version < nand[i].version)
        BY <1>3, <1>4, <3>3 DEF BestSuper
      <4>2. nand[n + 1].version <= nand[i].version /\ ~(n + 1 < i) /\ i \in 1 .. n + 1
        BY <1>7, <2>1 DEF NoSuper, Nil
      <4>3. \A j \in 1 .. n + 1 :
                nand[j].version <= nand[i].version /\ (j < i => nand[j].version < nand[i].version)
        BY <4>1, <4>2
      <4> QED
        BY <1>1, <3>1, <3>3, <4>1, <4>2, <4>3 DEF BestSuper
    <3> QED
      BY <3>2, <3>3
  <2>2. CASE nand[n + 1] # NoSuper /\ sffs = NoSuper
    <3>1. sffs' = nand[n + 1]
      BY <1>6, <2>2 DEF Choice
    <3>2. \A j \in 1 .. n : nand[j] = NoSuper
      BY <1>3, <1>4, <2>2 DEF BestSuper
    <3>3. \A j \in 1 .. n + 1 :
              nand[j].version <= nand[n + 1].version /\ (j < n + 1 => nand[j].version < nand[n + 1].version)
      <4>1. nand[n + 1].version >= 0 /\ nand[n + 1].version \in Int
        BY <1>7, <2>2
      <4>2. \A j \in 1 .. n + 1 : j < n + 1 => nand[j].version = -1
        BY <3>2 DEF NoSuper, Nil
      <4>3. \A j \in 1 .. n + 1 : ~(j < n + 1) => j = n + 1
        OBVIOUS
      <4> QED
        BY <4>1, <4>2, <4>3
    <3> QED
      BY <1>1, <2>2, <3>1, <3>3 DEF BestSuper
  <2>3. CASE nand[n + 1] # NoSuper /\ sffs # NoSuper
    <3>1. PICK i \in 1 .. n : sffs = nand[i] /\ \A j \in 1 .. n :
              nand[j].version <= nand[i].version /\ (j < i => nand[j].version < nand[i].version)
      BY <1>3, <1>4, <2>3 DEF BestSuper
    <3>2. CASE nand[n + 1].version > nand[i].version
      <4>1. sffs' = nand[n + 1]
        BY <1>6, <2>3, <3>1, <3>2 DEF Choice
      <4>2. \A j \in 1 .. n + 1 :
                nand[j].version <= nand[n + 1].version /\ (j < n + 1 => nand[j].version < nand[n + 1].version)
        <5>1. \A j \in 1 .. n + 1 : j < n + 1 => j \in 1 .. n
          OBVIOUS
        <5>2. \A j \in 1 .. n + 1 : ~(j < n + 1) => j = n + 1
          OBVIOUS
        <5>3. i \in 1 .. n + 1 /\ n + 1 \in 1 .. n + 1
          OBVIOUS
        <5> QED
          BY <1>7, <3>1, <3>2, <5>1, <5>2, <5>3
      <4> QED
        BY <1>1, <2>3, <4>1, <4>2 DEF BestSuper
    <3>3. CASE ~(nand[n + 1].version > nand[i].version)
      <4>1. sffs' = sffs
        BY <1>6, <2>3, <3>1, <3>3 DEF Choice
      <4>2. nand[n + 1].version <= nand[i].version /\ ~(n + 1 < i) /\ i \in 1 .. n + 1
        BY <1>7, <3>3
      <4>3. \A j \in 1 .. n + 1 :
                nand[j].version <= nand[i].version /\ (j < i => nand[j].version < nand[i].version)
        BY <3>1, <4>2
      <4> QED
        BY <1>1, <2>3, <3>1, <4>1, <4>2, <4>3 DEF BestSuper
    <3> QED
      BY <3>2, <3>3
  <2> QED
    BY <2>1, <2>2, <2>3
<1>9. ScanInv'
  BY <1>1, <1>5, <1>8 DEF ScanInv, BestSuper
<1>10. NfTypes'
  BY <1>1, <1>5 DEF NandFsInv, NfTypes
<1>11. ChosenInv' /\ LookInv' /\ AnswerInv'
  <2>1. AnswerInv'
    BY <1>1 DEF NandFsInv, AnswerInv, Due
  <2> QED
    BY <1>1, <2>1, ChipStays DEF NandFsInv, ChosenInv, LookInv
<1>12. FoundInv' /\ FileInv'
  BY <1>1, FoundKept, FileKept DEF NandFsInv
<1> QED
  BY <1>9, <1>10, <1>11, <1>12 DEF NandFsInv

LEMMA SupersReadKeeps == NandFsInv /\ SupersRead => NandFsInv'
<1> SUFFICES ASSUME NandFsInv, SupersRead PROVE NandFsInv'
  OBVIOUS
<1>1. /\ call = "initialize" /\ call' = "none" /\ todo = 0 /\ todo' = 0
      /\ initialized' = (initialized \/ sffs # NoSuper)
      /\ UNCHANGED <<nand, sffs, fp, cur, names, path, straight, answer>>
  BY DEF SupersRead, CallReturns, openVars
<1>2. Len(nand) \in Nat /\ DOMAIN nand = 1 .. Len(nand)
  BY ChipFacts DEF NandFsInv, NfTypes
<1>3. BestSuper(Len(nand))
  BY <1>1, <1>2 DEF NandFsInv, ScanInv
<1>4. initialized' => HasNewest /\ sffs = Newest
  <2> SUFFICES ASSUME initialized' PROVE HasNewest /\ sffs = Newest
    OBVIOUS
  <2>1. sffs # NoSuper
    <3>1. CASE initialized
      <4>1. PICK i \in DOMAIN nand : nand[i] # NoSuper
        BY <3>1 DEF NandFsInv, ChosenInv, HasNewest, IsNewest
      <4> QED
        BY <1>2, <1>3, <4>1 DEF BestSuper
    <3> QED
      BY <1>1, <3>1
  <2>2. PICK i \in DOMAIN nand : sffs = nand[i] /\ IsNewest(i)
    BY <1>2, <1>3, <2>1 DEF BestSuper, IsNewest
  <2> QED
    BY <2>2, NewestIs DEF NandFsInv, NfTypes, HasNewest
<1>5. ChosenInv'
  BY <1>1, <1>4, ChipStays DEF ChosenInv
<1>6. initialized => initialized'
  BY <1>1
<1>7. NfTypes' /\ ScanInv' /\ LookInv' /\ AnswerInv'
  <2>1. NfTypes'
    BY <1>1 DEF NandFsInv, NfTypes
  <2>2. AnswerInv'
    BY <1>1 DEF NandFsInv, AnswerInv, Due
  <2> QED
    BY <1>1, <2>1, <2>2 DEF ScanInv, LookInv
<1>8. FoundInv' /\ FileInv'
  BY <1>1, <1>6, FoundKept, FileKept DEF NandFsInv
<1> QED
  BY <1>5, <1>7, <1>8 DEF NandFsInv

-----------------------------------------------------------------------------
(* Looking up a path. *)
LEMMA OpenFacts ==
    ASSUME NandFsInv, call = "open"
    PROVE  /\ initialized /\ names \in Paths /\ names # <<>> /\ path = <<>> /\ answer = NoAnswer
           /\ Len(names) \in Nat /\ DOMAIN names = 1 .. Len(names)
           /\ todo \in 1 .. Len(names) /\ Depth \in 1 .. Len(names) /\ Depth = Len(names) - todo + 1
           /\ cur \in Nodes \cup {Nil} /\ Sound(Newest) /\ sffs = Newest
<1>1. /\ initialized /\ names \in Paths /\ names # <<>> /\ path = <<>> /\ answer = NoAnswer
      /\ todo \in 1 .. Len(names) /\ cur \in Nodes \cup {Nil}
  BY DEF NandFsInv, NfTypes, LookInv
<1>2. names \in Seq({names[i] : i \in DOMAIN names})
  BY <1>1, NandFsAssumption
<1>3. Len(names) \in Nat /\ DOMAIN names = 1 .. Len(names)
  BY <1>2
<1>4. Depth \in 1 .. Len(names)
  BY <1>1, <1>3 DEF Depth
<1>5. Sound(Newest) /\ sffs = Newest
  BY <1>1, NewestSound DEF NandFsInv, ChosenInv
<1> QED
  BY <1>1, <1>3, <1>4, <1>5 DEF Depth

(* A step of the search keeps all but what is known of the search. *)
LEMMA SearchKeeps ==
    ASSUME NandFsInv, call = "open", call' = "open", todo' \in Nat,
           UNCHANGED <<nand, sffs, initialized, fp, names, path, straight, answer>>, LookInv'
    PROVE  NandFsInv'
<1>1. NfTypes' /\ ScanInv'
  BY DEF NandFsInv, NfTypes, ScanInv
<1>2. ChosenInv'
  BY ChipStays DEF NandFsInv, ChosenInv
<1>3. AnswerInv'
  BY DEF NandFsInv, AnswerInv, Due
<1>4. FoundInv' /\ FileInv'
  BY OpenFacts DEF NandFsInv, FoundInv, FileInv
<1> QED
  BY <1>1, <1>2, <1>3, <1>4 DEF NandFsInv

LEMMA nandfs_openKeeps == ASSUME NEW wanted \in Paths PROVE NandFsInv /\ nandfs_open(wanted) => NandFsInv'
<1> SUFFICES ASSUME NandFsInv, nandfs_open(wanted) PROVE NandFsInv'
  OBVIOUS
<1>1. /\ initialized /\ call = "none" /\ call' = "open" /\ todo' = Len(wanted)
      /\ fp' = NoFile /\ path' = <<>> /\ names' = wanted /\ cur' = sffs.files[0].first
      /\ answer' = NoAnswer /\ UNCHANGED <<nand, sffs, initialized>>
  BY DEF nandfs_open, CallStarts
<1>2. wanted \in Seq({wanted[i] : i \in DOMAIN wanted}) /\ wanted # <<>>
  BY NandFsAssumption
<1>3. Len(wanted) \in Nat /\ DOMAIN wanted = 1 .. Len(wanted) /\ Len(wanted) >= 1
  BY <1>2
<1>4. Sound(Newest) /\ sffs = Newest
  BY <1>1, NewestSound DEF NandFsInv, ChosenInv
<1>5. cur' \in Nodes \cup {Nil} /\ cur' = Newest.files[0].first /\ Newest.files[0].kind = "dir" /\ 0 \in Nodes
  BY <1>1, <1>4, NodeFacts
<1>6. Entries(0) = Siblings(Newest.files[0].first)
  BY <1>5 DEF Entries
<1>7. PICK c : c = cur' /\ c \in Nodes \cup {Nil} /\ Siblings(c) = Entries(0)
  BY <1>5, <1>6
<1>8. Depth' = 1
  BY <1>1, <1>3 DEF Depth
<1>9. LookInv'
  <2>1. PICK walk \in [DOMAIN wanted -> Nodes] : TRUE
    <3>1. [i \in DOMAIN wanted |-> 0] \in [DOMAIN wanted -> Nodes]
      BY <1>5
    <3> QED
      BY <3>1
  <2>2. LeadsHere(walk)'
    <3>1. c # Nil => c \in Entries(0)
      BY <1>7, ListHead
    <3>2. Entries(0)' = Entries(0)
      BY <1>1, ChipStays
    <3> QED
      BY <1>7, <1>8, <3>1, <3>2 DEF LeadsHere, Parent
  <2>3. ASSUME NEW nodes \in [DOMAIN wanted -> Nodes], Wanted(nodes)'
        PROVE  (\A i \in 1 .. Depth' - 1 : nodes[i] = walk[i]) /\ nodes[Depth'] \in Siblings(c)
    <3>1. Leads(nodes, wanted)
      BY <1>1, <2>3, ChipStays DEF Wanted
    <3>2. nodes[1] \in Entries(0)
      BY <1>3, <3>1 DEF Leads
    <3> QED
      BY <1>7, <1>8, <3>2
  <2>4. Nodes' = Nodes /\ Siblings(c)' = Siblings(c)
    BY <1>1, ChipStays
  <2>5. /\ initialized' /\ names' # <<>> /\ todo' \in 1 .. Len(names') /\ path' = <<>> /\ answer' = NoAnswer
        /\ cur' \in Nodes' \cup {Nil} /\ DOMAIN names' = DOMAIN wanted
    BY <1>1, <1>2, <1>3, <1>5, <2>4
  <2>6. \A nodes \in [DOMAIN names' -> Nodes'] : Wanted(nodes)' =>
            (\A i \in 1 .. Depth' - 1 : nodes[i] = walk[i]) /\ nodes[Depth'] \in Siblings(cur)'
    BY <1>7, <2>3, <2>4, <2>5
  <2>7. walk \in [DOMAIN names' -> Nodes']
    BY <2>4, <2>5
  <2> HIDE DEF Depth, Wanted, LeadsHere
  <2> QED
    BY <2>2, <2>5, <2>6, <2>7 DEF LookInv
<1>10. NfTypes'
  <2>1. /\ fp' = [first_cluster |-> fp'.first_cluster, cur_cluster |-> fp'.cur_cluster,
                  size |-> fp'.size, offset |-> fp'.offset]
        /\ fp'.size = 0 /\ fp'.offset = 0
    BY <1>1 DEF NoFile
  <2>2. /\ answer' = [at |-> answer'.at, count |-> answer'.count, bytes |-> answer'.bytes]
        /\ answer'.at = 0 /\ answer'.count = 0 /\ answer'.bytes = <<>>
    BY <1>1 DEF NoAnswer
  <2>3. answer'.bytes \in Seq({answer'.bytes[k] : k \in DOMAIN answer'.bytes})
    BY <2>2
  <2>4. nand' \in Images /\ initialized' \in BOOLEAN /\ todo' \in Nat
    BY <1>1, <1>3 DEF NandFsInv, NfTypes
  <2>5. 0 \in 0 .. 0 /\ 0 \in Nat
    OBVIOUS
  <2> QED
    BY <1>1, <2>1, <2>2, <2>3, <2>4, <2>5 DEF NfTypes
<1>11. ScanInv' /\ ChosenInv'
  BY <1>1, ChipStays DEF NandFsInv, ScanInv, ChosenInv
<1>12. FoundInv' /\ FileInv'
  BY <1>1 DEF FoundInv, FileInv
<1>13. AnswerInv'
  <2>1. Due' = 0 /\ Len(answer'.bytes) = 0 /\ fp'.size = 0
    BY <1>1 DEF Due, NoAnswer, NoFile
  <2> QED
    BY <1>1, <2>1 DEF AnswerInv
<1> QED
  BY <1>9, <1>10, <1>11, <1>12, <1>13 DEF NandFsInv

(* The nodes found so far, and those of any file that has the path. *)
LEMMA Search ==
    ASSUME NandFsInv, call = "open"
    PROVE  \E walk \in [DOMAIN names -> Nodes] :
              /\ \A i \in 1 .. Depth - 1 : Newest.files[walk[i]].name = names[i] /\ walk[i] \in Entries(Parent(walk, i))
              /\ cur # Nil => cur \in Entries(Parent(walk, Depth))
              /\ Unambiguous => \A nodes \in [DOMAIN names -> Nodes] : Wanted(nodes) =>
                    /\ \A i \in 1 .. Depth - 1 : nodes[i] = walk[i]
                    /\ nodes[Depth] \in Siblings(cur) /\ nodes[Depth] \in Entries(Parent(walk, Depth))
                    /\ Newest.files[nodes[Depth]].name = names[Depth]
<1>1. PICK walk \in [DOMAIN names -> Nodes] :
          /\ LeadsHere(walk)
          /\ Unambiguous => \A nodes \in [DOMAIN names -> Nodes] : Wanted(nodes) =>
                (\A i \in 1 .. Depth - 1 : nodes[i] = walk[i]) /\ nodes[Depth] \in Siblings(cur)
  BY DEF NandFsInv, LookInv
<1>2. ASSUME Unambiguous, NEW nodes \in [DOMAIN names -> Nodes], Wanted(nodes)
      PROVE  nodes[Depth] \in Entries(Parent(walk, Depth)) /\ Newest.files[nodes[Depth]].name = names[Depth]
  <2>1. PICK n \in 1 .. Len(names) : n = Depth
    BY OpenFacts
  <2>2. n \in DOMAIN names
    BY OpenFacts
  <2>3. Newest.files[nodes[n]].name = names[n] /\ nodes[n] \in Entries(Parent(nodes, n))
    BY <1>2, <2>2 DEF Wanted, Leads, Parent
  <2>4. Parent(nodes, n) = Parent(walk, n)
    <3>1. CASE n = 1
      BY <3>1 DEF Parent
    <3>2. CASE n # 1
      <4>1. n - 1 \in 1 .. n - 1
        BY <3>2
      <4>2. nodes[n - 1] = walk[n - 1]
        BY <1>1, <1>2, <2>1, <4>1
      <4> QED
        BY <3>2, <4>2 DEF Parent
    <3> QED
      BY <3>1, <3>2
  <2> QED
    BY <2>1, <2>3, <2>4
<1> QED
  BY <1>1, <1>2 DEF LeadsHere

LEMMA NextSiblingKeeps == NandFsInv /\ NextSibling => NandFsInv'
<1> SUFFICES ASSUME NandFsInv, NextSibling PROVE NandFsInv'
  OBVIOUS
<1>1. /\ call = "open" /\ call' = "open" /\ cur # Nil /\ ~Enters /\ ~IsFile /\ cur' = sffs.files[cur].sibling
      /\ UNCHANGED <<nand, sffs, initialized, fp, todo, names, path, straight, answer>>
  BY DEF NextSibling, Looking, CallGoes
<1>2. /\ initialized /\ names # <<>> /\ path = <<>> /\ answer = NoAnswer /\ todo \in 1 .. Len(names) /\ Len(names) \in Nat
      /\ DOMAIN names = 1 .. Len(names) /\ Depth \in 1 .. Len(names) /\ Depth = Len(names) - todo + 1
      /\ cur \in Nodes /\ Sound(Newest) /\ sffs = Newest
  BY <1>1, OpenFacts
<1>3. PICK c, d : c = cur /\ d = cur' /\ d = Newest.files[c].sibling /\ d \in Nodes \cup {Nil}
  BY <1>1, <1>2, NodeFacts
<1>4. PICK walk \in [DOMAIN names -> Nodes] :
          /\ \A i \in 1 .. Depth - 1 : Newest.files[walk[i]].name = names[i] /\ walk[i] \in Entries(Parent(walk, i))
          /\ c \in Entries(Parent(walk, Depth))
          /\ Unambiguous => \A nodes \in [DOMAIN names -> Nodes] : Wanted(nodes) =>
                /\ \A i \in 1 .. Depth - 1 : nodes[i] = walk[i]
                /\ nodes[Depth] \in Siblings(c) /\ Newest.files[nodes[Depth]].name = names[Depth]
  BY <1>1, <1>3, Search
<1>5. Depth' = Depth
  BY <1>1 DEF Depth
<1>6. d # Nil => d \in Entries(Parent(walk, Depth))
  BY ZenonT(40), <1>2, <1>3, <1>4, ListGoesOn DEF Entries
<1>7. LeadsHere(walk)'
  <2>1. \A x : Entries(x)' = Entries(x)
    BY <1>1, ChipStays
  <2>2. Newest' = Newest
    BY <1>1, ChipStays
  <2> QED
    BY <1>1, <1>3, <1>4, <1>5, <1>6, <2>1, <2>2 DEF LeadsHere, Parent
<1>8. ASSUME Unambiguous, NEW nodes \in [DOMAIN names -> Nodes], Wanted(nodes)
      PROVE  nodes[Depth] \in Siblings(d)
  <2>1. PICK n \in 1 .. Len(names) : n = Depth
    BY <1>2
  <2>2. nodes[n] \in Siblings(c) /\ Newest.files[nodes[n]].name = names[n]
    BY <1>4, <1>8, <2>1
  <2>3. nodes[n] # c
    <3> SUFFICES ASSUME nodes[n] = c PROVE FALSE
      OBVIOUS
    <3>1. Named
      BY <1>2, <1>3, <2>1, <2>2 DEF Named, Depth
    <3>2. CASE todo = 1
      <4>1. n = Len(names)
        BY <1>2, <2>1, <3>2
      <4>2. Newest.files[c].kind = "file"
        BY <1>8, <4>1 DEF Wanted
      <4> QED
        BY <1>1, <1>2, <1>3, <3>1, <3>2, <4>2 DEF IsFile
    <3>3. CASE todo # 1
      <4>1. n + 1 \in DOMAIN names /\ n + 1 # 1 /\ n + 1 - 1 = n /\ todo > 1
        BY <1>2, <2>1, <3>3
      <4>2. nodes[n + 1] \in Entries(c)
        BY <1>8, <4>1 DEF Wanted, Leads
      <4>3. Newest.files[c].kind = "dir" /\ nodes[n + 1] \in Siblings(Newest.files[c].first)
        BY <4>2 DEF Entries
      <4>4. Newest.files[c].first # Nil
        BY <1>2, <4>3, NoList
      <4> QED
        BY <1>1, <1>2, <1>3, <3>1, <4>1, <4>3, <4>4 DEF Enters
    <3> QED
      BY <3>2, <3>3
  <2> QED
    BY <1>2, <1>3, <2>1, <2>2, <2>3, ListRest
<1>9. LookInv'
  <2>1. /\ Nodes' = Nodes /\ Siblings(d)' = Siblings(d) /\ (Unambiguous' <=> Unambiguous)
        /\ \A nodes : Wanted(nodes)' <=> Wanted(nodes)
    <3>1. \A nodes : Leads(nodes, names)' <=> Leads(nodes, names)
      <4>1. PICK to : to = names /\ to = names'
        BY <1>1
      <4> QED
        BY <1>1, <4>1, ChipStays
    <3> QED
      BY <1>1, <3>1, ChipStays DEF Wanted
  <2>2. Unambiguous' => \A nodes \in [DOMAIN names' -> Nodes'] : Wanted(nodes)' =>
            (\A i \in 1 .. Depth' - 1 : nodes[i] = walk[i]) /\ nodes[Depth'] \in Siblings(cur)'
    BY <1>1, <1>3, <1>4, <1>5, <1>8, <2>1
  <2>3. walk \in [DOMAIN names' -> Nodes'] /\ cur' \in Nodes' \cup {Nil}
    BY <1>1, <1>3, <2>1
  <2>4. initialized' /\ names' # <<>> /\ todo' \in 1 .. Len(names') /\ path' = <<>> /\ answer' = NoAnswer
    BY <1>1, <1>2
  <2> QED
    BY <1>7, <2>2, <2>3, <2>4 DEF LookInv
<1> QED
  BY <1>1, <1>2, <1>9, SearchKeeps

LEMMA EnterDirKeeps == NandFsInv /\ EnterDir => NandFsInv'
<1> SUFFICES ASSUME NandFsInv, EnterDir PROVE NandFsInv'
  OBVIOUS
<1>1. /\ call = "open" /\ call' = "open" /\ cur # Nil /\ Enters /\ cur' = sffs.files[cur].first /\ todo' = todo - 1
      /\ UNCHANGED <<nand, sffs, initialized, fp, names, path, straight, answer>>
  BY DEF EnterDir, Looking, CallGoes
<1>2. /\ initialized /\ names # <<>> /\ path = <<>> /\ answer = NoAnswer /\ todo \in 1 .. Len(names) /\ Len(names) \in Nat
      /\ DOMAIN names = 1 .. Len(names) /\ Depth \in 1 .. Len(names) /\ Depth = Len(names) - todo + 1
      /\ cur \in Nodes /\ Sound(Newest) /\ sffs = Newest
  BY <1>1, OpenFacts
<1>3. PICK c, d : /\ c = cur /\ c \in Nodes /\ d = cur' /\ d = Newest.files[c].first /\ d \in Nodes
                  /\ Newest.files[c].kind = "dir"
  <2>1. sffs.files[cur].kind = "dir" /\ sffs.files[cur].first # Nil
    BY <1>1 DEF Enters
  <2> QED
    BY <1>1, <1>2, <2>1, NodeFacts
<1>4. PICK n \in Nat : /\ n = Depth /\ n \in 1 .. Len(names) /\ n + 1 \in 1 .. Len(names) /\ Depth' = n + 1
                       /\ Newest.files[c].name = names[n] /\ todo' \in 1 .. Len(names)
  <2>1. todo > 1 /\ Named
    BY <1>1 DEF Enters
  <2>2. PICK n \in Nat : n = Depth
    BY <1>2
  <2>3. Depth' = Len(names) - (todo - 1) + 1
    BY <1>1 DEF Depth
  <2>4. n + 1 \in 1 .. Len(names) /\ Depth' = n + 1 /\ todo' \in 1 .. Len(names)
    BY <1>1, <1>2, <2>1, <2>2, <2>3
  <2>5. Newest.files[c].name = names[n]
    BY <1>2, <1>3, <2>1, <2>2 DEF Named
  <2> QED
    BY <1>2, <2>2, <2>4, <2>5
<1>5. PICK walk \in [DOMAIN names -> Nodes] :
          /\ \A i \in 1 .. n - 1 : Newest.files[walk[i]].name = names[i] /\ walk[i] \in Entries(Parent(walk, i))
          /\ c \in Entries(Parent(walk, n))
          /\ Unambiguous => \A nodes \in [DOMAIN names -> Nodes] : Wanted(nodes) =>
                /\ \A i \in 1 .. n - 1 : nodes[i] = walk[i]
                /\ nodes[n] \in Entries(Parent(walk, n)) /\ Newest.files[nodes[n]].name = names[n]
  BY <1>1, <1>3, <1>4, Search
<1>6. PICK next \in [DOMAIN names -> Nodes] :
          next[n] = c /\ \A i \in DOMAIN names : i # n => next[i] = walk[i]
  <2>1. [walk EXCEPT ![n] = c] \in [DOMAIN names -> Nodes]
    BY <1>2, <1>3
  <2> QED
    BY <1>2, <1>4, <2>1
<1>7. \A i \in 1 .. n : Parent(next, i) = Parent(walk, i) /\ (i < n => next[i] = walk[i])
  <2> SUFFICES ASSUME NEW i \in 1 .. n PROVE Parent(next, i) = Parent(walk, i) /\ (i < n => next[i] = walk[i])
    OBVIOUS
  <2>1. i < n => next[i] = walk[i]
    BY SMTT(20), <1>2, <1>4, <1>6
  <2>2. i # 1 => i - 1 \in DOMAIN names /\ i - 1 # n
    BY SMTT(20), <1>2, <1>4
  <2> QED
    BY <1>6, <2>1, <2>2 DEF Parent
<1>8. \A i \in 1 .. n : Newest.files[next[i]].name = names[i] /\ next[i] \in Entries(Parent(next, i))
  <2> SUFFICES ASSUME NEW i \in 1 .. n
               PROVE  Newest.files[next[i]].name = names[i] /\ next[i] \in Entries(Parent(next, i))
    OBVIOUS
  <2>1. CASE i = n
    BY <1>4, <1>5, <1>6, <1>7, <2>1
  <2>2. CASE i # n
    <3>1. i \in 1 .. n - 1 /\ i < n
      BY <2>2
    <3> QED
      BY <1>5, <1>7, <3>1
  <2> QED
    BY <2>1, <2>2
<1>9. Parent(next, n + 1) = c /\ Entries(c) = Siblings(d) /\ d \in Siblings(d)
  <2>1. n + 1 # 1 /\ n + 1 - 1 = n
    BY <1>4
  <2> QED
    BY <1>3, <1>6, <2>1, ListHead DEF Parent, Entries
<1>10. LeadsHere(next)'
  <2>1. \A x : Entries(x)' = Entries(x)
    BY <1>1, ChipStays
  <2>2. \A i : Parent(next, i)' = Parent(next, i)
    BY DEF Parent
  <2>3. Newest' = Newest /\ Depth' - 1 = n
    BY <1>1, <1>4, ChipStays
  <2>4. (\A i \in 1 .. Depth - 1 : Newest.files[next[i]].name = names[i] /\ next[i] \in Entries(Parent(next, i)))'
    BY <1>1, <1>8, <2>1, <2>2, <2>3
  <2>5. (cur # Nil => cur \in Entries(Parent(next, Depth)))'
    BY <1>3, <1>4, <1>9, <2>1, <2>2
  <2> QED
    BY <2>4, <2>5 DEF LeadsHere
<1>11. ASSUME Unambiguous, NEW nodes \in [DOMAIN names -> Nodes], Wanted(nodes)
       PROVE  (\A i \in 1 .. n : nodes[i] = next[i]) /\ nodes[n + 1] \in Siblings(d)
  <2>1. PICK p : p = Parent(walk, n) /\ p \in Nodes
    <3>1. CASE n = 1
      BY <1>2, <3>1, NodeFacts DEF Parent
    <3>2. CASE n # 1
      <4>1. n - 1 \in DOMAIN names
        BY SMTT(20), <1>2, <1>4, <3>2
      <4> QED
        BY <3>2, <4>1 DEF Parent
    <3> QED
      BY <3>1, <3>2
  <2>2. nodes[n] = c
    <3>1. nodes[n] \in Entries(p) /\ c \in Entries(p) /\ Newest.files[nodes[n]].name = Newest.files[c].name
      BY <1>4, <1>5, <1>11, <2>1
    <3> QED
      BY <1>11, <2>1, <3>1 DEF Unambiguous
  <2>3. \A i \in 1 .. n : nodes[i] = next[i]
    <3> SUFFICES ASSUME NEW i \in 1 .. n PROVE nodes[i] = next[i]
      OBVIOUS
    <3>1. CASE i = n
      BY <1>6, <2>2, <3>1
    <3>2. CASE i # n
      <4>1. i \in 1 .. n - 1 /\ i < n
        BY <3>2
      <4> QED
        BY <1>5, <1>7, <1>11, <4>1
    <3> QED
      BY <3>1, <3>2
  <2>4. nodes[n + 1] \in Siblings(d)
    <3>1. n + 1 \in DOMAIN names /\ n + 1 # 1 /\ n + 1 - 1 = n
      BY <1>2, <1>4
    <3>2. nodes[n + 1] \in Entries(nodes[n])
      BY <1>11, <3>1 DEF Wanted, Leads
    <3> QED
      BY <1>9, <2>2, <3>2
  <2> QED
    BY <2>3, <2>4
<1>12. LookInv'
  <2>1. /\ Nodes' = Nodes /\ Siblings(d)' = Siblings(d) /\ (Unambiguous' <=> Unambiguous)
        /\ \A nodes : Wanted(nodes)' <=> Wanted(nodes)
    <3>1. \A nodes : Leads(nodes, names)' <=> Leads(nodes, names)
      <4>1. PICK to : to = names /\ to = names'
        BY <1>1
      <4> QED
        BY <1>1, <4>1, ChipStays
    <3> QED
      BY <1>1, <3>1, ChipStays DEF Wanted
  <2>2. Unambiguous' => \A nodes \in [DOMAIN names' -> Nodes'] : Wanted(nodes)' =>
            (\A i \in 1 .. Depth' - 1 : nodes[i] = next[i]) /\ nodes[Depth'] \in Siblings(cur)'
    <3>1. Depth' - 1 = n
      BY <1>4
    <3> QED
      BY SMTT(20), <1>1, <1>3, <1>4, <1>11, <2>1, <3>1
  <2>3. next \in [DOMAIN names' -> Nodes'] /\ cur' \in Nodes' \cup {Nil}
    BY <1>1, <1>3, <2>1
  <2>4. initialized' /\ names' # <<>> /\ todo' \in 1 .. Len(names') /\ path' = <<>> /\ answer' = NoAnswer
    BY <1>1, <1>2, <1>4
  <2> QED
    BY <1>10, <2>2, <2>3, <2>4 DEF LookInv
<1> QED
  <2>1. todo' \in Nat
    BY <1>4
  <2> QED
    BY <1>1, <1>12, <2>1, SearchKeeps

LEMMA OpenFileKeeps == NandFsInv /\ OpenFile => NandFsInv'
<1> SUFFICES ASSUME NandFsInv, OpenFile PROVE NandFsInv'
  OBVIOUS
<1>1. /\ call = "open" /\ call' = "none" /\ cur # Nil /\ IsFile /\ fp' = Opened(sffs.files[cur]) /\ path' = names
      /\ UNCHANGED <<nand, sffs, initialized, todo, cur, names, straight, answer>>
  BY DEF OpenFile, Looking, CallReturns
<1>2. /\ initialized /\ names \in Paths /\ names # <<>> /\ Len(names) \in Nat /\ DOMAIN names = 1 .. Len(names)
      /\ Len(names) \in 1 .. Len(names) /\ cur \in Nodes /\ Sound(Newest) /\ sffs = Newest
      /\ Depth = Len(names) /\ Newest.files[cur].name = names[Len(names)] /\ Newest.files[cur].kind = "file"
  <2>1. todo = 1 /\ Named /\ sffs.files[cur].kind = "file"
    BY <1>1 DEF IsFile
  <2>2. Depth = Len(names)
    BY <1>1, <2>1, OpenFacts
  <2> QED
    BY <1>1, <2>1, <2>2, OpenFacts DEF Named, Depth
<1>3. PICK c, n : c = cur /\ c \in Nodes /\ n = Len(names) /\ n \in Nat /\ n \in 1 .. n
  BY <1>2
<1>4. PICK walk \in [DOMAIN names -> Nodes] :
          /\ \A i \in 1 .. n - 1 : Newest.files[walk[i]].name = names[i] /\ walk[i] \in Entries(Parent(walk, i))
          /\ c \in Entries(Parent(walk, n))
  BY <1>1, <1>2, <1>3, Search
<1>5. PICK nodes \in [DOMAIN names -> Nodes] :
          nodes[n] = c /\ \A i \in DOMAIN names : i # n => nodes[i] = walk[i]
  <2>1. [walk EXCEPT ![n] = c] \in [DOMAIN names -> Nodes]
    BY <1>2, <1>3
  <2> QED
    BY <1>2, <1>3, <2>1
<1>6. Leads(nodes, names)
  <2>1. ASSUME NEW i \in DOMAIN names
        PROVE  Newest.files[nodes[i]].name = names[i] /\ nodes[i] \in Entries(Parent(nodes, i))
    <3>1. Parent(nodes, i) = Parent(walk, i)
      BY <1>2, <1>3, <1>5 DEF Parent
    <3>2. CASE i = n
      BY <1>2, <1>3, <1>4, <1>5, <3>1, <3>2
    <3>3. CASE i # n
      <4>1. i \in 1 .. n - 1
        BY <1>2, <1>3, <3>3
      <4> QED
        BY <1>4, <1>5, <3>1, <3>3, <4>1
    <3> QED
      BY <3>2, <3>3
  <2> QED
    BY <2>1 DEF Leads, Parent
<1>7. c \in Files(names)
  BY <1>2, <1>3, <1>5, <1>6 DEF Files
<1>8. /\ fp' = [first_cluster |-> fp'.first_cluster, cur_cluster |-> fp'.cur_cluster,
                size |-> fp'.size, offset |-> fp'.offset]
      /\ fp'.size = Newest.files[c].size /\ fp'.size \in Nat /\ fp'.offset = 0
      /\ fp'.first_cluster = Newest.files[c].first /\ fp'.cur_cluster = Newest.files[c].first
  BY <1>1, <1>2, <1>3, NodeFacts DEF Opened
<1>9. answer' = NoAnswer /\ Due' = 0 /\ Len(answer'.bytes) = 0
  <2>1. answer' = NoAnswer
    BY <1>1, OpenFacts
  <2> QED
    BY <1>8, <2>1 DEF Due, NoAnswer
<1>10. NfTypes'
  <2>1. answer' = [at |-> answer'.at, count |-> answer'.count, bytes |-> answer'.bytes] /\ answer'.at = 0 /\ answer'.count = 0
    BY <1>9 DEF NoAnswer
  <2>2. answer'.bytes \in Seq({answer'.bytes[k] : k \in DOMAIN answer'.bytes})
    BY <1>9 DEF NoAnswer
  <2>3. fp'.offset \in 0 .. fp'.size /\ answer'.at \in 0 .. fp'.size /\ answer'.count \in Nat
    BY <1>8, <2>1
  <2>4. nand' \in Images /\ initialized' \in BOOLEAN /\ todo' \in Nat /\ names' \in Paths
    BY <1>1, <1>2 DEF NandFsInv, NfTypes
  <2> QED
    BY <1>1, <1>8, <2>1, <2>2, <2>3, <2>4 DEF NfTypes
<1>11. ScanInv' /\ ChosenInv' /\ LookInv'
  BY <1>1, ChipStays DEF NandFsInv, ScanInv, ChosenInv, LookInv
<1>12. FoundInv' /\ AnswerInv'
  BY <1>1, <1>2, <1>9 DEF FoundInv, AnswerInv
<1>13. FileInv'
  <2>1. c \in Files(path)'
    <3>1. PICK to : to = names /\ to = path'
      BY <1>1
    <3>2. Files(to)' = Files(to)
      BY <1>1, ChipStays
    <3> QED
      BY <1>7, <3>1, <3>2
  <2>2. Newest' = Newest
    BY <1>1, ChipStays
  <2>3. Answers(c)'
    <3>1. answer'.bytes = <<>>
      BY <1>9 DEF NoAnswer
    <3> QED
      BY <3>1 DEF Answers
  <2>4. Following(c)'
    <3>1. PICK x : x = Newest.files[c].first
      OBVIOUS
    <3>2. ClusterAt(c, 0) = Chain(x)[0 \div ClusterSize]
      BY <3>1 DEF ClusterAt
    <3>3. 0 \div ClusterSize = 0
      BY NandFsAssumption
    <3>4. ClusterAt(c, 0) = x
      BY <3>2, <3>3, ChainFollows
    <3>5. ClusterAt(c, 0)' = ClusterAt(c, 0)
      BY <1>1, ChipStays
    <3> QED
      BY <1>1, <1>8, <3>1, <3>4, <3>5 DEF Following
  <2>5. FileIs(c)'
    BY <1>8, <2>2, <2>3, <2>4 DEF FileIs
  <2> QED
    BY <2>1, <2>5 DEF FileInv
<1> QED
  BY <1>10, <1>11, <1>12, <1>13 DEF NandFsInv

LEMMA NotFoundKeeps == NandFsInv /\ NotFound => NandFsInv'
<1> SUFFICES ASSUME NandFsInv, NotFound PROVE NandFsInv'
  OBVIOUS
<1>1. /\ call = "open" /\ call' = "none" /\ cur = Nil
      /\ UNCHANGED <<nand, sffs, initialized, fp, todo, cur, names, path, straight, answer>>
  BY DEF NotFound, CallReturns, openVars
<1>2. /\ initialized /\ names # <<>> /\ path = <<>> /\ Len(names) \in Nat /\ DOMAIN names = 1 .. Len(names)
      /\ Depth \in 1 .. Len(names) /\ Sound(Newest) /\ answer = NoAnswer
  BY <1>1, OpenFacts
<1>3. Unambiguous => Files(names) = {}
  <2> SUFFICES ASSUME Unambiguous, NEW f \in Files(names) PROVE FALSE
    OBVIOUS
  <2>1. PICK nodes \in [DOMAIN names -> Nodes] : Wanted(nodes)
    BY DEF Files, Wanted
  <2>2. nodes[Depth] \in Siblings(Nil)
    BY <1>1, <2>1, Search
  <2> QED
    BY <1>2, <2>2, NoList
<1>4. FoundInv'
  <2>1. PICK to : to = names /\ to = names'
    BY <1>1
  <2>2. Files(to)' = Files(to) /\ (Unambiguous' <=> Unambiguous)
    BY <1>1, ChipStays
  <2> QED
    BY <1>1, <1>2, <1>3, <2>1, <2>2 DEF FoundInv
<1>5. NfTypes' /\ ScanInv' /\ LookInv'
  BY <1>1 DEF NandFsInv, NfTypes, ScanInv, LookInv
<1>6. ChosenInv'
  BY <1>1, ChipStays DEF NandFsInv, ChosenInv
<1>7. AnswerInv' /\ FileInv'
  BY <1>1, <1>2 DEF NandFsInv, AnswerInv, Due, FileInv
<1> QED
  BY <1>4, <1>5, <1>6, <1>7 DEF NandFsInv

-----------------------------------------------------------------------------
(* Reading. *)
LEMMA nandfs_readKeeps == ASSUME NEW count \in Counts PROVE NandFsInv /\ nandfs_read(count) => NandFsInv'
<1> SUFFICES ASSUME NandFsInv, nandfs_read(count) PROVE NandFsInv'
  OBVIOUS
<1>1. /\ initialized /\ call = "none" /\ call' = "read" /\ todo' = Clipped(count)
      /\ answer' = [at |-> fp.offset, count |-> count, bytes |-> <<>>]
      /\ UNCHANGED <<nand, sffs, initialized, fp, cur, names, path, straight>>
  BY DEF nandfs_read, CallStarts, openVars
<1>2. count \in Nat /\ fp.size \in Nat /\ fp.offset \in 0 .. fp.size
  BY NandFsAssumption DEF NandFsInv, NfTypes
<1>3. todo' \in Nat /\ todo' = IF count < fp.size - fp.offset THEN count ELSE fp.size - fp.offset
  BY <1>1, <1>2 DEF Clipped
<1>4. /\ answer' = [at |-> answer'.at, count |-> answer'.count, bytes |-> answer'.bytes]
      /\ answer'.at = fp.offset /\ answer'.count = count /\ answer'.bytes = <<>>
  BY <1>1
<1>5. NfTypes'
  <2>1. answer'.bytes \in Seq({answer'.bytes[k] : k \in DOMAIN answer'.bytes})
    BY <1>4
  <2>2. answer'.at \in 0 .. fp'.size /\ answer'.count \in Nat
    BY <1>1, <1>2, <1>4
  <2> QED
    BY <1>1, <1>3, <1>4, <2>1, <2>2 DEF NandFsInv, NfTypes
<1>6. AnswerInv'
  <2>1. Len(answer'.bytes) = 0 /\ Due' = todo'
    BY <1>1, <1>3, <1>4 DEF Due
  <2> QED
    BY <1>1, <1>2, <1>3, <1>4, <2>1 DEF NandFsInv, AnswerInv
<1>7. ScanInv' /\ LookInv'
  BY <1>1 DEF ScanInv, LookInv
<1>8. ChosenInv'
  BY <1>1, ChipStays DEF NandFsInv, ChosenInv
<1>9. FoundInv' /\ FileInv'
  BY <1>1, <1>4, FoundKept, FileKept DEF NandFsInv
<1> QED
  BY <1>5, <1>6, <1>7, <1>8, <1>9 DEF NandFsInv

LEMMA AllReadKeeps == NandFsInv /\ AllRead => NandFsInv'
<1> SUFFICES ASSUME NandFsInv, AllRead PROVE NandFsInv'
  OBVIOUS
<1>1. /\ call = "read" /\ call' = "none" /\ todo = 0
      /\ UNCHANGED <<nand, sffs, initialized, fp, todo, cur, names, path, straight, answer>>
  BY DEF AllRead, CallReturns, openVars
<1>2. NfTypes' /\ ScanInv' /\ LookInv'
  BY <1>1 DEF NandFsInv, NfTypes, ScanInv, LookInv
<1>3. AnswerInv'
  <2>1. answer.bytes \in Seq({answer.bytes[k] : k \in DOMAIN answer.bytes})
    BY DEF NandFsInv, NfTypes
  <2>2. Len(answer.bytes) \in Nat
    BY <2>1
  <2>3. Len(answer.bytes) = Due /\ (path = <<>> => fp.size = 0)
    BY <1>1, <2>2 DEF NandFsInv, AnswerInv
  <2> QED
    BY <1>1, <2>3 DEF AnswerInv, Due
<1>4. ChosenInv'
  BY <1>1, ChipStays DEF NandFsInv, ChosenInv
<1>5. FoundInv' /\ FileInv'
  BY <1>1, FoundKept, FileKept DEF NandFsInv
<1> QED
  BY <1>2, <1>3, <1>4, <1>5 DEF NandFsInv

(* What is read is appended. *)
LEMMA IsSeq == ASSUME NEW R, NEW n \in Nat, NEW u \in [1 .. n -> R] PROVE u \in Seq(R) /\ Len(u) = n
<1>1. u \in Seq(R)
  OBVIOUS
<1> QED
  BY <1>1

Extension(u, s, t) ==
    /\ u \in Seq({u[k] : k \in DOMAIN u})
    /\ Len(u) = Len(s) + Len(t) /\ DOMAIN u = 1 .. Len(s) + Len(t)
    /\ \A k \in 1 .. Len(s) + Len(t) : u[k] = IF k <= Len(s) THEN s[k] ELSE t[k - Len(s)]

LEMMA Extended == ASSUME NEW T, NEW s \in Seq(T), NEW t \in Seq(T), NEW u, u = s \o t PROVE Extension(u, s, t)
<1>1. /\ s \o t \in Seq(T) /\ Len(s \o t) = Len(s) + Len(t)
      /\ \A k \in 1 .. Len(s) + Len(t) : (s \o t)[k] = IF k <= Len(s) THEN s[k] ELSE t[k - Len(s)]
  BY ConcatProperties
<1>2. PICK n \in Nat : n = Len(u) /\ DOMAIN u = 1 .. n /\ u \in [1 .. n -> T]
  <2>1. u \in Seq(T)
    BY <1>1
  <2>2. Len(u) \in Nat /\ DOMAIN u = 1 .. Len(u) /\ u \in [1 .. Len(u) -> T]
    BY ONLY <2>1
  <2> QED
    BY ONLY <2>2
<1>3. u \in [1 .. n -> {u[k] : k \in DOMAIN u}]
  <2> DEFINE R == {u[k] : k \in DOMAIN u}
  <2>1. \A k \in 1 .. n : u[k] \in R
    BY <1>2
  <2> HIDE DEF R
  <2>2. u \in [1 .. n -> R]
    BY <1>2, <2>1
  <2> QED
    BY <2>2 DEF R
<1>4. u \in Seq({u[k] : k \in DOMAIN u})
  BY ONLY <1>3, n \in Nat, IsSeq
<1> QED
  BY <1>1, <1>2, <1>4 DEF Extension

LEMMA ReadClusterKeeps == NandFsInv /\ ReadCluster => NandFsInv'
<1> SUFFICES ASSUME NandFsInv, ReadCluster PROVE NandFsInv'
  OBVIOUS
<1>0. ClusterSize \in Nat \ {0}
  BY NandFsAssumption
<1>1. /\ call = "read" /\ call' = "read" /\ todo > 0
      /\ UNCHANGED <<nand, sffs, initialized, cur, names, path, straight>>
  BY DEF ReadCluster, CallGoes, openVars
<1>2. /\ todo \in Nat /\ fp.size \in Nat /\ fp.offset \in 0 .. fp.size /\ answer.at \in 0 .. fp.size /\ answer.count \in Nat
      /\ answer.bytes \in Seq({answer.bytes[k] : k \in DOMAIN answer.bytes})
      /\ fp = [first_cluster |-> fp.first_cluster, cur_cluster |-> fp.cur_cluster,
               size |-> fp.size, offset |-> fp.offset]
      /\ answer = [at |-> answer.at, count |-> answer.count, bytes |-> answer.bytes]
  BY DEF NandFsInv, NfTypes
<1>3. PICK start \in Nat, had \in Nat, off \in Nat, size \in Nat, owed \in Nat, left \in Nat :
          /\ start = answer.at /\ had = Len(answer.bytes) /\ off = fp.offset /\ size = fp.size /\ owed = Due
          /\ left = todo /\ left > 0 /\ start + had = off /\ had + left = owed /\ owed <= size - start /\ start <= size
  <2>1. Len(answer.bytes) \in Nat
    BY <1>2
  <2>2. Due \in Nat /\ Due <= fp.size - answer.at
    BY <1>2 DEF Due
  <2>3. answer.at + Len(answer.bytes) = fp.offset /\ Len(answer.bytes) + todo = Due
    BY <1>1 DEF NandFsInv, AnswerInv
  <2>4. answer.at \in Nat /\ fp.offset \in Nat /\ answer.at <= fp.size /\ fp.size \in Nat /\ todo \in Nat /\ todo > 0
    BY <1>1, <1>2
  <2> QED
    BY <2>1, <2>2, <2>3, <2>4
<1>18. PICK bytes : /\ bytes = answer.bytes /\ Len(bytes) = had /\ DOMAIN bytes = 1 .. had
                    /\ \E S : bytes \in Seq(S)
  <2>1. PICK b : b = answer.bytes /\ b \in Seq({answer.bytes[k] : k \in DOMAIN answer.bytes})
    BY <1>2
  <2>2. DOMAIN b = 1 .. Len(b) /\ Len(b) = had
    BY <1>3, <2>1
  <2> QED
    BY <2>1, <2>2
<1>4. PICK from \in 0 .. ClusterSize - 1 : from = off % ClusterSize
  BY OffsetDivision
<1>5. PICK len \in Nat \ {0} : /\ len = IF ClusterSize - from > todo THEN todo ELSE ClusterSize - from
                               /\ from + len <= ClusterSize /\ len <= left
  <2>1. PICK room \in Nat \ {0} : room = ClusterSize - from /\ from + room = ClusterSize /\ from \in Nat
    BY <1>0
  <2>2. left \in Nat /\ left > 0 /\ left = todo
    BY <1>3
  <2> QED
    BY <2>1, <2>2
<1>6. PICK cl : cl = fp.cur_cluster
  OBVIOUS
<1>7. PICK read : /\ read = [k \in 1 .. len |-> Byte(cl, from + k - 1)]
                  /\ answer' = [answer EXCEPT !.bytes = @ \o read]
                  /\ fp' = [fp EXCEPT !.offset = @ + len, !.cur_cluster = After(@, from + len)]
                  /\ todo' = todo - len
  BY <1>3, <1>4, <1>5, <1>6 DEF ReadCluster
<1>8. /\ answer' = [at |-> answer'.at, count |-> answer'.count, bytes |-> answer'.bytes]
      /\ answer'.at = start /\ answer'.count = answer.count /\ answer'.bytes = bytes \o read
  BY <1>2, <1>3, <1>7, <1>18
<1>9. /\ fp' = [first_cluster |-> fp'.first_cluster, cur_cluster |-> fp'.cur_cluster,
                size |-> fp'.size, offset |-> fp'.offset]
      /\ fp'.first_cluster = fp.first_cluster /\ fp'.size = size /\ fp'.offset = off + len
      /\ fp'.cur_cluster = After(cl, from + len)
  BY <1>2, <1>3, <1>6, <1>7
<1>10. PICK all : /\ all = bytes \o read /\ all \in Seq({all[k] : k \in DOMAIN all})
                  /\ Len(all) = had + len /\ DOMAIN all = 1 .. had + len
                  /\ \A k \in 1 .. had + len : all[k] = IF k <= had THEN bytes[k] ELSE read[k - had]
  <2>1. PICK S : bytes \in Seq(S)
    BY <1>18
  <2> DEFINE T == S \cup {read[k] : k \in 1 .. len}
  <2>2. bytes \in Seq(T)
    BY <2>1
  <2>3. read \in [1 .. len -> T]
    BY <1>7
  <2> HIDE DEF T
  <2>4. read \in Seq(T) /\ Len(read) = len
    BY ONLY <2>3, len \in Nat \ {0}, IsSeq
  <2>5. PICK all : all = bytes \o read
    OBVIOUS
  <2>6. Extension(all, bytes, read)
    BY Zenon, <2>2, <2>4, <2>5, Extended
  <2>7. Len(bytes) = had /\ Len(read) = len
    BY <1>18, <2>4
  <2> QED
    BY ONLY ZenonT(40), <2>5, <2>6, <2>7 DEF Extension
<1>11. todo' \in Nat /\ todo' = left - len /\ off + len \in 0 .. size
  <2>1. len \in Nat /\ len <= left /\ todo' = left - len
    BY <1>3, <1>5, <1>7
  <2>2. start + had = off /\ had + left = owed /\ owed <= size - start
    BY <1>3
  <2>3. start + owed <= size
    BY <2>2
  <2>4. off + left <= size
    BY <2>2, <2>3
  <2> QED
    BY <2>1, <2>4
<1>12. NfTypes'
  <2>1. answer'.bytes \in Seq({answer'.bytes[k] : k \in DOMAIN answer'.bytes})
    <3>1. answer'.bytes = all
      BY <1>8, <1>10
    <3>2. all \in Seq({all[k] : k \in DOMAIN all})
      BY <1>10
    <3> QED
      BY ZenonT(40), <3>1, <3>2
  <2>2. fp'.size \in Nat /\ fp'.offset \in 0 .. fp'.size /\ answer'.at \in 0 .. fp'.size /\ answer'.count \in Nat
    BY <1>2, <1>3, <1>8, <1>9, <1>11
  <2>3. nand' \in Images /\ initialized' \in BOOLEAN /\ names' \in Paths \cup {<<>>} /\ (path' # <<>> => path' = names')
    BY <1>1 DEF NandFsInv, NfTypes
  <2> QED
    BY <1>1, <1>8, <1>9, <1>11, <2>1, <2>2, <2>3 DEF NfTypes
<1>13. AnswerInv'
  <2>1. Due' = owed
    BY <1>3, <1>8, <1>9 DEF Due
  <2>2. Len(answer'.bytes) = had + len
    BY <1>8, <1>10
  <2>3. start + (had + len) = off + len /\ (had + len) + (left - len) = owed
    <3>1. start + had = off /\ had + left = owed
      BY <1>3
    <3> QED
      BY <3>1
  <2>4. path = <<>> => size = 0
    BY <1>3 DEF NandFsInv, AnswerInv
  <2> QED
    BY <1>1, <1>8, <1>9, <1>11, <2>1, <2>2, <2>3, <2>4 DEF AnswerInv
<1>14. ScanInv' /\ LookInv'
  BY <1>1 DEF ScanInv, LookInv
<1>15. ChosenInv'
  BY <1>1, ChipStays DEF NandFsInv, ChosenInv
<1>16. FoundInv'
  BY <1>1, FoundKept DEF NandFsInv
<1>17. FileInv'
  <2> SUFFICES ASSUME path # <<>> PROVE \E node \in Files(path)' : FileIs(node)'
    BY <1>1 DEF FileInv
  <2>1. PICK node \in Files(path) : FileIs(node)
    BY DEF NandFsInv, FileInv
  <2>2. node \in Files(path)'
    <3>1. PICK to : to = path /\ to = path'
      BY <1>1
    <3>2. Files(to)' = Files(to)
      BY <1>1, ChipStays
    <3> QED
      BY <2>1, <3>1, <3>2
  <2>3. /\ (off + len) \div ClusterSize =
             IF from + len = ClusterSize THEN (off \div ClusterSize) + 1 ELSE off \div ClusterSize
        /\ \A j \in 0 .. len - 1 : /\ (off + j) \div ClusterSize = off \div ClusterSize
                                   /\ (off + j) % ClusterSize = from + j
    BY <1>4, <1>5, NextOffset
  <2>4. ASSUME straight PROVE cl = ClusterAt(node, off)
    BY <1>1, <1>3, <1>6, <2>1, <2>4 DEF FileIs, Following
  <2>5. ASSUME straight PROVE Answers(node)'
    <3>1. \A k \in 1 .. had, o \in Nat : o = start + k - 1 => bytes[k] = ByteAt(node, o)
      <4> QED
        BY <1>3, <1>18, <2>1, <2>5 DEF FileIs, Answers
    <3>2. ASSUME NEW k \in had + 1 .. had + len, NEW o \in Nat, o = start + k - 1
          PROVE  all[k] = ByteAt(node, o)
      <4>1. PICK j \in 0 .. len - 1 : j = k - had - 1 /\ o = off + j /\ k - had \in 1 .. len /\ from + (k - had) - 1 = from + j
        <5>1. k - had - 1 \in 0 .. len - 1 /\ k - had \in 1 .. len
          OBVIOUS
        <5>2. o = off + (k - had - 1)
          <6>1. start + had = off /\ o = start + k - 1
            BY <1>3, <3>2
          <6> QED
            BY <6>1
        <5>3. from \in Int
          BY <1>0
        <5> QED
          BY <5>1, <5>2, <5>3
      <4>2. all[k] = read[k - had]
        <5>1. k \in 1 .. had + len /\ ~(k <= had)
          OBVIOUS
        <5> QED
          BY <1>10, <5>1
      <4>3. all[k] = Byte(cl, from + j)
        BY <1>7, <4>1, <4>2
      <4>4. o \div ClusterSize = off \div ClusterSize /\ o % ClusterSize = from + j
        BY <2>3, <4>1
      <4>5. ClusterAt(node, o) = cl
        BY <2>4, <2>5, <4>4 DEF ClusterAt
      <4> QED
        BY <4>3, <4>4, <4>5 DEF ByteAt
    <3>3. \A k \in 1 .. had + len, o \in Nat : o = start + k - 1 => all[k] = ByteAt(node, o)
      <4> SUFFICES ASSUME NEW k \in 1 .. had + len, NEW o \in Nat, o = start + k - 1 PROVE all[k] = ByteAt(node, o)
        OBVIOUS
      <4>1. CASE k <= had
        <5>1. k \in 1 .. had
          BY <4>1
        <5>2. all[k] = bytes[k]
          BY <1>10, <4>1
        <5>3. bytes[k] = ByteAt(node, o)
          BY <3>1, <5>1, o = start + k - 1
        <5> QED
          BY <5>2, <5>3
      <4>2. CASE ~(k <= had)
        <5>1. k \in had + 1 .. had + len
          BY <4>2
        <5> QED
          BY <3>2, <5>1
      <4> QED
        BY <4>1, <4>2
    <3>4. \A o : ByteAt(node, o)' = ByteAt(node, o)
      BY <1>1, ChipStays
    <3>5. answer'.bytes = all /\ answer'.at = start /\ DOMAIN all = 1 .. had + len
      BY <1>8, <1>10
    <3> QED
      BY <3>3, <3>4, <3>5 DEF Answers
  <2>6. ASSUME straight PROVE Following(node)'
    <3>0. PICK x : x = Newest.files[node].first
      OBVIOUS
    <3>1. PICK a \in Nat, o \in Nat : a = off \div ClusterSize /\ o = off + len
      <4>1. off \div ClusterSize \in Nat
        BY OffsetDivision
      <4>2. off + len \in Nat
        OBVIOUS
      <4> QED
        BY <4>1, <4>2
    <3>2. cl = Chain(x)[a]
      BY <2>4, <2>6, <3>0, <3>1 DEF ClusterAt
    <3>3. sffs = Newest
      BY <1>1, <2>1 DEF NandFsInv, ChosenInv, FoundInv
    <3>4. After(cl, from + len) = ClusterAt(node, o)
      <4>1. CASE from + len = ClusterSize
        <5>1. After(cl, from + len) = Newest.table[cl]
          <6>1. from + len >= ClusterSize
            BY <1>0, <4>1
          <6> QED
            BY <3>3, <6>1 DEF After
        <5>2. ClusterAt(node, o) = Chain(x)[a + 1]
          <6>1. o \div ClusterSize = a + 1
            BY <2>3, <3>1, <4>1
          <6> QED
            BY <3>0, <3>1, <6>1 DEF ClusterAt
        <5> QED
          BY <3>2, <5>1, <5>2, ChainFollows
      <4>2. CASE from + len # ClusterSize
        <5>1. ~(from + len >= ClusterSize)
          BY <1>0, <1>5, <4>2
        <5>2. ClusterAt(node, o) = Chain(x)[a]
          <6>1. o \div ClusterSize = a
            BY <2>3, <3>1, <4>2
          <6> QED
            BY <3>0, <3>1, <6>1 DEF ClusterAt
        <5> QED
          BY <3>2, <5>1, <5>2 DEF After
      <4> QED
        BY <4>1, <4>2
    <3>5. ClusterAt(node, o)' = ClusterAt(node, o)
      BY <1>1, ChipStays
    <3> QED
      BY <1>1, <1>9, <3>1, <3>4, <3>5 DEF Following
  <2>7. fp'.size = Newest'.files[node].size /\ fp'.first_cluster = Newest'.files[node].first
    BY <1>1, <1>3, <1>9, <2>1, ChipStays DEF FileIs
  <2>8. FileIs(node)'
    BY <1>1, <2>5, <2>6, <2>7 DEF FileIs
  <2> QED
    BY <2>2, <2>8
<1> QED
  BY <1>12, <1>13, <1>14, <1>15, <1>16, <1>17 DEF NandFsInv

-----------------------------------------------------------------------------
LEMMA nandfs_seekKeeps ==
    ASSUME NEW offset \in Offsets, NEW whence \in {"SET", "CUR", "END"}
    PROVE  NandFsInv /\ nandfs_seek(offset, whence) => NandFsInv'
<1> SUFFICES ASSUME NandFsInv, nandfs_seek(offset, whence) PROVE NandFsInv'
  OBVIOUS
<1>0. ClusterSize \in Nat \ {0} /\ offset \in Int
  BY NandFsAssumption
<1>1. /\ call = "none" /\ answer' = NoAnswer /\ initialized
      /\ UNCHANGED <<nand, sffs, initialized, cur, names, path>>
  BY DEF nandfs_seek, CallStarts, openVars
<1>2. /\ fp.size \in Nat /\ fp.offset \in 0 .. fp.size
      /\ fp = [first_cluster |-> fp.first_cluster, cur_cluster |-> fp.cur_cluster,
               size |-> fp.size, offset |-> fp.offset]
  BY DEF NandFsInv, NfTypes
<1>3. PICK to \in Int : to = From(whence) + offset
  BY <1>0, <1>2 DEF From
<1>4. answer'.bytes = <<>>
  BY <1>1 DEF NoAnswer
<1>5. /\ answer' = [at |-> answer'.at, count |-> answer'.count, bytes |-> answer'.bytes]
      /\ answer'.at = 0 /\ answer'.count = 0
      /\ answer'.bytes \in Seq({answer'.bytes[k] : k \in DOMAIN answer'.bytes})
  BY <1>1 DEF NoAnswer
<1>6. ScanInv' /\ LookInv' /\ ChosenInv' /\ FoundInv'
  <2>1. call' \in {"none", "seek"}
    BY DEF nandfs_seek, CallStarts
  <2>2. ScanInv' /\ LookInv'
    BY <2>1 DEF ScanInv, LookInv
  <2>3. ChosenInv'
    BY <1>1, <2>1, ChipStays DEF NandFsInv, ChosenInv
  <2>4. FoundInv'
    BY <1>1, FoundKept DEF NandFsInv
  <2> QED
    BY <2>2, <2>3, <2>4
<1>7. CASE to < 0 \/ to > fp.size
  <2>1. call' = "none" /\ todo' = 0 /\ UNCHANGED <<fp, straight>>
    BY <1>3, <1>7 DEF nandfs_seek, CallStarts
  <2>2. Due' = 0 /\ Len(answer'.bytes) = 0
    BY <1>1, <1>2, <2>1, NothingDue DEF NandFsInv
  <2>3. NfTypes'
    BY <1>1, <1>2, <1>5, <2>1 DEF NandFsInv, NfTypes
  <2>4. AnswerInv'
    BY <1>1, <2>1, <2>2 DEF NandFsInv, AnswerInv
  <2>5. FileInv'
    BY <1>1, <1>4, <2>1, FileKept DEF NandFsInv
  <2> QED
    BY <1>6, <2>3, <2>4, <2>5 DEF NandFsInv
<1>8. CASE ~(to < 0 \/ to > fp.size)
  <2>1. to \in 0 .. fp.size /\ to \in Nat
    BY <1>2, <1>8
  <2>2. /\ call' = "seek" /\ todo' = to
        /\ fp' = [fp EXCEPT !.offset = to, !.cur_cluster = fp.first_cluster]
        /\ straight' = (to = 0 \/ to % ClusterSize # 0)
    BY <1>3, <1>8 DEF nandfs_seek, CallStarts
  <2>3. /\ fp' = [first_cluster |-> fp'.first_cluster, cur_cluster |-> fp'.cur_cluster,
                  size |-> fp'.size, offset |-> fp'.offset]
        /\ fp'.size = fp.size /\ fp'.offset = to
        /\ fp'.first_cluster = fp.first_cluster /\ fp'.cur_cluster = fp.first_cluster
    BY <1>2, <2>2
  <2>4. Due' = 0 /\ Len(answer'.bytes) = 0
    BY <1>1, <1>2, <2>3, NothingDue DEF NandFsInv
  <2>5. NfTypes'
    <3>1. fp'.size \in Nat /\ fp'.offset \in 0 .. fp'.size /\ answer'.at \in 0 .. fp'.size /\ todo' \in Nat
      BY <1>2, <1>5, <2>1, <2>2, <2>3
    <3> QED
      BY <1>1, <1>5, <2>2, <2>3, <3>1 DEF NandFsInv, NfTypes
  <2>6. AnswerInv'
    BY <1>1, <2>2, <2>3, <2>4 DEF NandFsInv, AnswerInv
  <2>7. FileInv'
    <3> SUFFICES ASSUME path # <<>> PROVE \E node \in Files(path)' : FileIs(node)'
      BY <1>1 DEF FileInv
    <3>1. PICK node \in Files(path) : FileIs(node)
      BY DEF NandFsInv, FileInv
    <3>2. node \in Files(path)'
      <4>1. PICK wanted : wanted = path /\ wanted = path'
        BY <1>1
      <4>2. Files(wanted)' = Files(wanted)
        BY <1>1, ChipStays
      <4> QED
        BY <3>1, <4>1, <4>2
    <3>3. Answers(node)'
      BY <1>4 DEF Answers
    <3>4. fp.size = Newest.files[node].size /\ fp.first_cluster = Newest.files[node].first
      BY <3>1 DEF FileIs
    <3>5. Skipping(node)'
      <4>1. PICK x : x = Newest.files[node].first
        OBVIOUS
      <4>2. Chain(x)' = Chain(x) /\ Newest' = Newest
        BY <1>1, ChipStays
      <4>3. fp'.cur_cluster = Chain(x)[0]
        BY <2>3, <3>4, <4>1, ChainFollows
      <4>4. 0 = 0 * ClusterSize /\ to = 0 + to
        BY <1>0
      <4>5. 0 \in Nat /\ 0 = 0 * ClusterSize /\ fp'.offset = 0 + todo' /\ fp'.cur_cluster = (Chain(Newest.files[node].first)')[0]
        BY <2>2, <2>3, <4>1, <4>2, <4>3, <4>4
      <4> QED
        BY <4>1, <4>2, <4>5 DEF Skipping
    <3>6. straight' => fp'.offset = 0 \/ fp'.offset % ClusterSize # 0
      BY <2>2, <2>3
    <3>7. straight' => Following(node)'
      BY <2>2, <3>5, <3>6 DEF Following
    <3> QED
      BY <1>1, <2>3, <3>2, <3>3, <3>4, <3>7, ChipStays DEF FileIs
  <2> QED
    BY <1>6, <2>5, <2>6, <2>7 DEF NandFsInv
<1> QED
  BY <1>7, <1>8

LEMMA SkipClusterKeeps == NandFsInv /\ SkipCluster => NandFsInv'
<1> SUFFICES ASSUME NandFsInv, SkipCluster PROVE NandFsInv'
  OBVIOUS
<1>0. ClusterSize \in Nat \ {0}
  BY NandFsAssumption
<1>1. /\ call = "seek" /\ call' = "seek" /\ todo > ClusterSize /\ todo' = todo - ClusterSize
      /\ fp' = [fp EXCEPT !.cur_cluster = sffs.table[@]]
      /\ UNCHANGED <<nand, sffs, initialized, cur, names, path, straight, answer>>
  BY DEF SkipCluster, CallGoes, openVars
<1>2. /\ todo \in Nat
      /\ fp = [first_cluster |-> fp.first_cluster, cur_cluster |-> fp.cur_cluster,
               size |-> fp.size, offset |-> fp.offset]
  BY DEF NandFsInv, NfTypes
<1>3. todo' \in Nat
  BY <1>0, <1>1, <1>2
<1>4. /\ fp' = [first_cluster |-> fp'.first_cluster, cur_cluster |-> fp'.cur_cluster,
                size |-> fp'.size, offset |-> fp'.offset]
      /\ fp'.size = fp.size /\ fp'.offset = fp.offset /\ fp'.first_cluster = fp.first_cluster
      /\ fp'.cur_cluster = sffs.table[fp.cur_cluster]
  BY <1>1, <1>2
<1>5. NfTypes'
  BY <1>1, <1>3, <1>4 DEF NandFsInv, NfTypes
<1>6. ScanInv' /\ LookInv' /\ ChosenInv' /\ FoundInv'
  <2>1. ScanInv' /\ LookInv'
    BY <1>1 DEF ScanInv, LookInv
  <2>2. ChosenInv'
    BY <1>1, ChipStays DEF NandFsInv, ChosenInv
  <2>3. FoundInv'
    BY <1>1, FoundKept DEF NandFsInv
  <2> QED
    BY <2>1, <2>2, <2>3
<1>7. AnswerInv'
  <2>1. Due' = Due
    BY <1>1, <1>4 DEF Due
  <2> QED
    BY <1>1, <1>4, <2>1 DEF NandFsInv, AnswerInv
<1>8. FileInv'
  <2> SUFFICES ASSUME path # <<>> PROVE \E node \in Files(path)' : FileIs(node)'
    BY <1>1 DEF FileInv
  <2>1. PICK node \in Files(path) : FileIs(node)
    BY DEF NandFsInv, FileInv
  <2>2. node \in Files(path)'
    <3>1. PICK wanted : wanted = path /\ wanted = path'
      BY <1>1
    <3>2. Files(wanted)' = Files(wanted)
      BY <1>1, ChipStays
    <3> QED
      BY <2>1, <3>1, <3>2
  <2>3. ASSUME straight PROVE Answers(node)'
    <3>1. \A o : ByteAt(node, o)' = ByteAt(node, o)
      BY <1>1, ChipStays
    <3> QED
      BY <1>1, <2>1, <2>3, <3>1 DEF FileIs, Answers
  <2>4. ASSUME straight PROVE Following(node)'
    <3>1. PICK x : x = Newest.files[node].first
      OBVIOUS
    <3>2. Skipping(node) /\ (fp.offset = 0 \/ fp.offset % ClusterSize # 0)
      BY <1>1, <2>1, <2>4 DEF FileIs, Following
    <3>3. PICK n \in Nat, m \in Nat : m = n * ClusterSize /\ fp.offset = m + todo /\ fp.cur_cluster = Chain(x)[n]
      BY <3>1, <3>2 DEF Skipping
    <3>4. sffs = Newest
      BY <1>1, <2>1 DEF NandFsInv, ChosenInv, FoundInv
    <3>5. PICK p \in Nat, q \in Nat : p = n + 1 /\ q = p * ClusterSize /\ q + todo' = m + todo
      <4>1. (n + 1) * ClusterSize = m + ClusterSize
        BY <1>0, <3>3
      <4>2. m + ClusterSize \in Nat /\ n + 1 \in Nat
        BY <1>0
      <4>3. (m + ClusterSize) + (todo - ClusterSize) = m + todo
        BY <1>0, <1>2
      <4> QED
        BY <1>1, <4>1, <4>2, <4>3
    <3>6. fp'.cur_cluster = Chain(x)[p]
      BY SMTT(20), <1>4, <3>3, <3>4, <3>5, ChainFollows
    <3>7. Chain(x)' = Chain(x) /\ Newest' = Newest
      BY <1>1, ChipStays
    <3>8. fp'.offset = q + todo'
      BY <1>4, <3>3, <3>5
    <3>9. Skipping(node)'
      BY <3>1, <3>5, <3>6, <3>7, <3>8 DEF Skipping
    <3> QED
      BY <1>1, <1>4, <3>2, <3>9 DEF Following
  <2> QED
    BY <1>1, <1>4, <2>1, <2>2, <2>3, <2>4, ChipStays DEF FileIs
<1> QED
  BY <1>5, <1>6, <1>7, <1>8 DEF NandFsInv

LEMMA SkippedKeeps == NandFsInv /\ Skipped => NandFsInv'
<1> SUFFICES ASSUME NandFsInv, Skipped PROVE NandFsInv'
  OBVIOUS
<1>0. ClusterSize \in Nat \ {0}
  BY NandFsAssumption
<1>1. /\ call = "seek" /\ call' = "none" /\ todo <= ClusterSize
      /\ UNCHANGED <<nand, sffs, initialized, fp, todo, cur, names, path, straight, answer>>
  BY DEF Skipped, CallReturns, openVars
<1>2. NfTypes'
  BY <1>1 DEF NandFsInv, NfTypes
<1>3. ScanInv' /\ LookInv' /\ ChosenInv' /\ FoundInv'
  <2>1. ScanInv' /\ LookInv'
    BY <1>1 DEF ScanInv, LookInv
  <2>2. ChosenInv'
    BY <1>1, ChipStays DEF NandFsInv, ChosenInv
  <2>3. FoundInv'
    BY <1>1, FoundKept DEF NandFsInv
  <2> QED
    BY <2>1, <2>2, <2>3
<1>4. AnswerInv'
  <2>1. Due' = Due
    BY <1>1 DEF Due
  <2> QED
    BY <1>1, <2>1 DEF NandFsInv, AnswerInv
<1>5. FileInv'
  <2> SUFFICES ASSUME path # <<>> PROVE \E node \in Files(path)' : FileIs(node)'
    BY <1>1 DEF FileInv
  <2>1. PICK node \in Files(path) : FileIs(node)
    BY DEF NandFsInv, FileInv
  <2>2. node \in Files(path)'
    <3>1. PICK wanted : wanted = path /\ wanted = path'
      BY <1>1
    <3>2. Files(wanted)' = Files(wanted)
      BY <1>1, ChipStays
    <3> QED
      BY <2>1, <3>1, <3>2
  <2>3. ASSUME straight PROVE Answers(node)'
    <3>1. \A o : ByteAt(node, o)' = ByteAt(node, o)
      BY <1>1, ChipStays
    <3> QED
      BY <1>1, <2>1, <2>3, <3>1 DEF FileIs, Answers
  <2>4. ASSUME straight PROVE Following(node)'
    <3>1. PICK x : x = Newest.files[node].first
      OBVIOUS
    <3>2. Skipping(node) /\ (fp.offset = 0 \/ fp.offset % ClusterSize # 0)
      BY <1>1, <2>1, <2>4 DEF FileIs, Following
    <3>3. PICK n \in Nat, m \in Nat, left \in Nat, o \in Nat :
              /\ m = n * ClusterSize /\ o = fp.offset /\ left = todo /\ o = m + left /\ fp.cur_cluster = Chain(x)[n]
      <4>1. todo \in Nat /\ fp.offset \in Nat
        BY DEF NandFsInv, NfTypes
      <4> QED
        BY <3>1, <3>2, <4>1 DEF Skipping
    <3>4. left # ClusterSize
      <4> SUFFICES ASSUME left = ClusterSize PROVE FALSE
        OBVIOUS
      <4>1. PICK p \in Nat : p = n + 1 /\ o = p * ClusterSize
        <5>1. (n + 1) * ClusterSize = m + ClusterSize
          BY <1>0, <3>3
        <5> QED
          BY <3>3, <5>1
      <4>2. 0 \in 0 .. ClusterSize - 1
        BY <1>0
      <4>3. (o + 0) % ClusterSize = 0
        BY <4>1, <4>2, OffsetOf
      <4>4. o + 0 = o /\ o # 0
        BY <1>0, <3>3
      <4> QED
        BY <3>2, <3>3, <4>3, <4>4
    <3>5. left \in 0 .. ClusterSize - 1
      BY <1>0, <1>1, <3>3, <3>4
    <3>6. o \div ClusterSize = n
      BY <3>3, <3>5, OffsetOf
    <3>7. fp.cur_cluster = ClusterAt(node, o)
      BY <3>1, <3>3, <3>6 DEF ClusterAt
    <3>8. ClusterAt(node, o)' = ClusterAt(node, o)
      BY <1>1, ChipStays
    <3> QED
      BY <1>1, <3>3, <3>7, <3>8 DEF Following
  <2> QED
    BY <1>1, <2>1, <2>2, <2>3, <2>4, ChipStays DEF FileIs
<1> QED
  BY <1>2, <1>3, <1>4, <1>5 DEF NandFsInv

-----------------------------------------------------------------------------
LEMMA NandFsStep == NandFsInv /\ [NandFsNext]_nandfsVars => NandFsInv'
<1> SUFFICES ASSUME NandFsInv, [NandFsNext]_nandfsVars PROVE NandFsInv'
  OBVIOUS
<1>1. CASE UNCHANGED nandfsVars
  <2>1. /\ nand' = nand /\ sffs' = sffs /\ initialized' = initialized /\ fp' = fp /\ call' = call /\ todo' = todo
        /\ cur' = cur /\ names' = names /\ path' = path /\ straight' = straight /\ answer' = answer
    BY <1>1 DEF nandfsVars, openVars
  <2>2. NfTypes' /\ ScanInv' /\ ChosenInv'
    <3>1. Newest' = Newest /\ HasNewest' = HasNewest
      BY <2>1 DEF Newest, HasNewest, IsNewest
    <3>2. BestSuper(Len(nand) - todo)' = BestSuper(Len(nand) - todo)
      BY <2>1 DEF BestSuper
    <3> QED
      BY <2>1, <3>1, <3>2 DEF NandFsInv, NfTypes, ScanInv, ChosenInv
  <2>3. LookInv'
    <3>1. \A x : Siblings(x)' = Siblings(x) /\ Entries(x)' = Entries(x)
      BY <2>1, ChipStays
    <3>2. Newest' = Newest /\ Nodes' = Nodes /\ (Unambiguous' <=> Unambiguous)
      BY <2>1, ChipStays
    <3>3. \A to, nodes : Leads(nodes, to)' <=> Leads(nodes, to)
      BY <2>1, ChipStays
    <3>4. \A nodes : LeadsHere(nodes)' <=> LeadsHere(nodes)
      BY <2>1, <3>1, <3>2 DEF LeadsHere, Depth, Parent
    <3>5. \A nodes : Wanted(nodes)' <=> Wanted(nodes)
      <4>1. PICK to : to = names /\ to = names'
        BY <2>1
      <4> QED
        BY <3>2, <3>3, <4>1 DEF Wanted
    <3>6. Siblings(cur)' = Siblings(cur) /\ Depth' = Depth
      BY <2>1, <3>1 DEF Depth
    <3> QED
      BY <2>1, <3>2, <3>4, <3>5, <3>6 DEF NandFsInv, LookInv
  <2>4. FoundInv' /\ AnswerInv'
    <3>1. PICK to : to = names /\ to = names'
      BY <2>1
    <3>2. Files(to)' = Files(to) /\ (Unambiguous' <=> Unambiguous)
      BY <2>1, ChipStays
    <3> QED
      BY <2>1, <3>1, <3>2 DEF NandFsInv, FoundInv, AnswerInv, Due
  <2>5. FileInv'
    <3>1. PICK to : to = path /\ to = path'
      BY <2>1
    <3>2. Files(to)' = Files(to) /\ Newest' = Newest
      BY <2>1, ChipStays
    <3>3. \A x : Chain(x)' = Chain(x)
      BY <2>1, ChipStays
    <3>4. \A node, o : ClusterAt(node, o)' = ClusterAt(node, o) /\ ByteAt(node, o)' = ByteAt(node, o)
      BY <2>1, ChipStays
    <3>5. \A node : FileIs(node)' <=> FileIs(node)
      BY <2>1, <3>2, <3>3, <3>4 DEF FileIs, Answers, Following, Skipping
    <3> QED
      BY <2>1, <3>1, <3>2, <3>5 DEF NandFsInv, FileInv
  <2> QED
    BY <2>2, <2>3, <2>4, <2>5 DEF NandFsInv
<1>2. CASE nandfs_initialize \/ ReadSuper \/ SupersRead
  BY <1>2, nandfs_initializeKeeps, ReadSuperKeeps, SupersReadKeeps
<1>3. CASE \E wanted \in Paths : nandfs_open(wanted)
  BY <1>3, nandfs_openKeeps
<1>4. CASE EnterDir \/ OpenFile \/ NextSibling \/ NotFound
  BY <1>4, EnterDirKeeps, OpenFileKeeps, NextSiblingKeeps, NotFoundKeeps
<1>5. CASE \E count \in Counts : nandfs_read(count)
  BY <1>5, nandfs_readKeeps
<1>6. CASE ReadCluster \/ AllRead
  BY <1>6, ReadClusterKeeps, AllReadKeeps
<1>7. CASE \E offset \in Offsets, whence \in {"SET", "CUR", "END"} : nandfs_seek(offset, whence)
  BY <1>7, nandfs_seekKeeps
<1>8. CASE SkipCluster \/ Skipped
  BY <1>8, SkipClusterKeeps, SkippedKeeps
<1> QED
  BY <1>1, <1>2, <1>3, <1>4, <1>5, <1>6, <1>7, <1>8 DEF NandFsNext

LEMMA NandFsInvReads == NandFsInv => ReadsItsFile
<1> SUFFICES ASSUME NandFsInv, initialized PROVE ReadsItsFile
  BY DEF ReadsItsFile
<1>1. /\ fp.size \in Nat /\ fp.offset \in 0 .. fp.size /\ answer.at \in 0 .. fp.size /\ answer.count \in Nat
      /\ answer.bytes \in Seq({answer.bytes[k] : k \in DOMAIN answer.bytes})
  BY DEF NandFsInv, NfTypes
<1>2. CASE path = <<>>
  <2>1. fp.size = 0
    BY <1>2 DEF NandFsInv, AnswerInv
  <2>2. Due = 0
    BY <1>1, <2>1 DEF Due
  <2>3. Len(answer.bytes) = 0
    <3>1. Len(answer.bytes) \in Nat
      BY <1>1
    <3>2. CASE call = "read"
      <4>1. Len(answer.bytes) + todo = 0 /\ todo \in Nat
        BY <2>2, <3>2 DEF NandFsInv, NfTypes, AnswerInv
      <4> QED
        BY <3>1, <4>1
    <3>3. CASE call # "read"
      BY <2>2, <3>3 DEF NandFsInv, AnswerInv
    <3> QED
      BY <3>2, <3>3
  <2>4. answer.bytes = <<>>
    BY <1>1, <2>3, EmptySeq
  <2> QED
    BY <1>2, <2>4 DEF NandFsInv, FoundInv, ReadsItsFile
<1>3. CASE path # <<>>
  <2>1. PICK node \in Files(path) : FileIs(node)
    BY <1>3 DEF NandFsInv, FileInv
  <2>2. fp.size = Newest.files[node].size
    BY <2>1 DEF FileIs
  <2>3. call # "read" => Len(answer.bytes) = Due
    BY DEF NandFsInv, AnswerInv
  <2>4. Due = IF answer.count < Newest.files[node].size - answer.at
              THEN answer.count ELSE Newest.files[node].size - answer.at
    BY <2>2 DEF Due
  <2>5. ASSUME straight, NEW k \in DOMAIN answer.bytes
        PROVE  answer.bytes[k] = ByteAt(node, answer.at + k - 1)
    <3>1. PICK o \in Nat : o = answer.at + k - 1
      <4>1. k \in Nat /\ k > 0 /\ answer.at \in Nat
        BY <1>1
      <4>2. answer.at + k - 1 \in Nat
        BY ONLY <4>1
      <4> QED
        BY <4>2
    <3>2. answer.bytes[k] = ByteAt(node, o)
      BY <2>1, <2>5, <3>1 DEF FileIs, Answers
    <3> QED
      BY <3>1, <3>2
  <2>6. ASSUME straight, call # "seek" PROVE fp.cur_cluster = ClusterAt(node, fp.offset)
    <3>1. PICK o \in Nat : o = fp.offset
      BY <1>1
    <3>2. fp.cur_cluster = ClusterAt(node, o)
      BY <2>1, <2>6, <3>1 DEF FileIs, Following
    <3> QED
      BY <3>1, <3>2
  <2> QED
    BY <1>3, <2>2, <2>3, <2>4, <2>5, <2>6 DEF ReadsItsFile
<1> QED
  BY <1>2, <1>3

(* On every chip of sound superblocks, for every size of a cluster and for *)
(* all paths, counts and offsets: nandfs_open finds a file of the newest   *)
(* superblock if there is one, and nandfs_read answers its bytes from the  *)
(* offset on, whatever was opened, read and sought before - but after a    *)
(* seek exactly to the start of a later cluster.                           *)
THEOREM ReadsItsFileAlways == NandFsSpec => []ReadsItsFile
<1>1. NandFsInit => NandFsInv
  BY NandFsInitOk
<1>2. NandFsInv /\ [NandFsNext]_nandfsVars => NandFsInv'
  BY NandFsStep
<1>3. NandFsInv => ReadsItsFile
  BY NandFsInvReads
<1> QED
  BY <1>1, <1>2, <1>3, PTL DEF NandFsSpec

=============================================================================
