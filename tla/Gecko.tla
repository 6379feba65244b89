-------------------------------- MODULE Gecko --------------------------------
(***************************************************************************)
(* Programs sent over USB Gecko (mini/gecko.c) and what becomes of them:   *)
(* the alarm interrupt assembles a command, a size and an image from the   *)
(* bytes that arrive and hands the image to the main loop through the slow *)
(* queue; the main loop loads it for the PowerPC (mini/powerpc_elf.c) or   *)
(* leaves to it (mini/main.c).                                             *)
(*                                                                         *)
(* The image arrives in memory that the main loop reads, and may still be  *)
(* reading, with interrupts on.  An image is a number of blocks; a block   *)
(* of memory is known by the program it came with.                         *)
(***************************************************************************)
EXTENDS Naturals, Sequences

CONSTANTS
    Base,            \* values of a byte
    WordMod,         \* values of a u32 that bytes are shifted into
    WordBytes,       \* bytes of it
    ArmCmd, PpcCmd,  \* GECKO_CMD_BIN_ARM, GECKO_CMD_BIN_PPC
    MaxLen,          \* GECKO_BUFFER_MAX
    FileLen,         \* blocks of ppcboot.elf
    Timeout,         \* 5 s in ticks of HW_TIMER
    TimerMod,        \* HW_TIMER wraps here
    MaxUploads       \* bound: commands recognised

ASSUME GeckoAssumption ==
    /\ Base \in Nat \ {0} /\ WordMod \in Nat \ {0} /\ WordBytes \in Nat \ {0}
    /\ MaxLen \in Nat /\ FileLen \in 0 .. MaxLen
    /\ Timeout \in Nat /\ TimerMod \in Nat \ {0}
    /\ MaxUploads \in Nat

Byte == 0 .. Base - 1
Word == 0 .. WordMod - 1
Time == 0 .. TimerMod - 1

(* Programs: the file on the card, the uploads, and what was there before. *)
File == 0
Upload == 1 .. MaxUploads
Other == MaxUploads + 1
Program == File .. Other

(* "low" starts at 0 (PowerPC programs, ARM uploads), "high" at 0x10100000 *)
(* (PowerPC uploads).                                                      *)
Memory == [{"low", "high"} -> [1 .. MaxLen -> Program]]

Job == [kind : {"boot", "jump"}, id : Program, len : 0 .. MaxLen]

VARIABLES
    now,          \* HW_TIMER
    polled,       \* the alarm has gone off since now changed
    cmd,          \* _gecko_cmd
    startTime,    \* _gecko_cmd_start_time
    state,        \* _gecko_state
    left,         \* _gecko_receive_left
    len,          \* _gecko_receive_len
    area,         \* _gecko_receive_buffer, less what has been received
    mem,          \* whose blocks the memory holds
    queue,        \* slow_queue
    main,         \* where the main program is
    job,          \* what it loads or leaves to
    pos,          \* blocks it has loaded
    running,      \* the PowerPC is not held in reset
    program,      \* what it was started with last
    uploads,      \* commands recognised
    age,          \* ticks since the last of them, Timeout + 1 for more
    owner,        \* the last upload whose size was accepted
    before        \* the programs that were queued or being loaded at that time

receiver == <<cmd, startTime, state, left, len, area>>
ppc == <<running, program>>
history == <<uploads, age, owner, before>>
vars == <<now, polled, receiver, mem, queue, main, job, pos, ppc, history>>

Nothing == [kind |-> "boot", id |-> Other, len |-> 0]

Init ==
    /\ now \in Time /\ polled = FALSE
    /\ cmd = 0 /\ startTime = 0 /\ state = "none" /\ left = 0 /\ len = 0 /\ area = "low"
    /\ mem = [a \in {"low", "high"} |-> [i \in 1 .. MaxLen |-> Other]]
    /\ queue = <<>> /\ main = "starting" /\ job = Nothing /\ pos = 0
    /\ running \in BOOLEAN /\ program = Nothing
    /\ uploads = 0 /\ age = 0 /\ owner = File /\ before = {}

-----------------------------------------------------------------------------
(* The timer.  A tick stands for a second, the alarm goes off every 20 ms. *)
Tick ==
    /\ polled
    /\ now' = (now + 1) % TimerMod
    /\ age' = IF age > Timeout THEN age ELSE age + 1
    /\ polled' = FALSE
    /\ UNCHANGED <<receiver, mem, queue, main, job, pos, ppc, uploads, owner, before>>

(***************************************************************************)
(* gecko_timer, in interrupt context: each action is one call of it, as    *)
(* far as what has arrived takes it.                                       *)
(***************************************************************************)
Alarm == main # "left" /\ polled' = TRUE /\ UNCHANGED <<now, main, job, pos, program>>

Deadline == (startTime + Timeout) % TimerMod

(* Faulty variant: >= for >. *)
TimedOutEarly == startTime # 0 /\ now >= Deadline

TimedOut == startTime # 0 /\ now > Deadline

Cleanup == cmd' = 0 /\ startTime' = 0 /\ state' = "none"

GiveUp ==
    /\ Alarm /\ TimedOut
    /\ Cleanup
    /\ UNCHANGED <<left, len, area, mem, queue, running, history>>

(* No byte has arrived, and one is needed. *)
Silence ==
    /\ Alarm /\ ~TimedOut
    /\ state = "buffer" => left > 0
    /\ UNCHANGED <<receiver, mem, queue, running, history>>

Shift(word, b) == (word * Base + b) % WordMod

CommandByte(b) ==
    /\ Alarm /\ ~TimedOut /\ state = "none"
    /\ cmd' = Shift(cmd, b)
    /\ IF cmd' \in {ArmCmd, PpcCmd}
       THEN /\ uploads < MaxUploads
            /\ state' = "size" /\ len' = 0 /\ left' = WordBytes
            /\ area' = IF cmd' = ArmCmd THEN "low" ELSE "high"
            /\ startTime' = now
            /\ uploads' = uploads + 1 /\ age' = 0
       ELSE UNCHANGED <<state, len, left, area, startTime, uploads, age>>
    /\ UNCHANGED <<mem, queue, running, owner, before>>

(* The programs that the main loop loads, or is going to. *)
Pending ==
    {queue[i].id : i \in DOMAIN queue}
        \cup (IF main = "loading" THEN {job.id} ELSE {})
        \cup (IF main \in {"starting", "booting"} THEN {File} ELSE {})

(* Faulty variant: nobody tells the PowerPC. *)
TakeMemoryOnly == running' = running

(* powerpc_hang. *)
TakeMemory == running' = FALSE

Fits(n) == n <= MaxLen

SizeByte(b) ==
    /\ Alarm /\ ~TimedOut /\ state = "size"
    /\ len' = Shift(len, b)
    /\ \/ /\ left > 1
          /\ left' = left - 1
          /\ UNCHANGED <<cmd, startTime, state, running, owner, before>>
       \/ /\ left = 1 /\ ~Fits(len')
          /\ left' = 0
          /\ Cleanup
          /\ UNCHANGED <<running, owner, before>>
       \/ /\ left = 1 /\ Fits(len')
          /\ state' = "buffer" /\ left' = len'
          /\ TakeMemory
          /\ owner' = uploads /\ before' = Pending
          /\ UNCHANGED <<cmd, startTime>>
    /\ UNCHANGED <<area, mem, queue, uploads, age>>

(* Faulty variant: the buffer pointer is a block behind. *)
ReceivedBehind(n) ==
    mem' = [mem EXCEPT ![area] =
              [i \in 1 .. MaxLen |-> IF i \in len - left .. len - left + n - 1 THEN uploads ELSE @[i]]]

(* The next n blocks of the image are there. *)
Received(n) ==
    mem' = [mem EXCEPT ![area] =
              [i \in 1 .. MaxLen |-> IF i \in len - left + 1 .. len - left + n THEN uploads ELSE @[i]]]

SomeBlocks(n) ==
    /\ Alarm /\ ~TimedOut /\ state = "buffer" /\ n < left
    /\ Received(n) /\ left' = left - n
    /\ UNCHANGED <<cmd, startTime, state, len, area, queue, running, history>>

Kind == IF cmd = ArmCmd THEN "jump" ELSE "boot"

(* The image is complete.  An ARM image is handed on only if its header is *)
(* right, which depends on data that is not modelled.                      *)
Complete ==
    /\ Alarm /\ ~TimedOut /\ state = "buffer"
    /\ Received(left) /\ left' = 0
    /\ \/ queue' = Append(queue, [kind |-> Kind, id |-> uploads, len |-> len])
       \/ Kind = "jump" /\ queue' = queue
    /\ Cleanup
    /\ UNCHANGED <<len, area, running, history>>

Receive ==
    \/ \E b \in Byte : CommandByte(b) \/ SizeByte(b)
    \/ \E n \in 1 .. MaxLen : SomeBlocks(n)
    \/ Complete

GeckoTimer == GiveUp \/ Silence \/ Receive

-----------------------------------------------------------------------------
(***************************************************************************)
(* The main program, interrupted between any two steps.                    *)
(***************************************************************************)
MainOnly == UNCHANGED <<now, polled, receiver, history>>

(* ipc_initialize empties the slow queue. *)
IpcInitialize ==
    /\ main = "starting" /\ main' = "booting"
    /\ queue' = <<>>
    /\ MainOnly /\ UNCHANGED <<mem, job, pos, ppc>>

(* A GameCube title, or powerpc_boot_file refuses ppcboot.elf: boot2_run,  *)
(* then shutdown.                                                          *)
NoBootFile ==
    /\ main = "booting" /\ main' = "leaving" /\ job' = Nothing
    /\ MainOnly /\ UNCHANGED <<mem, queue, pos, ppc>>

(* The loader stops the PowerPC once it has accepted a header. *)
StartLoading ==
    /\ main' = "loading" /\ pos' = 0
    /\ running' = FALSE

(* No card can be mounted: panic2 blinks forever, with interrupts on. *)
NoCard ==
    /\ main = "booting" /\ main' = "panicked"
    /\ MainOnly /\ UNCHANGED <<mem, queue, job, pos, ppc>>

BootFile ==
    /\ main = "booting"
    /\ job' = [kind |-> "boot", id |-> File, len |-> FileLen]
    /\ StartLoading
    /\ MainOnly /\ UNCHANGED <<mem, queue, program>>

Take == main = "loop" /\ queue # <<>> /\ job' = Head(queue) /\ queue' = Tail(queue)

(* powerpc_boot_mem: the header is refused, surely if there is none. *)
TakeRefused ==
    /\ Take /\ Head(queue).kind = "boot"
    /\ MainOnly /\ UNCHANGED <<mem, main, pos, ppc>>

TakeBoot ==
    /\ Take /\ Head(queue).kind = "boot" /\ Head(queue).len > 0
    /\ StartLoading
    /\ MainOnly /\ UNCHANGED <<mem, program>>

(* process_slow returns the vector. *)
TakeJump ==
    /\ Take /\ Head(queue).kind = "jump"
    /\ main' = "leaving"
    /\ MainOnly /\ UNCHANGED <<mem, pos, ppc>>

(* A block of a segment, from the file or from the uploaded image. *)
LoadBlock ==
    /\ main = "loading" /\ pos < job.len
    /\ pos' = pos + 1
    /\ mem' = [mem EXCEPT !["low"][pos'] = IF job.id = File THEN File ELSE mem["high"][pos']]
    /\ MainOnly /\ UNCHANGED <<queue, main, job, ppc>>

(* A segment is refused, or the file cannot be read. *)
LoadFails ==
    /\ main = "loading"
    /\ main' = IF job.id = File THEN "leaving" ELSE "loop"
    /\ job' = IF job.id = File THEN Nothing ELSE job
    /\ MainOnly /\ UNCHANGED <<mem, queue, pos, ppc>>

(* powerpc_upload_stub and powerpc_reset. *)
StartProgram ==
    /\ main = "loading" /\ pos = job.len
    /\ running' = TRUE /\ program' = job
    /\ main' = "loop"
    /\ MainOnly /\ UNCHANGED <<mem, queue, job, pos>>

(* ipc_shutdown, irq_shutdown, and a jump to the vector. *)
Leave ==
    /\ main = "leaving" /\ main' = "left"
    /\ MainOnly /\ UNCHANGED <<mem, queue, job, pos, ppc>>

Main ==
    \/ IpcInitialize \/ NoCard \/ NoBootFile \/ BootFile
    \/ TakeRefused \/ TakeBoot \/ TakeJump
    \/ LoadBlock \/ LoadFails \/ StartProgram \/ Leave

Next == Tick \/ GeckoTimer \/ Main

Spec == Init /\ [][Next]_vars

(* The main program runs, the timer counts, and the alarm goes off. *)
FairSpec == Spec /\ WF_vars(Main) /\ WF_vars(Tick) /\ WF_vars(GeckoTimer)

-----------------------------------------------------------------------------
TypeReceiver ==
    /\ now \in Time /\ startTime \in Time /\ polled \in BOOLEAN
    /\ cmd \in Word /\ len \in Word
    /\ state \in {"none", "size", "buffer"}
    /\ left \in Nat
    /\ area \in {"low", "high"}

TypeMain ==
    /\ queue \in Seq(Job) /\ job \in Job /\ pos \in 0 .. MaxLen
    /\ main \in {"starting", "booting", "loading", "loop", "leaving", "left", "panicked"}
    /\ running \in BOOLEAN /\ program \in Job

TypeHistory ==
    /\ uploads \in 0 .. MaxUploads /\ age \in 0 .. Timeout + 1
    /\ owner \in 0 .. MaxUploads /\ before \subseteq Program

(***************************************************************************)
(* The types; what is left to receive is within the size field or within   *)
(* the image, which fits into the memory set aside for it.                 *)
(***************************************************************************)
TypeOK ==
    /\ TypeReceiver /\ mem \in Memory /\ TypeMain /\ TypeHistory
    /\ state = "size" => left \in 1 .. WordBytes
    /\ state = "buffer" => len <= MaxLen /\ left <= len

(***************************************************************************)
(* "sorry pal, that memory is mine now" (gecko.c:333): while an image      *)
(* arrives, the PowerPC is stopped, unless the main loop, which does not   *)
(* ask, starts a program that it already had when the image's size was     *)
(* accepted.  What ran until then, and what the main loop gets afterwards, *)
(* never runs meanwhile; if the main loop had nothing, nothing does.       *)
(***************************************************************************)
MemoryIsMine == state = "buffer" /\ running => program.id \in before

(* The main loop had nothing. *)
Alone == before = {}

Whole(where, j) == \A i \in 1 .. j.len : mem[where][i] = j.id

(***************************************************************************)
(* The PowerPC is started with one complete program, the file or an upload *)
(* that was neither abandoned nor mixed with another, as long as no later  *)
(* upload has taken the memory.  (The loader reads the upload where the    *)
(* next one is received, gecko.c:382.)                                     *)
(***************************************************************************)
StartsWhole == running /\ program.id = owner => Whole("low", program)

(***************************************************************************)
(* The ARM leaves only to a complete image, under the same condition; and  *)
(* if nothing was loaded for the PowerPC meanwhile, which goes to the same *)
(* memory.                                                                 *)
(***************************************************************************)
LeavesToWhole == main = "left" /\ job.id = owner /\ Alone => Whole("low", job)

(* Whatever is started is whole, on either processor. *)
RunsWhole == StartsWhole /\ LeavesToWhole

(***************************************************************************)
(* An upload is abandoned for its time only when its time is up, unless    *)
(* the sum of start and timeout wraps (gecko.c:283): then it is abandoned  *)
(* at once.                                                                *)
(***************************************************************************)
AbandonedInTime ==
    [][GiveUp => age > Timeout \/ startTime + Timeout >= TimerMod]_vars

(***************************************************************************)
(* An upload that stays incomplete is abandoned in the end, and the next   *)
(* can begin.  Not so if it began at time 0, which stands for none, or if  *)
(* the deadline is the timer's last value, which is never exceeded.        *)
(***************************************************************************)
ReceiveEnds ==
    state # "none" /\ startTime # 0 /\ Deadline # TimerMod - 1 ~> state = "none" \/ main = "left"

(* The timeout does both: it ends what stays incomplete, and nothing else. *)
TimeoutIsDue == AbandonedInTime /\ ReceiveEnds
=============================================================================
