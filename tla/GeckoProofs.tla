----------------------------- MODULE GeckoProofs -----------------------------
(***************************************************************************)
(* Theorems of Gecko: its types, that nobody runs in memory that is being  *)
(* overwritten, and that what is started or left to is whole, for every    *)
(* size of images and words, number of uploads and state of the timer.     *)
(***************************************************************************)
EXTENDS Gecko, TLAPS

(* No upload in progress belongs to the program id.                        *)
Past(id) == id # Other => id <= owner /\ (state = "buffer" => id < owner)

(* Who owns the memory.                                                    *)
OwnerInv ==
    /\ owner <= uploads
    /\ state = "size" => owner < uploads
    /\ state = "buffer" => owner = uploads /\ uploads > 0

(* The command says where the image goes; what has come is there, unless    *)
(* a program was loaded over it.                                           *)
ImageInv ==
    /\ state # "none" => area = IF cmd = ArmCmd THEN "low" ELSE "high"
    /\ state = "buffer" /\ (area = "high" \/ Alone) => \A i \in 1 .. len - left : mem[area][i] = uploads

(* What is queued is an upload; the owner's is whole.                      *)
Sound(q) ==
    /\ q.id \in Upload /\ Past(q.id)
    /\ q.kind = "boot" /\ q.id = owner => Whole("high", q)

QueueInv == \A k \in 1 .. Len(queue) : Sound(queue[k])

(* What has been loaded so far is whole.                                   *)
LoadInv ==
    main = "loading" =>
        /\ ~running /\ pos <= job.len
        /\ job.id = owner =>
              /\ job.id # File => Whole("high", job)
              /\ \A i \in 1 .. pos : mem["low"][i] = job.id

(* What the main program works on, and the PowerPC, is of the past.        *)
PastInv ==
    /\ Past(job.id) /\ Past(program.id)
    /\ main \in {"leaving", "left"} => job.id # File

(* The owner came alone: the memory is its own until its job is done.      *)
AloneInv ==
    Alone /\ owner # File =>
        /\ main \notin {"starting", "booting"}
        /\ main = "loading" => queue = <<>>
        /\ state = "buffer" => ~running /\ main # "loading" /\ queue = <<>>
        /\ queue # <<>> =>
              /\ Len(queue) = 1
              /\ queue[1].kind = "jump" /\ queue[1].id = owner => Whole("low", queue[1])
        /\ main \in {"leaving", "left"} /\ job.id = owner => Whole("low", job)

(* Whatever the main program still starts while an image arrives, it had   *)
(* before.                                                                 *)
BeforeInv ==
    state = "buffer" => Pending \subseteq before /\ (running => program.id \in before)

Inv ==
    /\ TypeOK /\ OwnerInv /\ ImageInv /\ QueueInv /\ LoadInv /\ PastInv
    /\ StartsWhole /\ AloneInv /\ BeforeInv

-----------------------------------------------------------------------------
(* Words: what bytes are shifted into stays in range. *)
LEMMA ShiftType == \A word \in Word, b \in Byte : Shift(word, b) \in Word
<1>1. SUFFICES ASSUME NEW word \in Word, NEW b \in Byte
              PROVE  Shift(word, b) \in Word
  OBVIOUS
<1>2. word * Base + b \in Nat
  BY GeckoAssumption DEF Word, Byte
<1>3. \A n \in Nat : n % WordMod \in 0 .. WordMod - 1
  BY GeckoAssumption
<1>4. QED
  BY <1>2, <1>3 DEF Shift, Word

LEMMA StartLoadingType ==
    ASSUME StartLoading
    PROVE  main' = "loading" /\ pos' \in 0 .. MaxLen /\ running' = FALSE
BY GeckoAssumption DEF StartLoading

(* What is taken from a queue that is not empty. *)
LEMMA HeadTail ==
    ASSUME NEW S, NEW q \in Seq(S), q # <<>>
    PROVE  Head(q) \in S /\ Tail(q) \in Seq(S)
OBVIOUS

LEMMA NothingType == Nothing \in Job
BY GeckoAssumption DEF Nothing, Job, Program, File, Other

LEMMA TypeInit == Init => TypeOK
<1>1. SUFFICES ASSUME Init PROVE TypeOK
  OBVIOUS
<1>2. mem \in Memory
  BY <1>1, GeckoAssumption DEF Init, Memory, Program, File, Other
<1>3. TypeMain
  BY <1>1, NothingType, GeckoAssumption DEF Init, TypeMain, Job
<1>4. TypeReceiver
  <2>1. 0 \in Word /\ 0 \in Time
    BY GeckoAssumption DEF Word, Time
  <2>2. QED
    BY <1>1, <2>1 DEF Init, TypeReceiver
<1>5. TypeHistory
  BY <1>1, GeckoAssumption DEF Init, TypeHistory, File
<1>6. QED
  BY <1>1, <1>2, <1>3, <1>4, <1>5 DEF Init, TypeOK

(* The memory stays memory. *)
LEMMA ReceivedType ==
    ASSUME TypeOK, NEW n \in Nat, Received(n)
    PROVE  mem' \in Memory
<1>1. uploads \in Program
  BY GeckoAssumption DEF TypeOK, TypeHistory, Program, File, Other
<1>2. QED
  BY <1>1 DEF TypeOK, TypeReceiver, Received, Memory

LEMMA LoadBlockType ==
    ASSUME TypeOK, LoadBlock
    PROVE  mem' \in Memory /\ pos' \in 1 .. MaxLen
<1>1. pos' \in 1 .. MaxLen
  <2>1. pos < job.len /\ pos' = pos + 1
    BY DEF LoadBlock
  <2>2. job.len \in 0 .. MaxLen /\ pos \in 0 .. MaxLen
    BY DEF TypeOK, TypeMain, Job
  <2>3. QED
    BY <2>1, <2>2, GeckoAssumption
<1>2. File \in Program /\ mem["high"][pos'] \in Program
  BY <1>1, GeckoAssumption DEF TypeOK, Memory, Program, File, Other
<1>3. QED
  BY <1>1, <1>2 DEF TypeOK, LoadBlock, Memory

(* The queue stays a queue. *)
LEMMA CompleteType ==
    ASSUME TypeOK, Complete
    PROVE  queue' \in Seq(Job)
<1>1. len \in 0 .. MaxLen
  BY DEF TypeOK, TypeReceiver, Complete, Word
<1>2. [kind |-> Kind, id |-> uploads, len |-> len] \in Job
  BY <1>1, GeckoAssumption DEF TypeOK, TypeHistory, Kind, Job, Program, File, Other
<1>3. QED
  BY <1>2 DEF TypeOK, TypeMain, Complete

LEMMA PendingType == TypeMain => Pending \subseteq Program
<1>1. SUFFICES ASSUME TypeMain PROVE Pending \subseteq Program
  OBVIOUS
<1>2. \A i \in DOMAIN queue : queue[i].id \in Program
  <2>1. \A i \in DOMAIN queue : queue[i] \in Job
    BY <1>1 DEF TypeMain
  <2>2. QED
    BY <2>1 DEF Job
<1>3. job.id \in Program
  BY <1>1 DEF TypeMain, Job
<1>4. File \in Program
  BY GeckoAssumption DEF Program, File, Other
<1>5. QED
  BY <1>2, <1>3, <1>4 DEF Pending

LEMMA TypeNext == TypeOK /\ [Next]_vars => TypeOK'
<1> SUFFICES ASSUME TypeOK, [Next]_vars PROVE TypeOK'
  OBVIOUS
<1> USE DEF TypeOK
<1>1. CASE Tick
  <2>1. now' \in Time
    BY <1>1, GeckoAssumption DEF Tick, TypeReceiver, Time
  <2>2. age' \in 0 .. Timeout + 1
    BY <1>1, GeckoAssumption DEF Tick, TypeHistory
  <2>3. QED
    BY <1>1, <2>1, <2>2 DEF Tick, receiver, ppc, TypeReceiver, TypeMain, TypeHistory
<1>2. CASE GiveUp
  BY <1>2, GeckoAssumption DEF GiveUp, Alarm, Cleanup, history, TypeReceiver, TypeMain, TypeHistory, Word, Time
<1>3. CASE Silence
  BY <1>3 DEF Silence, Alarm, receiver, history, TypeReceiver, TypeMain, TypeHistory
<1>4. ASSUME NEW b \in Byte, CommandByte(b) PROVE TypeOK'
  <2>1. cmd' \in Word
    BY <1>4, ShiftType DEF CommandByte, TypeReceiver
  <2>2. TypeReceiver' /\ (state' = "size" => left' \in 1 .. WordBytes) /\ (state' # "buffer")
    BY <1>4, <2>1, GeckoAssumption DEF CommandByte, Alarm, TypeReceiver, Word
  <2>3. TypeHistory'
    BY <1>4, GeckoAssumption DEF CommandByte, TypeHistory
  <2>4. QED
    BY <1>4, <2>2, <2>3 DEF CommandByte, Alarm, TypeMain
<1>5. ASSUME NEW b \in Byte, SizeByte(b) PROVE TypeOK'
  <2>1. len' \in Word
    BY <1>5, ShiftType DEF SizeByte, TypeReceiver
  <2>2. TypeReceiver'
    BY <1>5, <2>1, GeckoAssumption DEF SizeByte, Alarm, Cleanup, TypeReceiver, Word, Time
  <2>3. /\ state' = "size" => left' \in 1 .. WordBytes
        /\ state' = "buffer" => len' <= MaxLen /\ left' <= len'
    BY <1>5, <2>1, GeckoAssumption DEF SizeByte, Cleanup, Fits, TypeReceiver, Word
  <2>4. TypeHistory' /\ TypeMain'
    BY <1>5, PendingType DEF SizeByte, Alarm, TakeMemory, TypeHistory, TypeMain
  <2>5. QED
    BY <1>5, <2>2, <2>3, <2>4 DEF SizeByte
<1>6. ASSUME NEW n \in 1 .. MaxLen, SomeBlocks(n) PROVE TypeOK'
  <2>1. mem' \in Memory
    BY <1>6, ReceivedType DEF SomeBlocks
  <2>2. TypeReceiver' /\ left' <= len'
    <3>1. left' \in Nat /\ left' <= len
      BY <1>6 DEF SomeBlocks, TypeReceiver, Word
    <3>2. QED
      BY <1>6, <3>1 DEF SomeBlocks, Alarm, TypeReceiver
  <2>3. QED
    BY <1>6, <2>1, <2>2 DEF SomeBlocks, Alarm, TypeMain, TypeHistory, history
<1>7. CASE Complete
  <2>1. mem' \in Memory /\ queue' \in Seq(Job)
    BY <1>7, ReceivedType, CompleteType DEF Complete, TypeReceiver
  <2>2. TypeReceiver' /\ state' = "none"
    BY <1>7, GeckoAssumption DEF Complete, Alarm, Cleanup, TypeReceiver, Word, Time
  <2>3. QED
    BY <1>7, <2>1, <2>2 DEF Complete, Alarm, TypeMain, TypeHistory, history
<1>8. CASE Main
  <2> USE DEF MainOnly, receiver, history, TypeReceiver, TypeHistory
  <2>1. CASE IpcInitialize
    BY <2>1 DEF IpcInitialize, TypeMain, ppc
  <2>2. CASE NoCard
    BY <2>2 DEF NoCard, TypeMain, ppc
  <2>3. CASE NoBootFile
    BY <2>3, NothingType DEF NoBootFile, TypeMain, ppc
  <2>4. CASE BootFile
    <3>1. job' \in Job
      BY <2>4, GeckoAssumption DEF BootFile, Job, Program, File, Other
    <3>2. QED
      BY <2>4, <3>1, StartLoadingType DEF BootFile, TypeMain
  <2>5. CASE TakeRefused \/ TakeBoot \/ TakeJump
    <3>1. job' \in Job /\ queue' \in Seq(Job)
      BY <2>5, HeadTail DEF TakeRefused, TakeBoot, TakeJump, Take, TypeMain
    <3>2. CASE TakeRefused
      BY <3>1, <3>2 DEF TakeRefused, TypeMain, ppc
    <3>3. CASE TakeBoot
      BY <3>1, <3>3, StartLoadingType DEF TakeBoot, TypeMain
    <3>4. CASE TakeJump
      BY <3>1, <3>4 DEF TakeJump, TypeMain, ppc
    <3>5. QED
      BY <2>5, <3>2, <3>3, <3>4
  <2>6. CASE LoadBlock
    <3>1. mem' \in Memory /\ pos' \in 0 .. MaxLen
      BY <2>6, LoadBlockType
    <3>2. QED
      BY <2>6, <3>1 DEF LoadBlock, TypeMain, ppc
  <2>7. CASE LoadFails
    BY <2>7, NothingType DEF LoadFails, TypeMain, ppc
  <2>8. CASE StartProgram
    BY <2>8 DEF StartProgram, TypeMain
  <2>9. CASE Leave
    BY <2>9 DEF Leave, TypeMain, ppc
  <2>10. QED
    BY <1>8, <2>1, <2>2, <2>3, <2>4, <2>5, <2>6, <2>7, <2>8, <2>9 DEF Main
<1>9. CASE UNCHANGED vars
  BY <1>9 DEF vars, receiver, ppc, history, TypeReceiver, TypeMain, TypeHistory
<1>10. QED
  BY <1>1, <1>2, <1>3, <1>4, <1>5, <1>6, <1>7, <1>8, <1>9 DEF Next, GeckoTimer, Receive
-----------------------------------------------------------------------------
(* The steps that change what the invariants below are about. *)
Accept == \E b \in Byte : SizeByte(b) /\ state' = "buffer"
Blocks == \E n \in 1 .. MaxLen : SomeBlocks(n)

LEMMA AcceptStep ==
    ASSUME TypeOK, Accept
    PROVE  /\ state = "size" /\ state' = "buffer" /\ running' = FALSE
           /\ uploads' = uploads /\ owner' = uploads /\ before' = Pending
           /\ left' = len' /\ area' = area /\ cmd' = cmd /\ mem' = mem
           /\ queue' = queue /\ main' = main /\ job' = job /\ program' = program
<1>1. PICK b \in Byte : SizeByte(b) /\ state' = "buffer"
  BY DEF Accept
<1>2. state = "size" /\ uploads' = uploads /\ area' = area /\ mem' = mem /\ queue' = queue
  BY <1>1 DEF SizeByte
<1>3. /\ running' = FALSE /\ owner' = uploads /\ before' = Pending
      /\ left' = len' /\ cmd' = cmd
  BY <1>1, <1>2 DEF SizeByte, Cleanup, TakeMemory
<1>4. main' = main /\ job' = job /\ program' = program
  BY <1>1 DEF SizeByte, Alarm
<1>5. QED
  BY <1>1, <1>2, <1>3, <1>4

(***************************************************************************)
(* Everything else leaves the owner as it is, and begins no image.            *)
(***************************************************************************)
LEMMA OwnerFrame ==
    ASSUME [Next]_vars, ~Accept
    PROVE  /\ owner' = owner /\ before' = before /\ Alone' = Alone
           /\ state' = "buffer" => state = "buffer"
<1> USE DEF history, Alone
<1>1. CASE Tick
  BY <1>1 DEF Tick, receiver
<1>2. CASE GiveUp \/ Silence \/ Complete \/ Blocks
  BY <1>2 DEF GiveUp, Silence, Complete, Cleanup, Blocks, SomeBlocks, receiver
<1>3. ASSUME NEW b \in Byte, CommandByte(b)
      PROVE  owner' = owner /\ before' = before /\ (state' = "buffer" => state = "buffer")
  BY <1>3 DEF CommandByte
<1>4. ASSUME NEW b \in Byte, SizeByte(b)
      PROVE  owner' = owner /\ before' = before /\ (state' = "buffer" => state = "buffer")
  BY <1>4 DEF SizeByte, Accept
<1>5. CASE Main
  BY <1>5 DEF Main, IpcInitialize, NoCard, NoBootFile, BootFile, TakeRefused, TakeBoot,
              TakeJump, LoadBlock, LoadFails, StartProgram, Leave, MainOnly, receiver
<1>6. CASE UNCHANGED vars
  BY <1>6 DEF vars, receiver
<1>7. QED
  BY <1>1, <1>2, <1>3, <1>4, <1>5, <1>6 DEF Next, GeckoTimer, Receive, Blocks

(* Only an image that arrives and the loader write to memory. *)
LEMMA MemoryFrame ==
    ASSUME [Next]_vars, ~LoadBlock, ~Blocks, ~Complete
    PROVE  mem' = mem
<1>1. CASE Tick
  BY <1>1 DEF Tick
<1>2. CASE GeckoTimer
  BY <1>2 DEF GeckoTimer, Receive, GiveUp, Silence, CommandByte, SizeByte, Blocks
<1>3. CASE Main
  BY <1>3 DEF Main, IpcInitialize, NoCard, NoBootFile, BootFile, TakeRefused, TakeBoot,
              TakeJump, LoadFails, StartProgram, Leave
<1>4. QED
  BY <1>1, <1>2, <1>3 DEF Next, vars

(* What the interrupt leaves to the main program. *)
LEMMA MainFrame ==
    ASSUME [Next]_vars, ~Main
    PROVE  /\ main' = main /\ job' = job /\ pos' = pos /\ program' = program
           /\ running' => running
           /\ ~Complete => queue' = queue
<1>1. CASE Tick
  BY <1>1 DEF Tick, ppc
<1>2. CASE GeckoTimer
  BY <1>2 DEF GeckoTimer, Receive, GiveUp, Silence, CommandByte, SizeByte, SomeBlocks,
              Complete, Alarm, TakeMemory
<1>3. QED
  BY <1>1, <1>2 DEF Next, vars, ppc

LEMMA OwnerInit == Init => OwnerInv
BY DEF Init, OwnerInv, File

LEMMA OwnerNext == TypeOK /\ OwnerInv /\ [Next]_vars => OwnerInv'
<1> SUFFICES ASSUME TypeOK, OwnerInv, [Next]_vars PROVE OwnerInv'
  OBVIOUS
<1> USE DEF OwnerInv
<1>1. CASE Accept
  <2>1. /\ state = "size" /\ state' = "buffer"
        /\ uploads' = uploads /\ owner' = uploads
    BY <1>1, AcceptStep
  <2>2. owner < uploads /\ owner \in Nat /\ uploads \in Nat
    BY <2>1 DEF TypeOK, TypeHistory
  <2>3. QED
    BY <2>1, <2>2
<1>2. ASSUME NEW b \in Byte, CommandByte(b) PROVE OwnerInv'
  <2>1. /\ state' \in {"none", "size"} /\ owner' = owner
        /\ uploads' = uploads \/ uploads' = uploads + 1
        /\ state' = "size" => uploads' = uploads + 1
    BY <1>2 DEF CommandByte
  <2>2. owner \in Nat /\ uploads \in Nat
    BY DEF TypeOK, TypeHistory
  <2>3. QED
    BY <2>1, <2>2
<1>3. ASSUME ~Accept, ~(\E b \in Byte : CommandByte(b)) PROVE OwnerInv'
  <2>1. uploads' = uploads /\ (state' = "size" => state = "size")
    <3>1. CASE Tick
      BY <3>1 DEF Tick, receiver
    <3>2. CASE GeckoTimer
      BY <1>3, <3>2 DEF GeckoTimer, Receive, GiveUp, Silence, Cleanup, SizeByte, SomeBlocks,
                        Complete, receiver, history
    <3>3. CASE Main
      BY <3>3 DEF Main, IpcInitialize, NoCard, NoBootFile, BootFile, TakeRefused, TakeBoot,
                  TakeJump, LoadBlock, LoadFails, StartProgram, Leave, MainOnly, receiver, history
    <3>4. QED
      BY <3>1, <3>2, <3>3 DEF Next, vars, receiver, history
  <2>2. QED
    BY <1>3, <2>1, OwnerFrame
<1>4. QED
  BY <1>1, <1>2, <1>3

(* A program of the past stays so. *)
LEMMA PastNext ==
    ASSUME TypeOK, OwnerInv, [Next]_vars, NEW id \in Program, Past(id)
    PROVE  Past(id)'
<1>1. owner \in Nat /\ uploads \in Nat /\ id \in Nat
  BY GeckoAssumption DEF TypeOK, TypeHistory, Program, File, Other
<1>2. CASE Accept
  BY <1>1, <1>2, AcceptStep DEF OwnerInv, Past
<1>3. CASE ~Accept
  BY <1>1, <1>3, OwnerFrame DEF Past
<1>4. QED
  BY <1>2, <1>3

(* If it is the owner's, nothing is arriving: only the loader writes. *)
LEMMA OwnerStep ==
    ASSUME TypeOK, OwnerInv, [Next]_vars, NEW id \in Program, Past(id), id = owner'
    PROVE  /\ ~Accept /\ id = owner /\ Alone' = Alone
           /\ state # "buffer"
           /\ mem' = mem \/ LoadBlock
<1>1. owner \in 0 .. MaxUploads /\ uploads \in 0 .. MaxUploads /\ id # Other
  <2>1. owner' \in 0 .. MaxUploads
    BY TypeNext DEF TypeOK, TypeHistory
  <2>2. QED
    BY <2>1, GeckoAssumption DEF TypeOK, TypeHistory, Other
<1>2. ASSUME Accept PROVE FALSE
  <2>1. state = "size" /\ owner' = uploads
    BY <1>2, AcceptStep
  <2>2. owner < uploads /\ id <= owner
    BY <1>1, <2>1 DEF OwnerInv, Past
  <2>3. QED
    BY <1>1, <2>1, <2>2
<1>3. id = owner /\ Alone' = Alone
  BY <1>2, OwnerFrame
<1>4. state # "buffer"
  BY <1>1, <1>3 DEF Past
<1>5. ~Blocks /\ ~Complete
  BY <1>4 DEF Blocks, SomeBlocks, Complete
<1>6. QED
  BY <1>2, <1>3, <1>4, <1>5, MemoryFrame
-----------------------------------------------------------------------------
(* While an image arrives, only its blocks move the receiver. *)
LEMMA BufferFrame ==
    ASSUME [Next]_vars, ~Accept, state' = "buffer"
    PROVE  /\ area' = area /\ len' = len /\ cmd' = cmd /\ uploads' = uploads
           /\ ~Blocks => left' = left
           /\ ~Complete
<1> USE DEF receiver, history
<1>1. state = "buffer" /\ ~Complete
  BY OwnerFrame DEF Complete, Cleanup
<1>2. CASE Tick
  BY <1>1, <1>2 DEF Tick
<1>3. CASE GeckoTimer
  BY <1>1, <1>3 DEF GeckoTimer, Receive, GiveUp, Cleanup, Silence, CommandByte, SizeByte,
                    SomeBlocks, Blocks
<1>4. CASE Main
  BY <1>1, <1>4 DEF Main, IpcInitialize, NoCard, NoBootFile, BootFile, TakeRefused, TakeBoot,
              TakeJump, LoadBlock, LoadFails, StartProgram, Leave, MainOnly
<1>5. QED
  BY <1>1, <1>2, <1>3, <1>4 DEF Next, vars

LEMMA ImageInit == Init => ImageInv
BY DEF Init, ImageInv

(* The destination is that of the command. *)
LEMMA AreaNext ==
    ASSUME ImageInv, [Next]_vars, state' # "none"
    PROVE  area' = IF cmd' = ArmCmd THEN "low" ELSE "high"
<1> USE DEF receiver, history, ImageInv
<1>1. CASE Tick
  BY <1>1 DEF Tick
<1>2. CASE GeckoTimer
  BY <1>2 DEF GeckoTimer, Receive, GiveUp, Cleanup, Silence, CommandByte, SizeByte,
              SomeBlocks, Complete
<1>3. CASE Main
  BY <1>3 DEF Main, IpcInitialize, NoCard, NoBootFile, BootFile, TakeRefused, TakeBoot,
              TakeJump, LoadBlock, LoadFails, StartProgram, Leave, MainOnly
<1>4. QED
  BY <1>1, <1>2, <1>3 DEF Next, vars

(* A block that was received is there afterwards. *)
LEMMA ReceivedThere ==
    ASSUME TypeOK, NEW n \in Nat, Received(n), area' = area,
           NEW i \in 1 .. MaxLen, i <= len - left + n,
           i <= len - left => mem[area][i] = uploads,
           left \in Nat, len \in Nat
    PROVE  mem'[area][i] = uploads
<1>1. area \in {"low", "high"} /\ mem \in Memory
  BY DEF TypeOK, TypeReceiver
<1>2. mem'[area] = [k \in 1 .. MaxLen |-> IF k \in len - left + 1 .. len - left + n
                                           THEN uploads ELSE mem[area][k]]
  BY <1>1 DEF Received, Memory
<1>3. mem'[area][i] = IF i \in len - left + 1 .. len - left + n THEN uploads ELSE mem[area][i]
  BY <1>2
<1>4. CASE i <= len - left
  BY <1>3, <1>4
<1>5. CASE ~(i <= len - left)
  <2>1. i \in len - left + 1 .. len - left + n
    BY <1>5
  <2>2. QED
    BY <1>3, <2>1
<1>6. QED
  BY <1>4, <1>5

LEMMA ImageNext == Inv /\ [Next]_vars => ImageInv'
<1> SUFFICES ASSUME Inv, [Next]_vars,
                    state' = "buffer", area' = "high" \/ Alone',
                    NEW i \in 1 .. len' - left'
             PROVE  mem'[area'][i] = uploads'
  BY AreaNext DEF ImageInv, Inv
<1>1. TypeOK /\ TypeOK'
  BY TypeNext DEF Inv
<1>2. CASE Accept
  <2>1. left' = len'
    BY <1>1, <1>2, AcceptStep
  <2>2. left' \in Nat
    BY <1>1 DEF TypeOK, TypeReceiver
  <2>3. len' - left' = 0
    <3>1. \A n \in Nat : n - n = 0
      OBVIOUS
    <3>2. QED
      BY <2>1, <2>2, <3>1
  <2>4. i \in 1 .. 0
    BY <2>3
  <2>5. QED
    BY <2>4
<1>3. CASE ~Accept
  <2>1. /\ state = "buffer" /\ Alone' = Alone /\ area' = area /\ len' = len
        /\ uploads' = uploads /\ (~Blocks => left' = left) /\ ~Complete
    BY <1>3, OwnerFrame, BufferFrame
  <2>2. \A k \in 1 .. len - left : mem[area][k] = uploads
    BY <2>1 DEF Inv, ImageInv
  <2>3. /\ len \in Nat /\ left \in Nat /\ left <= len /\ len <= MaxLen
        /\ left' \in Nat /\ MaxLen \in Nat
    BY <1>1, <2>1, GeckoAssumption DEF TypeOK, TypeReceiver, Word
  <2>4. CASE Blocks
    <3>1. PICK n \in 1 .. MaxLen : SomeBlocks(n)
      BY <2>4 DEF Blocks
    <3>2. Received(n) /\ left' = left - n /\ n \in Nat
      BY <3>1 DEF SomeBlocks
    <3>3. i \in 1 .. MaxLen /\ i <= len - left + n
      BY <2>1, <2>3, <3>2
    <3>4. i <= len - left => mem[area][i] = uploads
      BY <2>2, <2>3, <3>3
    <3>5. mem'[area][i] = uploads
      BY <1>1, <2>1, <2>3, <3>2, <3>3, <3>4, ReceivedThere
    <3>6. QED
      BY <2>1, <3>5
  <2>5. CASE LoadBlock
    <3>1. area = "high"
      <4>1. ~(Alone /\ main = "loading")
        BY <2>1 DEF Inv, OwnerInv, AloneInv, File
      <4>2. QED
        BY <2>1, <2>5, <4>1 DEF LoadBlock
    <3>2. mem'["high"] = mem["high"] /\ left' = left
      BY <1>1, <2>5 DEF LoadBlock, MainOnly, receiver, TypeOK, Memory
    <3>3. QED
      BY <2>1, <2>2, <3>1, <3>2
  <2>6. CASE ~Blocks /\ ~LoadBlock
    BY <2>1, <2>2, <2>6, MemoryFrame
  <2>7. QED
    BY <2>4, <2>5, <2>6
<1>4. QED
  BY <1>2, <1>3
-----------------------------------------------------------------------------
(* Jobs are programs of the past, and stay so. *)
LEMMA PastInit == Init => PastInv
BY DEF Init, PastInv, Past, Nothing

LEMMA JobIsProgram ==
    ASSUME TypeOK
    PROVE  /\ job.id \in Program /\ program.id \in Program
           /\ \A k \in 1 .. Len(queue) : queue[k] \in Job /\ queue[k].id \in Program
<1>1. \A q \in Job : q.id \in Program
  BY DEF Job
<1>2. job \in Job /\ program \in Job /\ queue \in Seq(Job)
  BY DEF TypeOK, TypeMain
<1>3. \A k \in 1 .. Len(queue) : queue[k] \in Job
  BY <1>2
<1>4. QED
  BY <1>1, <1>2, <1>3

(* What is taken from the queue was sound. *)
LEMMA TakeStep ==
    ASSUME TypeOK, QueueInv, Take
    PROVE  /\ job' = queue[1] /\ job' \in Job /\ Sound(queue[1])
           /\ Len(queue) > 0 /\ Len(queue') = Len(queue) - 1
           /\ \A k \in 1 .. Len(queue') : queue'[k] = queue[k + 1]
<1>1. queue \in Seq(Job) /\ queue # <<>>
  BY DEF TypeOK, TypeMain, Take
<1>2. Len(queue) > 0 /\ 1 \in 1 .. Len(queue)
  BY <1>1
<1>3. job' = queue[1] /\ queue' = Tail(queue)
  BY <1>1 DEF Take
<1>4. Len(queue') = Len(queue) - 1 /\ \A k \in 1 .. Len(queue') : queue'[k] = queue[k + 1]
  BY <1>1, <1>2, <1>3
<1>5. QED
  BY <1>1, <1>2, <1>3, <1>4 DEF QueueInv

LEMMA PastInvNext == Inv /\ [Next]_vars => PastInv'
<1> SUFFICES ASSUME Inv, [Next]_vars PROVE PastInv'
  OBVIOUS
<1>1. TypeOK /\ OwnerInv /\ PastInv /\ QueueInv
  BY DEF Inv
<1>2. \A id \in Program : Past(id) => Past(id)'
  BY <1>1, PastNext
<1>3. Past(job.id)' /\ Past(program.id)'
  <2>1. Past(Other)' /\ Past(File)
    BY <1>1, GeckoAssumption DEF Past, OwnerInv, TypeOK, TypeHistory, File
  <2>2. File \in Program
    BY GeckoAssumption DEF Program, File, Other
  <2>3. \/ job' = job \/ job' = Nothing
        \/ job' = [kind |-> "boot", id |-> File, len |-> FileLen]
        \/ Take
    <3>1. CASE Main
      BY <3>1 DEF Main, IpcInitialize, NoCard, NoBootFile, BootFile, TakeRefused, TakeBoot,
                  TakeJump, LoadBlock, LoadFails, StartProgram, Leave
    <3>2. QED
      BY <3>1, MainFrame
  <2>4. \/ job'.id = job.id \/ job'.id = Other \/ job'.id = File
        \/ job'.id = queue[1].id /\ Sound(queue[1])
    BY <1>1, <2>3, TakeStep DEF Nothing
  <2>5. Past(job.id)'
    <3>1. Sound(queue[1]) => queue[1].id \in Program /\ Past(queue[1].id)
      BY GeckoAssumption DEF Sound, Upload, Program, File, Other
    <3>2. job.id \in Program /\ Past(job.id)
      BY <1>1, JobIsProgram DEF PastInv
    <3>3. PICK id \in Program \cup {Other} : job'.id = id /\ (id = Other \/ Past(id))
      BY <2>1, <2>2, <2>4, <3>1, <3>2
    <3>4. Past(id)'
      BY <1>2, <2>1, <3>3
    <3>5. QED
      BY <3>3, <3>4 DEF Past
  <2>6. program' = program \/ program' = job
    <3>1. CASE Main
      BY <3>1 DEF Main, IpcInitialize, NoCard, NoBootFile, BootFile, TakeRefused, TakeBoot,
                  TakeJump, LoadBlock, LoadFails, StartProgram, Leave, ppc
    <3>2. QED
      BY <3>1, MainFrame
  <2>7. Past(program.id)'
    <3>1. PICK id \in Program : program'.id = id /\ Past(id)
      BY <1>1, <2>6, JobIsProgram DEF PastInv
    <3>2. Past(id)'
      BY <1>2, <3>1
    <3>3. QED
      BY <3>1, <3>2 DEF Past
  <2>8. QED
    BY <2>5, <2>7
<1>4. main' \in {"leaving", "left"} => job'.id # File
  <2>1. CASE Main
    <3>1. TakeJump => job'.id # File
      BY <1>1, TakeStep DEF TakeJump, Sound, Upload, File
    <3>2. Nothing.id # File
      BY GeckoAssumption DEF Nothing, Other, File
    <3>3. QED
      BY <1>1, <2>1, <3>1, <3>2
         DEF Main, IpcInitialize, NoCard, NoBootFile, BootFile, StartLoading, TakeRefused, Take,
             TakeBoot, LoadBlock, LoadFails, StartProgram, Leave, PastInv
  <2>2. QED
    BY <1>1, <2>1, MainFrame DEF PastInv
<1>5. QED
  BY <1>3, <1>4 DEF PastInv
-----------------------------------------------------------------------------
(* The loader writes where programs run, not where they arrive. *)
LEMMA LoadBlockHigh == TypeOK /\ LoadBlock => mem'["high"] = mem["high"]
BY DEF LoadBlock, TypeOK, Memory

LEMMA QueueInit == Init => QueueInv
BY DEF Init, QueueInv

(* A job that waits, or is taken, stays sound. *)
LEMMA SoundNext ==
    ASSUME Inv, [Next]_vars, NEW q \in Job, Sound(q)
    PROVE  /\ Past(q.id)'
           /\ q.kind = "boot" /\ q.id = owner' => \A i \in 1 .. q.len : mem'["high"][i] = q.id
<1>1. TypeOK /\ OwnerInv /\ q.id \in Program /\ Past(q.id)
  BY DEF Inv, Job, Sound
<1>2. Past(q.id)'
  BY <1>1, PastNext
<1>3. ASSUME q.kind = "boot", q.id = owner'
      PROVE  \A i \in 1 .. q.len : mem'["high"][i] = q.id
  <2>1. q.id = owner /\ (mem' = mem \/ LoadBlock)
    BY <1>1, <1>3, OwnerStep
  <2>2. mem'["high"] = mem["high"]
    BY <1>1, <2>1, LoadBlockHigh
  <2>3. Whole("high", q)
    BY <1>3, <2>1 DEF Sound
  <2>4. QED
    BY <2>2, <2>3 DEF Whole
<1>4. QED
  BY <1>2, <1>3

(* An image that is complete is there as a whole. *)
LEMMA CompleteThere ==
    ASSUME Inv, Complete, area = "high" \/ Alone
    PROVE  \A i \in 1 .. len : mem'[area][i] = uploads
<1> SUFFICES ASSUME NEW i \in 1 .. len PROVE mem'[area][i] = uploads
  OBVIOUS
<1>1. TypeOK /\ state = "buffer" /\ Received(left) /\ area' = area
  BY DEF Inv, Complete
<1>2. left \in Nat /\ len \in Nat /\ left <= len /\ len <= MaxLen /\ MaxLen \in Nat
  BY <1>1, GeckoAssumption DEF TypeOK, TypeReceiver, Word
<1>3. i \in 1 .. MaxLen /\ i <= len - left + left
  BY <1>2
<1>4. i <= len - left => mem[area][i] = uploads
  <2>1. \A k \in 1 .. len - left : mem[area][k] = uploads
    BY <1>1 DEF Inv, ImageInv
  <2>2. QED
    BY <1>2, <2>1
<1>5. QED
  BY <1>1, <1>2, <1>3, <1>4, ReceivedThere

(* What it hands over. *)
NewJob == [kind |-> Kind, id |-> uploads, len |-> len]

LEMMA CompleteSound ==
    ASSUME Inv, Complete, NEW q, q = NewJob
    PROVE  /\ Sound(q)' /\ q.id = owner' /\ Alone' = Alone
           /\ q.kind = "jump" /\ Alone => Whole("low", q)'
<1>1. TypeOK /\ state = "buffer" /\ state' = "none"
  BY DEF Inv, Complete, Cleanup
<1>2. /\ uploads = owner /\ owner' = owner /\ Alone' = Alone /\ owner \in Nat
      /\ uploads \in Upload
  BY <1>1, GeckoAssumption
     DEF Inv, OwnerInv, TypeOK, TypeHistory, Upload, Complete, history, Alone
<1>3. q.id = uploads /\ q.len = len /\ q.kind = Kind
  BY DEF NewJob
<1>4. Past(q.id)'
  BY <1>1, <1>2, <1>3 DEF Past
<1>5. area = IF cmd = ArmCmd THEN "low" ELSE "high"
  BY <1>1 DEF Inv, ImageInv
<1>6. q.kind = "boot" => Whole("high", q)'
  BY <1>3, <1>5, CompleteThere DEF Kind, Whole
<1>7. q.kind = "jump" /\ Alone => Whole("low", q)'
  BY <1>3, <1>5, CompleteThere DEF Kind, Whole
<1>8. QED
  BY <1>2, <1>3, <1>4, <1>6, <1>7 DEF Sound

(* What the queue may become. *)
LEMMA QueueFrame ==
    ASSUME [Next]_vars
    PROVE  \/ queue' = queue \/ queue' = <<>> \/ Take
           \/ Complete /\ queue' = Append(queue, NewJob)
<1>1. CASE Main
  BY <1>1 DEF Main, IpcInitialize, NoCard, NoBootFile, BootFile, TakeRefused, TakeBoot,
              TakeJump, LoadBlock, LoadFails, StartProgram, Leave
<1>2. CASE Complete
  BY <1>2 DEF Complete, NewJob
<1>3. CASE ~Main /\ ~Complete
  BY <1>3, MainFrame
<1>4. QED
  BY <1>1, <1>2, <1>3

LEMMA QueueNext == Inv /\ [Next]_vars => QueueInv'
<1> SUFFICES ASSUME Inv, [Next]_vars, NEW k \in 1 .. Len(queue')
             PROVE  Sound(queue[k])'
  BY DEF QueueInv
<1>1. TypeOK /\ QueueInv
  BY DEF Inv
<1>2. queue \in Seq(Job) /\ queue' \in Seq(Job)
  BY <1>1, TypeNext DEF TypeOK, TypeMain
<1>3. PICK q : q = queue'[k]
  OBVIOUS
<1>4. CASE \E j \in 1 .. Len(queue) : q = queue[j]
  <2>1. q \in Job /\ Sound(q)
    BY <1>1, <1>2, <1>4 DEF QueueInv
  <2>2. /\ Past(q.id)'
        /\ q.kind = "boot" /\ q.id = owner' => \A i \in 1 .. q.len : mem'["high"][i] = q.id
    BY <2>1, SoundNext
  <2>3. Sound(q)'
    <3>1. q.id \in Upload
      BY <2>1 DEF Sound
    <3>2. QED
      BY <2>2, <3>1 DEF Sound, Whole
  <2>4. QED
    BY <1>3, <2>3 DEF Sound, Whole, Past
<1>5. CASE Complete /\ q = NewJob
  <2>1. Sound(q)'
    BY <1>5, CompleteSound
  <2>2. QED
    BY <1>3, <2>1 DEF Sound, Whole, Past
<1>6. (\E j \in 1 .. Len(queue) : q = queue[j]) \/ (Complete /\ q = NewJob)
  <2>1. CASE queue' = queue
    BY <1>3, <2>1
  <2>2. CASE queue' = <<>>
    BY <2>2
  <2>3. CASE Take
    <3>1. q = queue[k + 1] /\ k + 1 \in 1 .. Len(queue)
      BY <1>1, <1>2, <1>3, <2>3, TakeStep
    <3>2. QED
      BY <3>1
  <2>4. CASE Complete /\ queue' = Append(queue, NewJob)
    <3>1. Len(queue') = Len(queue) + 1
      BY <1>2, <2>4
    <3>2. CASE k = Len(queue) + 1
      BY <1>2, <1>3, <2>4, <3>2
    <3>3. CASE k \in 1 .. Len(queue)
      BY <1>2, <1>3, <2>4, <3>3
    <3>4. QED
      BY <1>2, <3>1, <3>2, <3>3
  <2>5. QED
    BY <2>1, <2>2, <2>3, <2>4, QueueFrame
<1>7. QED
  BY <1>4, <1>5, <1>6
-----------------------------------------------------------------------------
LEMMA LoadInit == Init => LoadInv
BY DEF Init, LoadInv

LEMMA LoadNext == Inv /\ [Next]_vars => LoadInv'
<1> SUFFICES ASSUME Inv, [Next]_vars, main' = "loading"
             PROVE  /\ ~running' /\ pos' <= job'.len
                    /\ job'.id = owner' =>
                          /\ job'.id # File => \A i \in 1 .. job'.len : mem'["high"][i] = job'.id
                          /\ \A i \in 1 .. pos' : mem'["low"][i] = job'.id
  BY DEF LoadInv, Whole
<1>1. TypeOK /\ TypeOK' /\ OwnerInv /\ QueueInv /\ LoadInv /\ PastInv
  BY TypeNext DEF Inv
<1>2. CASE BootFile
  <2>1. job'.id = File /\ job'.len = FileLen /\ pos' = 0 /\ running' = FALSE
    BY <1>2 DEF BootFile, StartLoading
  <2>2. QED
    BY <2>1, GeckoAssumption
<1>3. CASE TakeBoot
  <2>1. /\ Take /\ queue[1].kind = "boot" /\ pos' = 0 /\ running' = FALSE
        /\ mem' = mem /\ owner' = owner
    BY <1>1, <1>3 DEF TakeBoot, Take, StartLoading, MainOnly, history, TypeOK, TypeMain
  <2>2. job' = queue[1] /\ Sound(job') /\ job'.len \in Nat
    BY <1>1, <2>1, TakeStep DEF Job
  <2>3. job'.id = owner => Whole("high", job')
    BY <2>1, <2>2 DEF Sound
  <2>4. QED
    BY <2>1, <2>2, <2>3 DEF Whole
<1>4. CASE LoadBlock
  <2>1. /\ main = "loading" /\ pos < job.len /\ pos' = pos + 1
        /\ job' = job /\ running' = running /\ owner' = owner
    BY <1>4 DEF LoadBlock, MainOnly, history, ppc
  <2>2. pos \in Nat /\ job.len \in Nat /\ pos' \in 1 .. MaxLen
    BY <1>1, <1>4, LoadBlockType DEF TypeOK, TypeMain, Job
  <2>3. mem'["high"] = mem["high"]
    BY <1>1, <1>4, LoadBlockHigh
  <2>4. mem'["low"] = [mem["low"] EXCEPT ![pos'] = IF job.id = File THEN File ELSE mem["high"][pos']]
    BY <1>1, <1>4 DEF LoadBlock, TypeOK, Memory
  <2>5. DOMAIN mem["low"] = 1 .. MaxLen
    BY <1>1 DEF TypeOK, Memory
  <2>6. ASSUME job.id = owner, NEW i \in 1 .. pos'
        PROVE  mem'["low"][i] = job.id
    <3>1. job.id # File => Whole("high", job)
      BY <1>1, <2>1, <2>6 DEF LoadInv
    <3>2. \A k \in 1 .. pos : mem["low"][k] = job.id
      BY <1>1, <2>1, <2>6 DEF LoadInv
    <3>3. CASE i = pos'
      <4>1. pos' \in 1 .. job.len
        BY <2>1, <2>2
      <4>2. job.id # File => mem["high"][pos'] = job.id
        BY <3>1, <4>1 DEF Whole
      <4>3. mem'["low"][pos'] = IF job.id = File THEN File ELSE mem["high"][pos']
        BY <2>2, <2>4, <2>5
      <4>4. QED
        BY <3>3, <4>2, <4>3
    <3>4. CASE i # pos'
      <4>1. i \in 1 .. pos /\ i \in 1 .. MaxLen
        BY <2>1, <2>2, <3>4, GeckoAssumption
      <4>2. QED
        BY <2>4, <2>5, <3>2, <3>4, <4>1
    <3>5. QED
      BY <3>3, <3>4
  <2>7. job.id = owner /\ job.id # File => \A i \in 1 .. job.len : mem'["high"][i] = job.id
    BY <1>1, <2>1, <2>3 DEF LoadInv, Whole
  <2>8. QED
    <3>1. ~running' /\ pos' <= job'.len
      BY <1>1, <2>1, <2>2 DEF LoadInv
    <3>2. QED
      BY <2>1, <2>6, <2>7, <3>1
<1>5. CASE ~Main
  <2>1. main = "loading" /\ job' = job /\ pos' = pos /\ (running' => running)
    BY <1>5, MainFrame
  <2>2. job.id = owner' => mem' = mem /\ job.id = owner
    BY <1>1, <1>5, OwnerStep, JobIsProgram DEF PastInv, Main
  <2>3. QED
    BY <1>1, <2>1, <2>2 DEF LoadInv, Whole
<1>6. Main => BootFile \/ TakeBoot \/ LoadBlock
  BY DEF Main, IpcInitialize, NoCard, NoBootFile, TakeRefused, Take, TakeJump, LoadFails,
         StartProgram, Leave
<1>7. QED
  BY <1>2, <1>3, <1>4, <1>5, <1>6

LEMMA StartsInit == Init => StartsWhole
BY DEF Init, StartsWhole, Nothing, Whole

LEMMA StartsNext == Inv /\ [Next]_vars => StartsWhole'
<1> SUFFICES ASSUME Inv, [Next]_vars, running', program'.id = owner',
                    NEW i \in 1 .. program'.len
             PROVE  mem'["low"][i] = program'.id
  BY DEF StartsWhole, Whole
<1>1. TypeOK /\ OwnerInv /\ LoadInv /\ PastInv /\ StartsWhole
  BY DEF Inv
<1>2. CASE StartProgram
  <2>1. /\ main = "loading" /\ pos = job.len /\ program' = job
        /\ mem' = mem /\ owner' = owner
    BY <1>2 DEF StartProgram, MainOnly, history
  <2>2. QED
    BY <1>1, <2>1 DEF LoadInv
<1>3. CASE ~StartProgram
  <2>1. running /\ program' = program
    <3>1. CASE Main
      BY <1>3, <3>1 DEF Main, IpcInitialize, NoCard, NoBootFile, BootFile, StartLoading, TakeRefused,
                  TakeBoot, TakeJump, LoadBlock, LoadFails, Leave, ppc
    <3>2. QED
      BY <3>1, MainFrame
  <2>2. program.id = owner /\ (mem' = mem \/ LoadBlock)
    BY <1>1, <2>1, OwnerStep, JobIsProgram DEF PastInv
  <2>3. ~LoadBlock
    BY <1>1, <2>1 DEF LoadBlock, LoadInv
  <2>4. QED
    BY <1>1, <2>1, <2>2, <2>3 DEF StartsWhole, Whole
<1>4. QED
  BY <1>2, <1>3
-----------------------------------------------------------------------------
LEMMA AloneInit == Init => AloneInv
BY DEF Init, AloneInv

LEMMA NothingPending ==
    ASSUME TypeOK, Pending = {}
    PROVE  main \notin {"starting", "booting", "loading"} /\ queue = <<>>
<1>1. main \notin {"starting", "booting", "loading"}
  BY DEF Pending
<1>2. DOMAIN queue = 1 .. Len(queue) /\ Len(queue) \in Nat /\ (Len(queue) = 0 => queue = <<>>)
  BY DEF TypeOK, TypeMain
<1>3. \A i \in DOMAIN queue : FALSE
  BY DEF Pending
<1>4. QED
  BY <1>1, <1>2, <1>3

(* When the owner's image arrives alone, nothing else has a job. *)
LEMMA AloneAccept ==
    ASSUME Inv, [Next]_vars, Accept
    PROVE  AloneInv'
<1>1. /\ TypeOK /\ OwnerInv /\ PastInv
      /\ state' = "buffer" /\ running' = FALSE /\ before' = Pending
      /\ queue' = queue /\ main' = main /\ job' = job
  BY AcceptStep DEF Inv
<1>2. job.id # owner'
  BY <1>1, OwnerStep, JobIsProgram DEF PastInv
<1>3. SUFFICES ASSUME Alone' PROVE AloneInv'
  BY DEF AloneInv
<1>4. main \notin {"starting", "booting", "loading"} /\ queue = <<>>
  BY <1>1, <1>3, NothingPending DEF Alone
<1>5. QED
  BY <1>1, <1>2, <1>4 DEF AloneInv

LEMMA AloneMain ==
    ASSUME Inv, [Next]_vars, Main
    PROVE  AloneInv'
<1> SUFFICES ASSUME Alone', owner' # File PROVE AloneInv'
  BY DEF AloneInv
<1>1. TypeOK /\ TypeOK' /\ QueueInv
  BY TypeNext DEF Inv
<1>2. Alone' = Alone /\ owner' = owner /\ state' = state
  BY DEF Main, IpcInitialize, NoCard, NoBootFile, BootFile, TakeRefused, TakeBoot, TakeJump,
         LoadBlock, LoadFails, StartProgram, Leave, MainOnly, history, receiver, Alone
<1>3. /\ main \notin {"starting", "booting"}
      /\ main = "loading" => queue = <<>>
      /\ state = "buffer" => ~running /\ main # "loading" /\ queue = <<>>
      /\ queue # <<>> =>
            /\ Len(queue) = 1
            /\ queue[1].kind = "jump" /\ queue[1].id = owner => Whole("low", queue[1])
      /\ main \in {"leaving", "left"} /\ job.id = owner => Whole("low", job)
  BY <1>2 DEF Inv, AloneInv
<1>4. ASSUME Take, mem' = mem, running' => running, main' # "left",
             main' = "leaving" => Head(queue).kind = "jump",
             main' \notin {"starting", "booting"}
      PROVE  AloneInv'
  <2>1. queue # <<>> /\ Len(queue) = 1 /\ job' = queue[1] /\ Head(queue) = queue[1]
    BY <1>1, <1>3, <1>4 DEF Take, TypeOK, TypeMain
  <2>2. queue' = <<>>
    BY <1>1, <1>4, <2>1 DEF Take, TypeOK, TypeMain
  <2>3. state # "buffer"
    BY <1>3, <2>1
  <2>4. main' \in {"leaving", "left"} /\ job'.id = owner => Whole("low", job')
    BY <1>3, <1>4, <2>1
  <2>5. QED
    BY <1>2, <1>4, <2>2, <2>3, <2>4 DEF AloneInv, Whole
<1>5. CASE TakeRefused
  BY <1>4, <1>5 DEF TakeRefused, Take, ppc
<1>6. CASE TakeBoot
  BY <1>4, <1>6 DEF TakeBoot, StartLoading
<1>7. CASE TakeJump
  BY <1>4, <1>7 DEF TakeJump, ppc
<1>8. CASE LoadBlock
  BY <1>2, <1>3, <1>8 DEF LoadBlock, ppc, AloneInv
<1>9. CASE LoadFails
  <2>1. Nothing.id # owner'
    BY <1>1, GeckoAssumption DEF Nothing, Other, TypeOK, TypeHistory
  <2>2. QED
    BY <1>2, <1>3, <1>9, <2>1 DEF LoadFails, ppc, AloneInv
<1>10. CASE StartProgram
  BY <1>2, <1>3, <1>10 DEF StartProgram, AloneInv
<1>11. CASE Leave
  BY <1>2, <1>3, <1>11 DEF Leave, ppc, AloneInv, Whole
<1>12. QED
  BY <1>3, <1>5, <1>6, <1>7, <1>8, <1>9, <1>10, <1>11
     DEF Main, IpcInitialize, NoCard, NoBootFile, BootFile

LEMMA AloneNext == Inv /\ [Next]_vars => AloneInv'
<1> SUFFICES ASSUME Inv, [Next]_vars, ~Accept, ~Main, Alone', owner' # File
             PROVE  AloneInv'
  BY AloneAccept, AloneMain DEF AloneInv
<1>1. TypeOK /\ OwnerInv /\ PastInv /\ QueueInv /\ AloneInv
  BY DEF Inv
<1>2. /\ Alone' = Alone /\ owner' = owner
      /\ state' = "buffer" => state = "buffer"
      /\ main' = main /\ job' = job /\ (running' => running)
      /\ ~Complete => queue' = queue
  BY OwnerFrame, MainFrame
<1>3. main' \in {"leaving", "left"} /\ job.id = owner' => Whole("low", job)'
  <2>1. job.id = owner' => mem' = mem
    BY <1>1, OwnerStep, JobIsProgram DEF PastInv, Main
  <2>2. QED
    BY <1>1, <1>2, <2>1 DEF AloneInv, Whole
<1>4. CASE Complete
  <2>1. state = "buffer" /\ state' = "none"
    BY <1>4 DEF Complete, Cleanup
  <2>2. queue = <<>> /\ main # "loading"
    BY <1>1, <1>2, <2>1 DEF AloneInv
  <2>3. queue' # <<>> =>
          /\ Len(queue') = 1
          /\ queue'[1].kind = "jump" => \A i \in 1 .. queue'[1].len : mem'["low"][i] = queue'[1].id
    <3>1. queue' = <<>> \/ queue' = <<NewJob>>
      BY <1>4, <2>2 DEF Complete, NewJob
    <3>2. PICK q : q = NewJob
      OBVIOUS
    <3>3. q.kind = "jump" => \A i \in 1 .. q.len : mem'["low"][i] = q.id
      BY <1>2, <1>4, <3>2, CompleteSound DEF Whole
    <3>4. QED
      BY <3>1, <3>2, <3>3
  <2>4. QED
    BY <1>1, <1>2, <1>3, <2>1, <2>2, <2>3 DEF AloneInv, Whole
<1>5. CASE ~Complete
  <2>1. queue # <<>> /\ Len(queue) = 1 /\ queue[1].id = owner' => mem' = mem
    <3>1. SUFFICES ASSUME Len(queue) = 1, queue[1].id = owner' PROVE mem' = mem
      OBVIOUS
    <3>2. queue[1].id \in Program /\ Past(queue[1].id)
      BY <1>1, <3>1, JobIsProgram DEF QueueInv, Sound
    <3>3. QED
      BY <1>1, <3>1, <3>2, OwnerStep DEF Main
  <2>2. QED
    BY <1>1, <1>2, <1>3, <1>5, <2>1 DEF AloneInv, Whole
<1>6. QED
  BY <1>4, <1>5

-----------------------------------------------------------------------------
LEMMA BeforeInit == Init => BeforeInv
BY DEF Init, BeforeInv

(* The main program gets nothing new to load by itself. *)
LEMMA PendingMain ==
    ASSUME TypeOK, Main
    PROVE  Pending' \subseteq Pending
<1>1. \/ queue' = queue \/ queue' = <<>> \/ Take
  BY DEF Main, IpcInitialize, NoCard, NoBootFile, BootFile, TakeRefused, TakeBoot, TakeJump,
         LoadBlock, LoadFails, StartProgram, Leave
<1>2. ASSUME Take
      PROVE  /\ \A i \in DOMAIN queue' : queue'[i].id \in Pending
             /\ job'.id \in Pending
  <2>1. queue \in Seq(Job) /\ queue # <<>> /\ queue' = Tail(queue) /\ job' = Head(queue)
    BY <1>2 DEF TypeOK, TypeMain, Take
  <2>2. 1 \in DOMAIN queue /\ job' = queue[1]
    BY <2>1
  <2>3. \A i \in DOMAIN queue' : i + 1 \in DOMAIN queue /\ queue'[i] = queue[i + 1]
    BY <2>1
  <2>4. QED
    BY <2>2, <2>3 DEF Pending
<1>3. \A i \in DOMAIN queue' : queue'[i].id \in Pending
  BY <1>1, <1>2 DEF Pending
<1>4. main' = "loading" => job'.id \in Pending
  BY <1>2 DEF Main, IpcInitialize, NoCard, NoBootFile, BootFile, StartLoading, TakeRefused,
              TakeBoot, TakeJump, Take, LoadBlock, LoadFails, StartProgram, Leave, Pending
<1>5. main' \in {"starting", "booting"} => File \in Pending
  BY DEF Main, IpcInitialize, NoCard, NoBootFile, BootFile, StartLoading, TakeRefused,
         TakeBoot, TakeJump, Take, LoadBlock, LoadFails, StartProgram, Leave, Pending
<1>6. QED
  BY <1>3, <1>4, <1>5 DEF Pending

LEMMA BeforeNext == Inv /\ [Next]_vars => BeforeInv'
<1> SUFFICES ASSUME Inv, [Next]_vars, state' = "buffer"
             PROVE  Pending' \subseteq before' /\ (running' => program'.id \in before')
  BY DEF BeforeInv
<1>1. CASE Accept
  BY <1>1, AcceptStep DEF Inv, Pending
<1>2. CASE ~Accept
  <2>1. state = "buffer" /\ before' = before /\ ~Complete
    BY <1>2, OwnerFrame, BufferFrame
  <2>2. Pending \subseteq before /\ (running => program.id \in before)
    BY <2>1 DEF Inv, BeforeInv
  <2>3. CASE Main
    <3>1. Pending' \subseteq Pending
      BY <2>3, PendingMain DEF Inv
    <3>2. running' => (running /\ program' = program) \/ program'.id \in Pending
      BY <2>3 DEF Main, IpcInitialize, NoCard, NoBootFile, BootFile, StartLoading, TakeRefused,
                  TakeBoot, TakeJump, LoadBlock, LoadFails, StartProgram, Leave, ppc, Pending
    <3>3. QED
      BY <2>1, <2>2, <3>1, <3>2
  <2>4. CASE ~Main
    BY <2>1, <2>2, <2>4, MainFrame DEF Pending
  <2>5. QED
    BY <2>3, <2>4
<1>3. QED
  BY <1>1, <1>2

-----------------------------------------------------------------------------
LEMMA InvInit == Init => Inv
BY TypeInit, OwnerInit, ImageInit, QueueInit, LoadInit, PastInit, StartsInit, AloneInit, BeforeInit
   DEF Inv

LEMMA InvNext == Inv /\ [Next]_vars => Inv'
BY TypeNext, OwnerNext, ImageNext, QueueNext, LoadNext, PastInvNext, StartsNext, AloneNext,
   BeforeNext DEF Inv

LEMMA InvAlways == Spec => []Inv
BY InvInit, InvNext, PTL DEF Spec

(***************************************************************************)
(* The variables have their types: what is left to receive is within the   *)
(* size field or within the image, and the image within its memory.        *)
(***************************************************************************)
THEOREM TypeCorrect == Spec => []TypeOK
<1>1. Inv => TypeOK
  BY DEF Inv
<1>2. QED
  BY <1>1, InvAlways, PTL

(***************************************************************************)
(* While an image arrives, the PowerPC runs at most a program that was     *)
(* queued or being loaded when the image's size was accepted               *)
(* (gecko.c:333).                                                          *)
(***************************************************************************)
THEOREM MemoryIsOwned == Spec => []MemoryIsMine
<1>1. Inv => MemoryIsMine
  BY DEF Inv, BeforeInv, MemoryIsMine
<1>2. QED
  BY <1>1, InvAlways, PTL

(***************************************************************************)
(* The PowerPC is started with a whole program, unless a later upload took *)
(* the memory from it.                                                     *)
(***************************************************************************)
THEOREM StartIsWhole == Spec => []StartsWhole
<1>1. Inv => StartsWhole
  BY DEF Inv
<1>2. QED
  BY <1>1, InvAlways, PTL

(***************************************************************************)
(* The ARM leaves to a whole image, if it came alone and no later upload   *)
(* took the memory from it.                                                *)
(***************************************************************************)
THEOREM LeaveIsWhole == Spec => []LeavesToWhole
<1>1. Inv => LeavesToWhole
  BY DEF Inv, PastInv, AloneInv, LeavesToWhole
<1>2. QED
  BY <1>1, InvAlways, PTL

(***************************************************************************)
(* On either processor, what is started is whole.                          *)
(***************************************************************************)
THEOREM RunsWholeCorrect == Spec => []RunsWhole
<1>1. StartsWhole /\ LeavesToWhole => RunsWhole
  BY DEF RunsWhole
<1>2. QED
  BY <1>1, StartIsWhole, LeaveIsWhole, PTL
=============================================================================
