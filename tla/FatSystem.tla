----------------------------- MODULE FatSystem -----------------------------
(***************************************************************************)
(* A PowerPC program that uses the files of its SD card through            *)
(* libdiskmii/ff.c, a power cut after any write that reaches the card, a   *)
(* transfer that fails, and the ARM, which loads a program from the same   *)
(* card with its own file system (mini/ff.c).                              *)
(*                                                                         *)
(* The program keeps the rules ff.c needs and does not check: it opens a   *)
(* file for writing once, leaves the names of open files alone, does not   *)
(* remove its current directory, does not move a directory into itself,    *)
(* synchronises a file before it truncates it, and mounts the volume again *)
(* only with no file open.                                                 *)
(***************************************************************************)
EXTENDS FatFile, SequencesExt

CONSTANTS
    Fds,          \* the FILs of the program
    Programs,     \* what programs call the functions with: {[files, modes,
                  \* reads, writes, offsets, names, dirs, moves, calls]}
    BootPath, BootParts,          \* what the ARM loads
    FailAt,       \* bound: the transfers of a call that may fail
    Types         \* the volumes tried

VARIABLES
    type, disk,
    prog,     \* the program that runs; prog.calls bounds its calls
    fs,       \* the FATFS
    fil,      \* [Fds -> FIL]
    arm,      \* the ARM's FATFS: [win, winsect]
    ops,      \* calls made
    phase,    \* "run", "failed" (a transfer failed), "off" or "booted"
    last,     \* the last call
    seen,     \* what a reader of the volume sees through every buffer
    durable   \* what a power cut may not take: {[paths, data]}

vars == <<type, prog, disk, fs, fil, arm, ops, phase, last, seen, durable>>
FatView == <<type, prog, disk, fs, fil, arm, ops, phase, seen, durable, IF phase = "booted" THEN last ELSE <<>>>>

Arm == INSTANCE MiniFat
ArmOff == [win |-> ZeroSector, winsect |-> 0]
Depth == 2
NoFd == 0

-----------------------------------------------------------------------------
(* The record a call of ff.c works on, and what it leaves. *)

Work(fd, left) ==
    [disk |-> disk, type |-> type, mounted |-> fs.mounted, win |-> fs.win, winsect |-> fs.winsect,
     wflag |-> fs.wflag, last |-> fs.last, free |-> fs.free, fsi |-> fs.fsi, cdir |-> fs.cdir, id |-> fs.id,
     dj |-> NoDir, fp |-> IF fd \in Fds THEN fil[fd] ELSE NoFile, res |-> "ok", val |-> 0,
     out |-> <<>>, log |-> <<>>, left |-> left]
FsOf(m) == [f \in DOMAIN Unmounted |-> m[f]]

(* The disk as it will be when every buffer has been written. *)
RECURSIVE Settle(_, _)
Settle(d, files) ==
    IF files = {} THEN d
    ELSE LET f == CHOOSE g \in files : TRUE
             e == d[f.dirSect][f.dirAt].sfn
             entry == Sfn(e.name, e.attr, f.org, f.fsize)
             flushed == IF "dirty" \in f.flag THEN [d EXCEPT ![f.dsect] = f.buf] ELSE d
         IN  Settle(IF "written" \in f.flag THEN [flushed EXCEPT ![f.dirSect][f.dirAt] = entry] ELSE flushed,
                    files \ {f})
Settled(d, f, files) ==
    LET window == IF ~f.wflag THEN d
                  ELSE IF f.winsect \in FatBase .. FatBase + SectsFat - 1
                    THEN [s \in DOMAIN d |-> IF s \in {f.winsect, f.winsect + (NFats - 1) * SectsFat} THEN f.win ELSE d[s]]
                  ELSE [d EXCEPT ![f.winsect] = f.win]
    IN  Settle(window, {files[fd] : fd \in {i \in Fds : files[i].open}})

Node(d, item) == [dir |-> "dir" \in item.sfn.attr, rdo |-> "rdo" \in item.sfn.attr,
                  data |-> IF "dir" \in item.sfn.attr THEN <<>> ELSE DataOf(type, d, item.sfn.clust, item.sfn.size)]
TreeOf(d, items) ==
    [p \in {i.path : i \in items} |-> Node(d, CHOOSE i \in items : i.path = p)]

FreeClusters(d) == {c \in 2 .. MaxClust - 1 : FatOf(d, c) = 0}
RunOf(d) ==
    IF type = "FAT32" THEN RootEntries
    ELSE LET cells == DirCells(type, d, 0)
             Blank(i, n) == \A j \in i .. i + n - 1 : j <= RootEntries /\ cells[j] \in {Zero, Deleted}
         IN  CHOOSE n \in 0 .. RootEntries :
               /\ \E i \in 1 .. RootEntries + 1 : Blank(i, n)
               /\ \A i \in 1 .. RootEntries : ~Blank(i, n + 1)

(* The path of an open file: that of the entry it will be written to. *)
View(d, f, files) ==
    LET s == Settled(d, f, files)
        items == Listing(type, s, 0, <<>>, Depth)
        At(g) == {i \in items : i.sect = g.dirSect /\ i.at = g.dirAt}
        PathOf(g) == IF At(g) = {} THEN <<>> ELSE (CHOOSE i \in At(g) : TRUE).path
        here == {i \in items : f.cdir # 0 /\ i.sfn.clust = f.cdir}
    IN  [tree |-> TreeOf(s, items),
         fds |-> [fd \in Fds |-> LET g == files[fd] IN
                    [open |-> g.open, path |-> IF g.open THEN PathOf(g) ELSE <<>>, pos |-> g.fptr, writer |-> "w" \in g.flag]],
         cwd |-> IF here = {} THEN <<>> ELSE (CHOOSE i \in here : TRUE).path,
         room |-> [clusters |-> Cardinality(FreeClusters(s)), run |-> RunOf(s)]]

Nothing == [tree |-> <<>>, fds |-> <<>>, cwd |-> <<>>, room |-> <<>>]
Stopped == [op |-> "stopped", res |-> "", out |-> <<>>]

-----------------------------------------------------------------------------
(* What a call promises to keep: every file that is not being changed, once *)
(* it has been synchronised or closed.                                     *)

Pending(files, view) == {view.fds[fd].path : fd \in {i \in Fds : files[i].open /\ "written" \in files[i].flag}}
Kept(files, view) ==
    {[paths |-> {p}, data |-> view.tree[p].data] :
        p \in {q \in DOMAIN view.tree : ~view.tree[q].dir /\ q \notin Pending(files, view)}}

(* The files a call changes, and the names it may leave a file under. *)
PathsOf(call) == IF call.op \in {"read", "write", "seek", "truncate", "sync", "close"}
                 THEN {seen.fds[call.fd].path} ELSE {}
Resolve(path) == IF Head(path) = "." THEN seen.cwd \o Tail(path) ELSE path
Changed(call) ==
    PathsOf(call) \cup (IF call.op \in {"open", "unlink", "chmod", "utime"} THEN {Resolve(call.path)} ELSE {})
AlsoAs(call, p) ==
    IF call.op # "rename" THEN {p}
    ELSE LET from == Resolve(call.path)
         IN  IF Len(p) >= Len(from) /\ SubSeq(p, 1, Len(from)) = from
             THEN {p, Resolve(call.to) \o SubSeq(p, Len(from) + 1, Len(p))} ELSE {p}
Untouched(call) ==
    {[paths |-> UNION {AlsoAs(call, p) : p \in k.paths}, data |-> k.data] :
        k \in {d \in durable : d.paths \cap Changed(call) = {}}}

-----------------------------------------------------------------------------
(* The three ways a call may go. *)

Commit(call, m, out) ==
    /\ disk' = m.disk /\ fs' = FsOf(m)
    /\ fil' = IF call.fd \in Fds THEN [fil EXCEPT ![call.fd] = m.fp] ELSE fil
    /\ last' = [call EXCEPT !.res = m.res, !.out = out]
    /\ seen' = View(disk', fs', fil')
    /\ durable' = Kept(fil', seen')
    /\ phase' = "run"
    /\ UNCHANGED <<type, prog, arm>>

RECURSIVE Replay(_, _)
Replay(d, log) == IF log = <<>> THEN d ELSE Replay([d EXCEPT ![Head(log)[1]] = Head(log)[2]], Tail(log))

(* The power goes after k writes of the call have reached the disk. *)
PowerCut(call, m, k) ==
    /\ disk' = Replay(disk, SubSeq(m.log, 1, k))
    /\ fs' = Unmounted /\ fil' = [fd \in Fds |-> NoFile]
    /\ arm' = ArmOff
    /\ phase' = "off" /\ last' = Stopped /\ seen' = Nothing
    /\ durable' = Untouched(call)
    /\ UNCHANGED <<type, prog>>

(* A transfer of the call fails; the program only closes its files. *)
TransferFails(call, m) ==
    /\ disk' = m.disk /\ fs' = FsOf(m)
    /\ fil' = IF call.fd \in Fds THEN [fil EXCEPT ![call.fd] = m.fp] ELSE fil
    /\ phase' = "failed" /\ last' = Stopped /\ seen' = [Nothing EXCEPT !.fds = seen.fds]
    /\ durable' = Untouched(call)
    /\ UNCHANGED <<type, prog, arm>>

Step(call, Do(_), Out(_)) ==
    /\ phase = "run" /\ ops < prog.calls /\ ops' = ops + 1
    /\ LET m == Do(Work(call.fd, Never))
       IN  \/ Commit(call, m, Out(m))
           \/ \E k \in 1 .. Len(m.log) - 1 : PowerCut(call, m, k)
           \/ \E j \in FailAt : LET e == Do(Work(call.fd, j)) IN e.left > Never \div 2 /\ TransferFails(call, e)

None_(m) == <<>>
Units(m) == m.out
Value(m) == m.val
OnPath(op, path) == [op |-> op, fd |-> NoFd, path |-> path, res |-> "", out |-> <<>>]
OnFile(op, fd) == [op |-> op, fd |-> fd, res |-> "", out |-> <<>>]

-----------------------------------------------------------------------------
(* The calls. *)

IsOpen(p) == \E fd \in Fds : fil[fd].open /\ seen.fds[fd].path = p
IsWritten(p) == \E fd \in Fds : fil[fd].open /\ seen.fds[fd].path = p /\ "w" \in fil[fd].flag
Below(p, q) == Len(q) >= Len(p) /\ SubSeq(q, 1, Len(p)) = p

f_open(fd, path, mode) ==
    LET p == Resolve(path) IN
    /\ ~fil[fd].open /\ \A g \in Fds : g < fd => fil[g].open
    /\ IF mode = "read" THEN ~IsWritten(p) ELSE ~IsOpen(p)
    /\ Step([op |-> "open", fd |-> fd, path |-> path, mode |-> mode, res |-> "", out |-> <<>>],
            LAMBDA m : Open(m, path, mode), None_)

f_read(fd, n) ==
    /\ fil[fd].open
    /\ Step([op |-> "read", fd |-> fd, n |-> n, res |-> "", out |-> <<>>], LAMBDA m : Read(m, n), Units)

Fresh(n) == [i \in 1 .. n |-> [data |-> 10 * (ops + 1) + i]]
f_write(fd, n) ==
    /\ fil[fd].open /\ "w" \in fil[fd].flag
    /\ Step([op |-> "write", fd |-> fd, units |-> Fresh(n), res |-> "", out |-> <<>>],
            LAMBDA m : Write(m, Fresh(n)), None_)

f_lseek(fd, ofs) ==
    /\ fil[fd].open /\ fil[fd].fptr # ofs
    /\ Step([op |-> "seek", fd |-> fd, n |-> ofs, res |-> "", out |-> <<>>], LAMBDA m : Seek(m, ofs), None_)

f_truncate(fd) ==
    /\ fil[fd].open /\ "w" \in fil[fd].flag /\ "dirty" \notin fil[fd].flag
    /\ Step(OnFile("truncate", fd), Truncate, None_)

f_sync(fd) == "written" \in fil[fd].flag /\ Step(OnFile("sync", fd), SyncFile, None_)
f_close(fd) == fil[fd].open /\ Step(OnFile("close", fd), Close, None_)

f_chdir(path) == Step(OnPath("chdir", path), LAMBDA m : Chdir(m, path), None_)
f_readdir(path) == Step(OnPath("list", path), LAMBDA m : List(m, path), Units)
f_stat(path) == Step(OnPath("stat", path), LAMBDA m : Stat(m, path), Value)
f_getfree == Step(OnFile("free", NoFd), GetFree, Value)

f_unlink(path) ==
    /\ ~IsOpen(Resolve(path)) /\ ~Below(Resolve(path), seen.cwd)
    /\ Step(OnPath("unlink", path), LAMBDA m : Unlink(m, path), None_)

f_mkdir(path) == Step(OnPath("mkdir", path), LAMBDA m : Mkdir(m, path), None_)

f_chmod(path, readonly) ==
    Step([op |-> "chmod", fd |-> NoFd, path |-> path, readonly |-> readonly, res |-> "", out |-> <<>>],
         LAMBDA m : Chmod(m, path, readonly), None_)
f_utime(path) == Resolve(path) \in DOMAIN seen.tree /\ Step(OnPath("utime", path), LAMBDA m : Utime(m, path), None_)

f_rename(path, to) ==
    /\ ~IsOpen(Resolve(path)) /\ ~Below(Resolve(path), Resolve(to))
    /\ Step([op |-> "rename", fd |-> NoFd, path |-> path, to |-> to, res |-> "", out |-> <<>>],
            LAMBDA m : Rename(m, path, to), None_)

f_mount ==
    /\ fs.mounted /\ ~fs.wflag /\ \A fd \in Fds : ~fil[fd].open
    /\ Step(OnFile("mount", NoFd), LAMBDA m : [m EXCEPT !.mounted = FALSE, !.cdir = 0], None_)

(* After a failed transfer the program closes what it has open. *)
CloseAfterError(fd) ==
    /\ phase = "failed" /\ fil[fd].open
    /\ LET m == Close(Work(fd, Never))
       IN  disk' = m.disk /\ fs' = FsOf(m) /\ fil' = [fil EXCEPT ![fd] = NoFile]
    /\ UNCHANGED <<type, prog, arm, ops, phase, last, seen, durable>>

(* The ARM loads a program: on IPC_PPC_BOOT_FILE, with the window it has   *)
(* since it last did, or after the power came back.  The PowerPC stops.    *)
Stale == arm.winsect # 0 /\ arm.win # disk[arm.winsect]
Boot ==
    /\ phase \in {"run", "off"}
    /\ LET a == Arm!powerpc_boot_file([Arm!Fresh(type, disk) EXCEPT !.win = arm.win, !.winsect = arm.winsect],
                                      BootPath, BootParts)
       IN  /\ last' = [op |-> "stopped", res |-> a.res, out |-> a.out, stale |-> Stale]
           /\ arm' = [win |-> a.win, winsect |-> a.winsect]
    /\ phase' = "booted"
    /\ UNCHANGED <<type, prog, disk, fs, fil, ops, seen, durable>>

-----------------------------------------------------------------------------
(* The volume a run starts with, made by the calls themselves: a file of   *)
(* five units, a directory, a file in it, all closed.                      *)

Blank(t) ==
    [disk |-> Format(t), type |-> t, dj |-> NoDir, fp |-> NoFile, res |-> "ok", val |-> 0,
     out |-> <<>>, log |-> <<>>, left |-> Never] @@ Unmounted
MakeFile(m, path, units) == Close(Write(Open(m, path, "new"), units))
Old(n, v) == [i \in 1 .. n |-> [data |-> 100 * v + i]]
Prepared(t) ==
    LET f == MakeFile(Blank(t), <<"f">>, Old(5, 1))
    IN  MakeFile(Mkdir(f, <<"d">>), <<"d", "g">>, Old(1, 2)).disk

Init ==
    /\ type \in Types /\ prog \in Programs /\ disk = Prepared(type)
    /\ fs = Unmounted /\ fil = [fd \in Fds |-> NoFile]
    /\ LET a == Arm!powerpc_boot_file(Arm!Fresh(type, disk), BootPath, BootParts)
       IN  arm = [win |-> a.win, winsect |-> a.winsect]
    /\ ops = 0 /\ phase = "run" /\ last = Stopped
    /\ seen = View(disk, fs, fil) /\ durable = Kept(fil, seen)

FileCalls(fd) ==
    \/ \E path \in prog.files, mode \in prog.modes : f_open(fd, path, mode)
    \/ \E n \in prog.reads : f_read(fd, n)
    \/ \E n \in prog.writes : f_write(fd, n)
    \/ \E ofs \in prog.offsets : f_lseek(fd, ofs)
    \/ f_truncate(fd) \/ f_sync(fd) \/ f_close(fd)
NameCalls ==
    \/ \E path \in prog.dirs : f_chdir(path) \/ f_readdir(path) \/ f_mkdir(path)
    \/ \E path \in prog.names : f_stat(path) \/ f_utime(path) \/ \E r \in BOOLEAN : f_chmod(path, r)
    \/ \E path \in prog.names \cup prog.dirs : f_unlink(path)
    \/ \E move \in prog.moves : f_rename(move[1], move[2])
    \/ (prog.names # {} /\ (f_getfree \/ f_mount))
Next == (\E fd \in Fds : FileCalls(fd) \/ CloseAfterError(fd)) \/ NameCalls \/ Boot

Spec == Init /\ [][Next]_vars

-----------------------------------------------------------------------------
(* PROPERTIES *)

(* The calls do what FileTree says of them: no cluster, sector, buffer or  *)
(* entry that ff.c shares between two files is ever seen by a program.     *)
Tree == INSTANCE FileTree WITH
    NameEntries <- LongParts + 1,
    tree <- seen.tree, fds <- seen.fds, cwd <- seen.cwd, room <- seen.room, last <- last
Implements == Tree!Spec

(* Between two calls the chains of the files and directories end, share no *)
(* cluster and take every cluster that is not free; both copies of the FAT *)
(* agree but for the window; the number of free clusters ff.c keeps is the *)
(* true one; and no two entries of a directory have the same name.         *)
Chains(s, items) == {Chain(s, i.sfn.clust) : i \in {j \in items : j.sfn.clust # 0}}
                    \cup (IF type = "FAT32" THEN {Chain(s, 2)} ELSE {})
VolumeSound ==
    phase = "run" =>
      LET s == Settled(disk, fs, fil)
          items == Listing(type, s, 0, <<>>, Depth)
          chains == Chains(s, items)
          used == UNION {Range(c) : c \in chains}
      IN  /\ \A c \in chains : FatOf(s, c[Len(c)]) = Eoc
          /\ \A c, d \in chains : c = d \/ Range(c) \cap Range(d) = {}
          /\ Cardinality(chains) = Cardinality({i \in items : i.sfn.clust # 0}) + (IF type = "FAT32" THEN 1 ELSE 0)
          /\ used = (2 .. MaxClust - 1) \ FreeClusters(s)
          /\ fs.mounted /\ fs.free # Max32 => fs.free = Cardinality(FreeClusters(s))
          /\ \A i, j \in items : i.path = j.path => i = j
          /\ NFats = 2 => \A k \in FatBase .. FatBase + SectsFat - 1 : disk[k] = disk[k + SectsFat]

(* Whatever write the power goes after, and whatever transfer fails, every *)
(* file that was synchronised and that the call does not change is on the  *)
(* disk with its data (a renamed one under its old or its new name).       *)
SyncedSurvives ==
    LET tree == TreeOf(disk, Listing(type, disk, 0, <<>>, Depth))
    IN  \A k \in durable : \E p \in k.paths \cap DOMAIN tree : ~tree[p].dir /\ tree[p].data = k.data

(* What the ARM loads is the file as it was last synchronised, unless the  *)
(* sector in its window was written since.                                 *)
Part(data, part) == SubSeq(data, part[1] + 1, part[1] + part[2])
Whole(data) == \A i \in DOMAIN BootParts : BootParts[i][1] + BootParts[i][2] <= Len(data)
BootReads ==
    phase = "booted" /\ ~last.stale =>
      \A k \in durable : k.paths = {BootPath} =>
        IF Whole(k.data)
          THEN last.res = "ok" /\ last.out = FlattenSeq([i \in DOMAIN BootParts |-> Part(k.data, BootParts[i])])
          ELSE last.res # "ok"
=============================================================================
