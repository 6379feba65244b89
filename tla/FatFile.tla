------------------------------ MODULE FatFile ------------------------------
(***************************************************************************)
(* The calls of libdiskmii/ff.c: f_open to f_rename, as operators on the   *)
(* record of Fat.  fp is the FIL of the call.                              *)
(***************************************************************************)
EXTENDS Fat

-----------------------------------------------------------------------------
(* f_open *)

Modes == {"read", "write", "always", "create", "new"}   \* FA_READ, _WRITE, _OPEN_ALWAYS, ...
Creating(mode) == mode \in {"always", "create", "new"}
FlagOf(mode) == IF mode = "read" THEN {"r"} ELSE {"r", "w"}

(* The FIL of the entry in the window. *)
Opened(m, flag) ==
    LET e == Here(m).sfn
    IN  [Ok(m) EXCEPT !.fp = [NoFile EXCEPT !.open = TRUE, !.flag = flag, !.org = e.clust, !.fsize = e.size,
                                            !.dirSect = m.winsect, !.dirAt = m.dj.index % Cells, !.id = m.id]]

(* The file is resized to zero: its entry first, then its clusters. *)
Overwrite(m) ==
    LET e == Here(m).sfn
        zeroed == SetCell(m, m.dj.index, Sfn(e.name, e.attr, 0, 0))
        Back(r) == MoveWindow(r, m.winsect)
    IN  IF e.clust = 0 THEN Back(zeroed)
        ELSE Then(RemoveChain(zeroed, e.clust), LAMBDA r : Back([r EXCEPT !.last = e.clust - 1]))

(* A file that is new or emptied: no attribute, and to be synchronised. *)
Created(m, mode) ==
    LET e == Here(m).sfn
        fresh == SetCell(m, m.dj.index, Sfn(e.name, {}, e.clust, e.size))
    IN  Opened(fresh, FlagOf(mode) \cup {"written"})

Open(m, path, mode) ==
    LET New(f) == Then(DirRegister(f), LAMBDA new : Created(new, mode))
        Existing(f) ==
            LET e == Here(f).sfn
            IN  IF mode = "new" THEN Err(f, "exist")
                ELSE IF ~f.dj.dir \/ "dir" \in e.attr THEN Err(f, IF Creating(mode) THEN "denied" ELSE "nofile")
                ELSE IF "rdo" \in e.attr /\ mode # "read" THEN Err(f, "denied")
                ELSE IF mode # "create" THEN Opened(f, FlagOf(mode))
                ELSE Then(Overwrite(f), LAMBDA over : Created(over, mode))
    IN  With([Lookup(m, path) EXCEPT !.fp = NoFile], LAMBDA f :
            IF Creating(mode) /\ f.res = "nofile" THEN New(f) ELSE Then(f, Existing))

-----------------------------------------------------------------------------
(* f_read and f_write: a sector, or a part of one, after the other. *)

AtSector(m) == m.fp.fptr % Cells = 0
AtCluster(m) == AtSector(m) /\ m.fp.csect >= Csize
Enter(m, clst) == [Ok(m) EXCEPT !.fp.curr = clst, !.fp.csect = 0]
AtPointer(m) == Clust2Sect(m, m.fp.curr) + m.fp.csect      \* the sector at the pointer

NextCluster(m) ==
    IF ~AtCluster(m) THEN Ok(m)
    ELSE With(IF m.fp.fptr = 0 THEN [m EXCEPT !.val = m.fp.org] ELSE GetFat(m, m.fp.curr), LAMBDA g :
           IF g.val <= 1 THEN Abort(g, "int")
           ELSE IF g.val = Max32 THEN Abort(g, "disk")
           ELSE Enter(g, g.val))

(* The file's own buffer goes to the disk before another sector is used. *)
FlushBuf(m) ==
    IF "dirty" \notin m.fp.flag THEN Ok(m)
    ELSE With(DiskWrite(m, m.fp.dsect, m.fp.buf), LAMBDA w :
           IF Failed(w) THEN Abort(w, "disk") ELSE [w EXCEPT !.fp.flag = @ \ {"dirty"}])

FillBuf(m, sect) ==
    IF m.fp.dsect = sect THEN Ok(m)
    ELSE With(DiskRead(m), LAMBDA r : IF Failed(r) THEN Abort(r, "disk") ELSE [r EXCEPT !.fp.buf = r.disk[sect]])

(* Whole sectors are read past the buffer, but for the one it holds dirty. *)
ReadDirect(m, cc) ==
    LET first == AtPointer(m)
        At(s) == IF "dirty" \in m.fp.flag /\ m.fp.dsect = s THEN m.fp.buf ELSE m.disk[s]
        units == [i \in 1 .. cc * Cells |-> At(first + (i - 1) \div Cells)[(i - 1) % Cells]]
    IN  With(DiskRead(m), LAMBDA r :
            IF Failed(r) THEN Abort(r, "disk")
            ELSE [r EXCEPT !.fp.csect = @ + cc, !.fp.fptr = @ + cc * Cells, !.out = @ \o units])

ReadPart(m, k) ==
    LET at == m.fp.fptr % Cells
    IN  [Ok(m) EXCEPT !.out = @ \o [i \in 1 .. k |-> m.fp.buf[at + i - 1]], !.fp.fptr = @ + k]

TakeSector(m, sect) == [Ok(m) EXCEPT !.fp.dsect = sect, !.fp.csect = @ + 1]

RECURSIVE Reading(_, _)
Reading(m, n) ==
    LET k == Min2(Cells - (m.fp.fptr % Cells), n)
        Part(p) == Reading(ReadPart(p, k), n - k)
        Direct(c, cc) == Then(ReadDirect(c, cc), LAMBDA d : Reading(d, n - cc * Cells))
        Buffered(c) == Then(FlushBuf(c), LAMBDA f :
                       Then(FillBuf(f, AtPointer(c)), LAMBDA b : Part(TakeSector(b, AtPointer(c)))))
    IN  IF n = 0 THEN Ok(m)
        ELSE IF ~AtSector(m) THEN Part(m)
        ELSE Then(NextCluster(m), LAMBDA c :
               IF Clust2Sect(c, c.fp.curr) = 0 THEN Abort(c, "int")
               ELSE IF n >= Cells THEN Direct(c, Min2(n \div Cells, Csize - c.fp.csect))
               ELSE Buffered(c))

Read(m, n) == Then(Usable(m, "r"), LAMBDA u : Reading(u, Min2(n, m.fp.fsize - m.fp.fptr)))

(* The cluster to write to: the next of the chain, or a new one. *)
NextToWrite(m) ==
    LET g == IF m.fp.fptr # 0 THEN CreateChain(m, m.fp.curr)
             ELSE IF m.fp.org # 0 THEN [m EXCEPT !.val = m.fp.org]
             ELSE With(CreateChain(m, 0), LAMBDA c : [c EXCEPT !.fp.org = c.val])
    IN  IF ~AtCluster(m) THEN Ok(m)
        ELSE With(g, LAMBDA c :
               IF c.val = 0 THEN Err(c, "full")
               ELSE IF c.val = 1 THEN Abort(c, "int")
               ELSE IF c.val = Max32 THEN Abort(c, "disk")
               ELSE Enter(c, c.val))

RECURSIVE PutSectors(_, _, _)
PutSectors(m, sect, units) ==
    IF units = <<>> THEN Ok(m)
    ELSE With(DiskWrite(m, sect, [k \in 0 .. Cells - 1 |-> units[k + 1]]), LAMBDA w :
           IF Failed(w) THEN Abort(w, "disk") ELSE PutSectors(w, sect + 1, SubSeq(units, Cells + 1, Len(units))))

(* Faulty variant: the buffer keeps what it held of the sectors written. *)
WriteDirectStale(m, cc, units) ==
    Then(PutSectors(m, AtPointer(m), SubSeq(units, 1, cc * Cells)), LAMBDA w :
        [w EXCEPT !.fp.csect = @ + cc, !.fp.fptr = @ + cc * Cells])

(* Whole sectors go past the buffer, which follows if it holds one of them. *)
WriteDirect(m, cc, units) ==
    LET first == AtPointer(m)
        off == (m.fp.dsect - first) * Cells
    IN  Then(PutSectors(m, first, SubSeq(units, 1, cc * Cells)), LAMBDA w :
            LET moved == [w EXCEPT !.fp.csect = @ + cc, !.fp.fptr = @ + cc * Cells]
            IN  IF m.fp.dsect \notin first .. first + cc - 1 THEN moved
                ELSE [moved EXCEPT !.fp.buf = [k \in 0 .. Cells - 1 |-> units[off + k + 1]],
                                   !.fp.flag = @ \ {"dirty"}])

WritePart(m, k, units) ==
    LET at == m.fp.fptr % Cells
    IN  [Ok(m) EXCEPT !.fp.buf = [j \in 0 .. Cells - 1 |-> IF j \in at .. at + k - 1 THEN units[j - at + 1] ELSE @[j]],
                      !.fp.flag = @ \cup {"dirty"}, !.fp.fptr = @ + k]

RECURSIVE Writing(_, _)
Writing(m, units) ==
    LET n == Len(units)
        k == Min2(Cells - (m.fp.fptr % Cells), n)
        From(i) == SubSeq(units, i, n)
        Part(p) == Writing(WritePart(p, k, units), From(k + 1))
        Direct(f, cc) == Then(WriteDirect(f, cc, units), LAMBDA d : Writing(d, From(cc * Cells + 1)))
        Buffered(f) == Then(IF f.fp.fptr < f.fp.fsize THEN FillBuf(f, AtPointer(f)) ELSE Ok(f),
                            LAMBDA b : Part(TakeSector(b, AtPointer(f))))
    IN  IF n = 0 THEN Ok(m)
        ELSE IF ~AtSector(m) THEN Part(m)
        ELSE With(NextToWrite(m), LAMBDA c :
               IF c.res = "full" THEN Ok(c)
               ELSE Then(Then(c, FlushBuf), LAMBDA f :
                 IF Clust2Sect(f, f.fp.curr) = 0 THEN Abort(f, "int")
                 ELSE IF n >= Cells THEN Direct(f, Min2(n \div Cells, Csize - f.fp.csect))
                 ELSE Buffered(f)))

Grown(m) == IF m.fp.fptr > m.fp.fsize THEN [m EXCEPT !.fp.fsize = m.fp.fptr] ELSE m

Write(m, units) ==
    Then(Then(Usable(m, "w"), LAMBDA u : Writing(u, units)), LAMBDA w :
        [Grown(w) EXCEPT !.fp.flag = @ \cup {"written"}])

-----------------------------------------------------------------------------
(* f_sync, f_close, f_lseek and f_truncate *)

EntryNow(m) ==
    LET e == m.win[m.fp.dirAt].sfn IN SetCell(m, m.fp.dirAt, Sfn(e.name, e.attr, m.fp.org, m.fp.fsize))

SyncFile(m) ==
    LET Flushed(v) == IF "dirty" \notin v.fp.flag THEN Ok(v)
                      ELSE Then(DiskWrite(v, v.fp.dsect, v.fp.buf), LAMBDA w : [w EXCEPT !.fp.flag = @ \ {"dirty"}])
    IN  Then(Validate(m), LAMBDA v :
            IF "written" \notin v.fp.flag THEN v
            ELSE Then(Then(Flushed(v), LAMBDA f : MoveWindow(f, f.fp.dirSect)), LAMBDA d :
                   Sync([EntryNow(d) EXCEPT !.fp.flag = @ \ {"written"}])))

Close(m) == Then(SyncFile(m), LAMBDA s : [s EXCEPT !.fp = NoFile])

Bcs == Csize * Cells

(* The clusters between the pointer and ofs; a writer makes them. *)
RECURSIVE SeekOn(_, _, _)
SeekOn(m, clst, ofs) ==
    LET writer == "w" \in m.fp.flag
        s == Clust2Sect(m, clst)
        there == [Ok(m) EXCEPT !.fp.fptr = @ + ofs, !.fp.csect = ofs \div Cells]
    IN  IF ofs > Bcs
          THEN With(IF writer THEN CreateChain(m, clst) ELSE GetFat(m, clst), LAMBDA g :
                 IF writer /\ g.val = 0 THEN SeekOn(g, 0, Bcs)
                 ELSE IF g.val = Max32 THEN Abort(g, "disk")
                 ELSE IF g.val \notin 2 .. MaxClust - 1 THEN Abort(g, "int")
                 ELSE SeekOn([g EXCEPT !.fp.curr = g.val, !.fp.fptr = @ + Bcs], g.val, ofs - Bcs))
        ELSE IF ofs % Cells = 0 THEN [there EXCEPT !.val = 0]
        ELSE IF s = 0 THEN Abort(there, "int")
        ELSE [there EXCEPT !.val = s + ofs \div Cells, !.fp.csect = @ + 1]

SeekTo(m, ofs) ==
    LET old == m.fp.fptr
        rewound == [m EXCEPT !.fp.fptr = 0, !.fp.csect = 255, !.val = 0]
        onward == old > 0 /\ (ofs - 1) \div Bcs >= (old - 1) \div Bcs
        base == (old - 1) - ((old - 1) % Bcs)
        First(c) == [c EXCEPT !.fp.org = c.val, !.fp.curr = c.val]
    IN  IF ofs = 0 THEN rewound
        ELSE IF onward THEN SeekOn([rewound EXCEPT !.fp.fptr = base], m.fp.curr, ofs - base)
        ELSE With(IF m.fp.org = 0 THEN CreateChain(rewound, 0) ELSE [rewound EXCEPT !.val = m.fp.org], LAMBDA c :
               IF c.val \in {1, Max32} THEN Abort(c, ChainError(c.val))
               ELSE IF c.val = 0 THEN [First(c) EXCEPT !.val = 0]
               ELSE SeekOn(First(c), c.val, ofs))

Seek(m, to) ==
    LET ofs == IF to > m.fp.fsize /\ "w" \notin m.fp.flag THEN m.fp.fsize ELSE to
        Filled(s) == IF s.fp.fptr % Cells = 0 \/ s.val = s.fp.dsect THEN Ok(s)
                     ELSE Then(FlushBuf(s), LAMBDA f : With(DiskRead(f), LAMBDA r :
                            IF Failed(r) THEN Abort(r, "disk")
                            ELSE [r EXCEPT !.fp.buf = r.disk[s.val], !.fp.dsect = s.val]))
    IN  Then(Validate(m), LAMBDA v :
            IF "error" \in m.fp.flag THEN Err(v, "int")
            ELSE Then(Then(SeekTo(v, ofs), Filled), LAMBDA b :
                   IF b.fp.fptr > b.fp.fsize THEN [Grown(b) EXCEPT !.fp.flag = @ \cup {"written"}] ELSE b))

(* Faulty variant: the end of the chain is not marked. *)
CutChainOpen(m) ==
    With(GetFat(m, m.fp.curr), LAMBDA g :
        IF g.val = Max32 THEN Err(g, "disk") ELSE IF g.val = 1 THEN Err(g, "int")
        ELSE IF g.val < MaxClust THEN RemoveChain(g, g.val) ELSE Ok(g))

CutChain(m) ==
    With(GetFat(m, m.fp.curr), LAMBDA g :
        IF g.val = Max32 THEN Err(g, "disk")
        ELSE IF g.val = 1 THEN Err(g, "int")
        ELSE IF g.val >= MaxClust THEN Ok(g)
        ELSE Then(PutFat(g, m.fp.curr, Eoc), LAMBDA p : RemoveChain(p, g.val)))

Truncate(m) ==
    LET Cut(t) == IF m.fp.fptr = 0 THEN [RemoveChain(t, m.fp.org) EXCEPT !.fp.org = 0] ELSE CutChain(t)
    IN  Then(Usable(m, "w"), LAMBDA u :
            IF m.fp.fsize <= m.fp.fptr THEN u
            ELSE With(Cut([u EXCEPT !.fp.fsize = m.fp.fptr, !.fp.flag = @ \cup {"written"}]), LAMBDA r :
                   IF Failed(r) THEN Abort(r, r.res) ELSE r))

-----------------------------------------------------------------------------
(* Calls on names. *)

Chdir(m, path) ==
    LET To(f) == IF ~f.dj.dir THEN [f EXCEPT !.cdir = 0]
                 ELSE IF ~IsDirectory(Here(f)) THEN Err(f, "nopath")
                 ELSE [f EXCEPT !.cdir = Here(f).sfn.clust]
    IN  With(Lookup(m, path), LAMBDA f : IF f.res = "nofile" THEN Err(f, "nopath") ELSE Then(f, To))

(* f_opendir and f_readdir until the end: the names, in order, in out. *)
RECURSIVE ListOn(_)
ListOn(m) ==
    LET Name(r) == IF r.dj.lfnIdx = NoIdx THEN Here(r).sfn.name[1] ELSE r.dj.lfn
        Onward(next) == IF next.res = "nofile" THEN Ok([next EXCEPT !.dj.sect = 0]) ELSE Then(next, ListOn)
    IN  With(DirRead(m), LAMBDA r :
            IF r.res = "nofile" THEN Ok(r)
            ELSE Then(r, LAMBDA k : With(DirNext([k EXCEPT !.out = Append(@, Name(k))], FALSE), Onward)))

OpenDir(m, path) ==
    LET Table(f) == IF ~f.dj.dir THEN DirSeek(f, 0)
                    ELSE IF ~IsDirectory(Here(f)) THEN Err(f, "nopath")
                    ELSE DirSeek([f EXCEPT !.dj.sclust = Here(f).sfn.clust], 0)
    IN  With(Lookup(m, path), LAMBDA f : IF f.res = "nofile" THEN Err(f, "nopath") ELSE Then(f, Table))
List(m, path) == Then(OpenDir(m, path), ListOn)

Stat(m, path) ==
    Then(Lookup(m, path), LAMBDA f : IF ~f.dj.dir THEN Err(f, "name") ELSE [f EXCEPT !.val = Here(f).sfn.size])

(* The FAT is read, sector by sector, unless the number is known. *)
RECURSIVE CountFree(_, _, _)
CountFree(m, c, n) ==
    IF c = MaxClust THEN [Ok(m) EXCEPT !.free = n, !.val = n, !.fsi = (m.type = "FAT32")]
    ELSE Then(IF c % Cells = 0 THEN MoveWindow(m, FatBase + c \div Cells) ELSE Ok(m), LAMBDA w :
           CountFree(w, c + 1, n + (IF w.win[c % Cells].fat = 0 THEN 1 ELSE 0)))
GetFree(m) ==
    Then(ChkMounted(m), LAMBDA c : IF c.free <= MaxClust - 2 THEN [c EXCEPT !.val = c.free] ELSE CountFree(c, 0, 0))

(* Nothing but the two dot entries. *)
EmptyDir(m, clust) ==
    Then(DirSeek([m EXCEPT !.dj.sclust = clust], 2), LAMBDA s : With(DirRead(s), LAMBDA r :
        IF r.res = "ok" THEN Err(r, "denied")
        ELSE IF r.res = "nofile" THEN Ok([r EXCEPT !.dj = m.dj]) ELSE r))

Unlink(m, path) ==
    Then(Lookup(m, path), LAMBDA f :
        LET e == Here(f).sfn
            Gone(k) == Then(DirRemove(k), LAMBDA g : IF e.clust = 0 THEN g ELSE RemoveChain(g, e.clust))
        IN  IF f.dj.dot \/ ~f.dj.dir THEN Err(f, "name")
            ELSE IF "rdo" \in e.attr THEN Err(f, "denied")
            ELSE IF "dir" \in e.attr /\ e.clust < 2 THEN Err(f, "int")
            ELSE Then(Then(IF "dir" \in e.attr THEN EmptyDir(f, e.clust) ELSE f, Gone), Sync))

(* The table of a new directory: its dot entries, then zeroed sectors. *)
RECURSIVE PutTable(_, _, _)
PutTable(m, sect, n) ==
    IF n = 0 THEN Ok(m)
    ELSE Then(MoveWindow([m EXCEPT !.winsect = sect, !.wflag = TRUE], 0), LAMBDA w :
           PutTable([w EXCEPT !.win = ZeroSector], sect + 1, n - 1))
DotSector(dclst, pclst) ==
    Sector(LAMBDA k : IF k = 0 THEN Sfn(<<".", 0>>, {"dir"}, dclst, 0)
                      ELSE IF k = 1 THEN Sfn(<<"..", 0>>, {"dir"}, pclst, 0) ELSE Zero)

Mkdir(m, path) ==
    LET Parent(f) == IF f.type = "FAT32" /\ f.dj.sclust = 2 THEN 0 ELSE f.dj.sclust
        Table(c, w) == PutTable([w EXCEPT !.win = DotSector(c, Parent(w))], Clust2Sect(w, c), Csize)
        Entry(c, d) == SetCell(d, d.dj.index, Sfn(Here(d).sfn.name, {"dir"}, c, 0))
        Registered(c, k) == With(DirRegister(k), LAMBDA d :
                                IF Failed(d) THEN Err(RemoveChain(d, c), d.res) ELSE Sync(Entry(c, d)))
        Made(c) == Then(Then(MoveWindow(c, 0), LAMBDA w : Table(c.val, w)), LAMBDA k : Registered(c.val, k))
    IN  With(Lookup(m, path), LAMBDA f :
            IF f.res = "ok" THEN Err(f, "exist")
            ELSE IF f.res # "nofile" THEN f
            ELSE IF f.dj.dot THEN Err(f, "name")
            ELSE With(CreateChain(f, 0), LAMBDA c :
                   IF ChainError(c.val) # "ok" THEN Err(c, ChainError(c.val)) ELSE Made(c)))

(* f_chmod sets or clears AM_RDO; f_utime leaves the entry as it is here. *)
Touch(m, path, reset, set) ==
    Then(Lookup(m, path), LAMBDA f :
        LET e == Here(f).sfn
        IN  IF f.dj.dot \/ ~f.dj.dir THEN Err(f, "name")
            ELSE Sync(SetCell(f, f.dj.index, Sfn(e.name, (e.attr \ reset) \cup set, e.clust, e.size))))
Chmod(m, path, readonly) == Touch(m, path, {"rdo"}, IF readonly THEN {"rdo"} ELSE {})
Utime(m, path) == Touch(m, path, {}, {})

(* A directory that moved: its ".." follows. *)
FixDots(m, clust) ==
    LET up == IF m.type = "FAT32" /\ m.dj.sclust = 2 THEN 0 ELSE m.dj.sclust
    IN  IF Clust2Sect(m, clust) = 0 THEN Err(m, "int")
        ELSE Then(MoveWindow(m, Clust2Sect(m, clust)), LAMBDA w :
               IF IsSfn(w.win[1]) /\ w.win[1].sfn.name = <<"..", 0>>
                 THEN SetCell(w, 1, Sfn(<<"..", 0>>, {"dir"}, up, 0)) ELSE w)

(* The entry registered takes over what the old one said. *)
Renamed(m, e) == SetCell(m, m.dj.index, Sfn(Here(m).sfn.name, e.attr, e.clust, e.size))

(* Faulty variant: the old entry goes first. *)
RenameRemoveFirst(m, path, to) ==
    Then(Lookup(m, path), LAMBDA old :
    Then(DirRemove(old), LAMBDA gone :
    With(FollowPath([gone EXCEPT !.dj = NoDir], to), LAMBDA new :
        IF new.res # "nofile" THEN new
        ELSE Then(DirRegister(new), LAMBDA d : Sync(Renamed(d, Here(old).sfn))))))

Rename(m, path, to) ==
    LET Moved(old, new) ==
            LET e == Here(old).sfn
                Fixed(k) == IF "dir" \in e.attr THEN FixDots(k, e.clust) ELSE k
                Entered(d) == Fixed(Renamed(d, e))
            IN  Then(Then(DirRegister(new), Entered), LAMBDA k : DirRemove([k EXCEPT !.dj = old.dj]))
    IN  Then(Lookup(m, path), LAMBDA old :
            IF old.dj.dot THEN Err(old, "name")
            ELSE IF ~old.dj.dir THEN Err(old, "nofile")
            ELSE With(FollowPath(old, to), LAMBDA new :
                   IF new.res = "ok" THEN Err(new, "exist")
                   ELSE IF new.res # "nofile" THEN new
                   ELSE Then(Moved(old, new), Sync)))
=============================================================================
