-------------------------------- MODULE Fat --------------------------------
(***************************************************************************)
(* The file system of the PowerPC programs: libdiskmii/ff.c (FatFs R0.07e  *)
(* with long names, relative paths and a sector buffer in every file).     *)
(*                                                                         *)
(* A function of ff.c is an operator on a record m: the disk, the FATFS    *)
(* (win .. mounted), the DIR and the FIL the call works on, its result     *)
(* res, a value val, the units out it has read, and log, the writes that   *)
(* reached the disk in the order they did.  left counts the transfers      *)
(* until one fails.                                                        *)
(***************************************************************************)
EXTENDS FatDisk

Never == 1000
NoOrd == 255
NoIdx == 65535
None == "none"

NoDir == [sclust |-> 0, index |-> 0, clust |-> 0, sect |-> 0, dir |-> FALSE,
          fn |-> <<None, 0>>, loss |-> FALSE, dot |-> FALSE, lfn |-> None, lfnIdx |-> NoIdx]
NoFile == [open |-> FALSE, flag |-> {}, fptr |-> 0, fsize |-> 0, org |-> 0, curr |-> 0,
           dsect |-> 0, csect |-> 255, buf |-> ZeroSector, dirSect |-> 0, dirAt |-> 0, id |-> 0]
Unmounted == [mounted |-> FALSE, win |-> ZeroSector, winsect |-> 0, wflag |-> FALSE,
              last |-> 0, free |-> Max32, fsi |-> FALSE, cdir |-> 0, id |-> 0]

Min2(a, b) == IF a < b THEN a ELSE b

-----------------------------------------------------------------------------
(* The disk. *)

Transfer(m) == IF m.left = 0 THEN [Err(m, "disk") EXCEPT !.left = Never] ELSE [Ok(m) EXCEPT !.left = @ - 1]

DiskRead(m) == Transfer(m)

DiskWrite(m, s, cells) ==
    Then(Transfer(m), LAMBDA t : [t EXCEPT !.disk[s] = cells, !.log = Append(@, <<s, cells>>)])

(* A dirty window is written to its place, and in every copy of the FAT. *)
WriteBack(m) ==
    Then(DiskWrite(m, m.winsect, m.win), LAMBDA w :
        IF NFats = 2 /\ m.winsect < FatBase + SectsFat
          THEN Ok([DiskWrite(w, m.winsect + SectsFat, m.win) EXCEPT !.wflag = FALSE])
          ELSE [w EXCEPT !.wflag = FALSE])

MoveWindow(m, s) ==
    IF s = m.winsect THEN Ok(m)
    ELSE Then(IF m.wflag THEN WriteBack(m) ELSE Ok(m), LAMBDA w :
           IF s = 0 THEN w
           ELSE Then(DiskRead(w), LAMBDA r : [r EXCEPT !.win = r.disk[s], !.winsect = s]))

FsInfo(m) == Sector(LAMBDA k : Link(IF k = 0 THEN m.free ELSE m.last))
Sync(m) ==
    Then(MoveWindow(m, 0), LAMBDA w :
        IF m.type = "FAT16" \/ ~m.fsi THEN w
        ELSE Ok([DiskWrite([w EXCEPT !.win = FsInfo(m), !.winsect = 0], FsInfoSect, FsInfo(m)) EXCEPT !.fsi = FALSE]))

SetCell(m, at, cell) == [m EXCEPT !.win[at % Cells] = cell, !.wflag = TRUE]

-----------------------------------------------------------------------------
(* The FAT. *)

GetFat(m, c) ==
    IF c \notin 2 .. MaxClust - 1 THEN [m EXCEPT !.val = 1]
    ELSE With(MoveWindow(m, FatBase + c \div Cells), LAMBDA w :
           [Ok(w) EXCEPT !.val = IF Failed(w) THEN Max32 ELSE w.win[c % Cells].fat])

PutFat(m, c, link) ==
    IF c \notin 2 .. MaxClust - 1 THEN Err(m, "int")
    ELSE With(MoveWindow(m, FatBase + c \div Cells), LAMBDA w :
           IF Failed(w) THEN [w EXCEPT !.wflag = TRUE] ELSE SetCell(w, c, Link(link)))

Freed(m, n) == IF m.free = Max32 THEN m ELSE [m EXCEPT !.free = @ + n, !.fsi = TRUE]

RECURSIVE RemoveLinks(_, _)
RemoveLinks(m, c) ==
    IF c >= MaxClust THEN Ok(m)
    ELSE With(GetFat(m, c), LAMBDA g :
           IF g.val = 0 THEN Ok(g)
           ELSE IF g.val = 1 THEN Err(g, "int")
           ELSE IF g.val = Max32 THEN Err(g, "disk")
           ELSE Then(PutFat(g, c, 0), LAMBDA p : RemoveLinks(Freed(p, 1), g.val)))
RemoveChain(m, c) == IF c \notin 2 .. MaxClust - 1 THEN Err(m, "int") ELSE RemoveLinks(m, c)

(* The next free cluster after scl; val is 0 when there is none. *)
RECURSIVE Search(_, _, _)
Search(m, ncl, scl) ==
    LET next == IF ncl + 1 >= MaxClust THEN 2 ELSE ncl + 1
    IN  IF next = 2 /\ next > scl /\ ncl + 1 >= MaxClust THEN [m EXCEPT !.val = 0]
        ELSE With(GetFat(m, next), LAMBDA g :
               IF g.val = 0 THEN [g EXCEPT !.val = next]
               ELSE IF g.val \in {1, Max32} THEN g
               ELSE IF next = scl THEN [g EXCEPT !.val = 0]
               ELSE Search(g, next, scl))

(* The cluster found becomes the end of the chain of clst (0: a new one). *)
Extend(m, clst, ncl) ==
    LET Lost(p) == [Ok(p) EXCEPT !.val = Max32]
        Taken(q) == [(IF q.free = Max32 THEN q ELSE [q EXCEPT !.free = @ - 1, !.fsi = TRUE])
                      EXCEPT !.last = ncl, !.val = ncl]
        Linked(p) == IF clst = 0 THEN p ELSE PutFat(p, clst, ncl)
    IN  With(Then(PutFat(m, ncl, Eoc), Linked), LAMBDA q : IF Failed(q) THEN Lost(q) ELSE Taken(q))

CreateChain(m, clst) ==
    LET scl == IF clst # 0 THEN clst ELSE IF m.last \in 1 .. MaxClust - 1 THEN m.last ELSE 1
        Grow(found) == IF found.val \in {0, 1, Max32} THEN found ELSE Extend(found, clst, found.val)
    IN  With(IF clst = 0 THEN m ELSE GetFat(m, clst), LAMBDA g :
            IF clst # 0 /\ g.val < 2 THEN [g EXCEPT !.val = 1]
            ELSE IF clst # 0 /\ g.val < MaxClust THEN g
            ELSE With(Search(g, scl, scl), Grow))

ChainError(val) == CASE val = 0 -> "denied" [] val = 1 -> "int" [] val = Max32 -> "disk" [] OTHER -> "ok"

Clust2Sect(m, c) == IF c \in 2 .. MaxClust - 1 THEN DataBase(m.type) + (c - 2) * Csize ELSE 0

-----------------------------------------------------------------------------
(* Directories. *)

PerClust == Cells * Csize

RECURSIVE FollowTable(_, _, _)
FollowTable(m, c, idx) ==
    IF idx < PerClust
      THEN Ok([m EXCEPT !.dj.clust = c, !.dj.sect = Clust2Sect(m, c) + idx \div Cells, !.dj.dir = TRUE])
    ELSE With(GetFat(m, c), LAMBDA g :
           IF g.val = Max32 THEN Err(g, "disk")
           ELSE IF g.val \notin 2 .. MaxClust - 1 THEN Err(g, "int")
           ELSE FollowTable(g, g.val, idx - PerClust))

DirSeek(m, idx) ==
    LET n == [m EXCEPT !.dj.index = idx]
        c == IF m.dj.sclust = 0 /\ m.type = "FAT32" THEN 2 ELSE m.dj.sclust
    IN  IF c = 1 \/ c >= MaxClust THEN Err(n, "int")
        ELSE IF c # 0 THEN FollowTable(n, c, idx)
        ELSE IF idx >= RootEntries THEN Err([n EXCEPT !.dj.clust = 0], "int")
        ELSE Ok([n EXCEPT !.dj.clust = 0, !.dj.sect = RootBase + idx \div Cells, !.dj.dir = TRUE])

(* The new cluster of a table is cleared, sector by sector. *)
RECURSIVE Clear(_, _)
Clear(m, n) ==
    IF n = 0 THEN [Ok(m) EXCEPT !.winsect = @ - Csize]
    ELSE Then(MoveWindow([m EXCEPT !.wflag = TRUE], 0), LAMBDA w : Clear([w EXCEPT !.winsect = @ + 1], n - 1))

Stretch(m) ==
    With(CreateChain(m, m.dj.clust), LAMBDA c :
        IF ChainError(c.val) # "ok" THEN Err(c, ChainError(c.val))
        ELSE Then(MoveWindow(c, 0), LAMBDA w :
               Clear([w EXCEPT !.win = ZeroSector, !.winsect = Clust2Sect(w, c.val)], Csize)))

DirNext(m, stretch) ==
    LET i == m.dj.index + 1
        n == [m EXCEPT !.dj.sect = @ + 1]
        Done(k) == Ok([k EXCEPT !.dj.index = i, !.dj.dir = TRUE])
        To(k) == Done([k EXCEPT !.dj.clust = k.val, !.dj.sect = Clust2Sect(k, k.val)])
    IN  IF m.dj.sect = 0 THEN Err(m, "nofile")
        ELSE IF i % Cells # 0 THEN Done(m)
        ELSE IF m.dj.clust = 0 THEN IF i >= RootEntries THEN Err(n, "nofile") ELSE Done(n)
        ELSE IF (i \div Cells) % Csize # 0 THEN Done(n)
        ELSE With(GetFat(n, m.dj.clust), LAMBDA g :
               IF g.val <= 1 THEN Err(g, "int")
               ELSE IF g.val = Max32 THEN Err(g, "disk")
               ELSE IF g.val < MaxClust THEN To(g)
               ELSE IF ~stretch THEN Err(g, "nofile")
               ELSE Then(Stretch(g), To))

Here(m) == m.win[m.dj.index % Cells]
StartsLong(cell) == cell.lfn.ord = LongParts

(* dir_find from the current entry on; ord and sum describe the parts of a *)
(* long name that matched so far.                                          *)
RECURSIVE Find(_, _, _)
Find(m, ord, sum) ==
    Then(MoveWindow(m, m.dj.sect), LAMBDA w :
        LET e == Here(w)
            starts == IsLfn(e) /\ w.dj.lfn # None /\ StartsLong(e)
            sum1 == IF starts THEN e.lfn.sum ELSE sum
            ord1 == IF starts THEN LongParts ELSE ord
            ord2 == IF ~IsLfn(e) THEN NoOrd
                    ELSE IF w.dj.lfn = None THEN ord
                    ELSE IF e.lfn.ord = ord1 /\ e.lfn.sum = sum1 /\ e.lfn.long = w.dj.lfn THEN ord1 - 1 ELSE NoOrd
            byLong == IsSfn(e) /\ ord = 0 /\ sum = e.sfn.name
            byShort == IsSfn(e) /\ ~w.dj.loss /\ e.sfn.name = w.dj.fn
            seen == IF starts THEN [w EXCEPT !.dj.lfnIdx = w.dj.index]
                    ELSE IF IsSfn(e) /\ ~byLong THEN [w EXCEPT !.dj.lfnIdx = NoIdx] ELSE w
        IN  IF e = Zero THEN Err(w, "nofile")
            ELSE IF byLong \/ byShort THEN Ok(seen)
            ELSE Then(DirNext(seen, FALSE), LAMBDA next : Find(next, ord2, sum1)))

DirFind(m) == Then(DirSeek(m, 0), LAMBDA s : Find(s, NoOrd, <<None, 0>>))

(* dir_read from the current entry on: the next file or directory. *)
RECURSIVE ReadOn(_, _, _)
ReadOn(m, ord, sum) ==
    IF m.dj.sect = 0 THEN Err(m, "nofile")
    ELSE Then(MoveWindow(m, m.dj.sect), LAMBDA w :
        LET e == Here(w)
            starts == IsLfn(e) /\ StartsLong(e)
            sum1 == IF starts THEN e.lfn.sum ELSE sum
            ord1 == IF starts THEN LongParts ELSE ord
            ord2 == IF IsLfn(e) /\ e.lfn.ord = ord1 /\ e.lfn.sum = sum1 THEN ord1 - 1 ELSE NoOrd
            seen == IF starts THEN [w EXCEPT !.dj.lfnIdx = w.dj.index, !.dj.lfn = e.lfn.long]
                    ELSE IF IsSfn(e) /\ (ord # 0 \/ sum # e.sfn.name) THEN [w EXCEPT !.dj.lfnIdx = NoIdx] ELSE w
        IN  IF e = Zero THEN Err(w, "nofile")
            ELSE IF IsSfn(e) THEN Ok(seen)
            ELSE Then(DirNext(seen, FALSE), LAMBDA next : ReadOn(next, ord2, sum1)))
DirRead(m) == With(ReadOn(m, NoOrd, <<None, 0>>), LAMBDA r : IF Failed(r) THEN [r EXCEPT !.dj.sect = 0] ELSE r)

(* A name in 8.3 format that no entry has: LONG~1, LONG~2, ... *)
MaxNumber == 99
RECURSIVE Numbered(_, _, _)
Numbered(m, short, n) ==
    IF n > MaxNumber THEN Err(m, "denied")
    ELSE Then(DirFind([m EXCEPT !.dj.fn = NumName(short, n), !.dj.loss = FALSE, !.dj.lfn = None]),
              LAMBDA f : Numbered(f, short, n + 1))

(* ne blank entries in a row; the directory grows if needed. *)
RECURSIVE Reserve(_, _, _, _)
Reserve(m, ne, n, is) ==
    Then(MoveWindow(m, m.dj.sect), LAMBDA w :
        LET blank == Here(w) \in {Zero, Deleted}
            n1 == IF blank THEN n + 1 ELSE 0
            is1 == IF blank /\ n = 0 THEN w.dj.index ELSE is
        IN  IF n1 = ne THEN [Ok(w) EXCEPT !.val = is1]
            ELSE Then(DirNext(w, TRUE), LAMBDA next : Reserve(next, ne, n1, is1)))

(* The parts of the long name, the last one first. *)
RECURSIVE PutParts(_, _)
PutParts(m, ord) ==
    LET Rest(next) == IF ord = 1 THEN next ELSE PutParts(next, ord - 1)
    IN  Then(MoveWindow(m, m.dj.sect), LAMBDA w :
            Then(DirNext(SetCell(w, w.dj.index, Lfn(w.dj.lfn, ord, w.dj.fn)), FALSE), Rest))

PutShort(m) == Then(MoveWindow(m, m.dj.sect), LAMBDA w : SetCell(w, w.dj.index, Sfn(w.dj.fn, {}, 0, 0)))

DirRegister(m) ==
    LET d == m.dj
        named == IF ~d.loss THEN Ok(m)
                 ELSE With(Numbered(m, d.fn, 1), LAMBDA num :
                        IF num.res # "nofile" THEN num ELSE Ok([num EXCEPT !.dj.loss = TRUE, !.dj.lfn = d.lfn]))
        ne == 1 + (IF d.lfn \in LongNames THEN LongParts ELSE 0)
        Parts(top) == PutParts(top, ne - 1)
    IN  IF d.dot THEN Err(m, "name")
        ELSE Then(Then(named, LAMBDA k : DirSeek(k, 0)), LAMBDA start :
             Then(Reserve(start, ne, 0, 0), LAMBDA space :
               Then(IF ne = 1 THEN space ELSE Then(DirSeek(space, space.val), Parts), PutShort)))

(* The entry and the long name's before it are marked, up to index i. *)
RECURSIVE MarkTo(_, _)
MarkTo(m, i) ==
    Then(MoveWindow(m, m.dj.sect), LAMBDA w :
        LET marked == SetCell(w, w.dj.index, Deleted)
        IN  IF w.dj.index >= i THEN marked
            ELSE With(DirNext(marked, FALSE), LAMBDA next :
                   IF next.res = "nofile" THEN Err(next, "int") ELSE Then(next, LAMBDA k : MarkTo(k, i))))
DirRemove(m) ==
    Then(DirSeek(m, IF m.dj.lfnIdx = NoIdx THEN m.dj.index ELSE m.dj.lfnIdx), LAMBDA s : MarkTo(s, m.dj.index))

-----------------------------------------------------------------------------
(* Paths: sequences of segments, from the root or, if they begin with      *)
(* ".", from the current directory.                                        *)

CreateName(m, seg) ==
    [m EXCEPT !.dj.fn = IF seg \in Dots THEN <<seg, 0>> ELSE ShortOf(seg),
              !.dj.loss = seg \in LongNames, !.dj.dot = seg \in Dots,
              !.dj.lfn = IF seg \in Dots THEN m.dj.lfn ELSE seg]

RECURSIVE Follow(_, _)
Follow(m, path) ==
    LET last == Len(path) = 1
        From(f) == IF last THEN f
                   ELSE IF ~IsDirectory(Here(f)) THEN Err(f, "nopath")
                   ELSE Follow([f EXCEPT !.dj.sclust = Here(f).sfn.clust], Tail(path))
    IN  With(DirFind(CreateName(m, Head(path))), LAMBDA f :
            IF f.res = "nofile" /\ ~last THEN Err(f, "nopath") ELSE Then(f, From))

FollowPath(m, path) ==
    LET relative == path # <<>> /\ Head(path) = "."
        start == [m EXCEPT !.dj.sclust = IF relative THEN m.cdir ELSE 0]
        rest == IF relative THEN Tail(path) ELSE path
    IN  IF rest = <<>> THEN [DirSeek(start, 0) EXCEPT !.dj.dir = FALSE]
        ELSE Follow(start, rest)

(* chk_mounted: the volume is looked up, and mounted when it is not. *)
ChkMounted(m) ==
    LET info == m.disk[FsInfoSect]
    IN  IF m.mounted THEN Ok(m)
        ELSE Then(DiskRead(m), LAMBDA r :
               LET fs == [r EXCEPT !.mounted = TRUE, !.wflag = FALSE, !.winsect = 0, !.cdir = 0,
                                   !.id = @ + 1, !.free = Max32, !.fsi = FALSE]
               IN  IF m.type = "FAT16" THEN fs ELSE [fs EXCEPT !.last = info[1].fat, !.free = info[0].fat])

(* What every call with a path begins with. *)
Lookup(m, path) == Then(ChkMounted(m), LAMBDA c : FollowPath([c EXCEPT !.dj = NoDir], path))

Validate(m) == IF ~m.fp.open \/ ~m.mounted \/ m.fp.id # m.id THEN Err(m, "object") ELSE Ok(m)

(* validate, FA__ERROR and the access mode. *)
Usable(m, mode) ==
    Then(Validate(m), LAMBDA v :
        IF "error" \in m.fp.flag THEN Err(v, "int")
        ELSE IF mode \notin m.fp.flag THEN Err(v, "denied") ELSE v)

Abort(m, res) == [Err(m, res) EXCEPT !.fp.flag = @ \cup {"error"}]
=============================================================================
