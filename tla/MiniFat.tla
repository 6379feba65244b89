------------------------------ MODULE MiniFat ------------------------------
(***************************************************************************)
(* The file system of the ARM: mini/ff.c (FatFs R0.07a, read only, short   *)
(* names, one sector buffer for everything) and powerpc_boot_file          *)
(* (mini/powerpc_elf.c), which loads a program for the PowerPC with it.    *)
(*                                                                         *)
(* A function is an operator on a record a: the disk, the window, the DIR  *)
(* (sclust .. sect), the FIL (fptr .. dsect), the result, the units read.  *)
(***************************************************************************)
EXTENDS FatDisk

Fresh(t, disk) ==
    [type |-> t, disk |-> disk, win |-> ZeroSector, winsect |-> 0, res |-> "ok", val |-> 0,
     sclust |-> 0, index |-> 0, clust |-> 0, sect |-> 0, fn |-> <<"", 0>>,
     fptr |-> 0, fsize |-> 0, org |-> 0, curr |-> 0, csect |-> 255, dsect |-> 0, out |-> <<>>]

move_window(a, s) == IF s \in {0, a.winsect} THEN a ELSE [a EXCEPT !.win = a.disk[s], !.winsect = s]

get_cluster(a, c) ==
    IF c \notin 2 .. MaxClust - 1 THEN [a EXCEPT !.val = 1]
    ELSE With(move_window(a, FatBase + c \div Cells), LAMBDA w : [w EXCEPT !.val = w.win[c % Cells].fat])

clust2sect(a, c) == IF c \in 2 .. MaxClust - 1 THEN DataBase(a.type) + (c - 2) * Csize ELSE 0

(* dir_seek to the first entry, which is all that dir_find asks for. *)
dir_seek(a) ==
    IF a.sclust = 1 \/ a.sclust >= MaxClust THEN Err(a, "int")
    ELSE IF a.sclust = 0 /\ RootEntries = 0 THEN Err(a, "int")
    ELSE [Ok(a) EXCEPT !.index = 0, !.clust = a.sclust,
                       !.sect = IF a.sclust = 0 THEN RootBase ELSE clust2sect(a, a.sclust)]

dir_next(a) ==
    LET i == a.index + 1
        n == [a EXCEPT !.sect = @ + 1]
    IN  IF i % Cells # 0 THEN [a EXCEPT !.index = i]
        ELSE IF a.sclust = 0 THEN IF i >= RootEntries THEN Err(n, "nofile") ELSE [n EXCEPT !.index = i]
        ELSE IF (i \div Cells) % Csize # 0 THEN [n EXCEPT !.index = i]
        ELSE With(get_cluster(n, a.clust), LAMBDA g :
               IF g.val <= 1 THEN Err(g, "int")
               ELSE IF g.val >= MaxClust THEN Err(g, "nofile")
               ELSE [g EXCEPT !.index = i, !.clust = g.val, !.sect = clust2sect(g, g.val)])

Entry(a) == a.win[a.index % Cells]

RECURSIVE find(_)
find(a) ==
    With(move_window(a, a.sect), LAMBDA w :
        IF Entry(w) = Zero THEN Err(w, "nofile")
        ELSE IF IsSfn(Entry(w)) /\ Entry(w).sfn.name = w.fn /\ w.fn[1] \notin Dots THEN w
        ELSE Then(dir_next(w), find))
dir_find(a) == Then(dir_seek(a), find)

(* A segment that is not in 8.3 format is refused. *)
create_name(a, seg) ==
    IF seg \in LongNames \cup Dots THEN Err(a, "name") ELSE [a EXCEPT !.fn = ShortOf(seg)]

RECURSIVE follow(_, _)
follow(a, path) ==
    LET last == Len(path) = 1
        From(f) == IF last THEN f
                   ELSE IF ~IsDirectory(Entry(f)) THEN Err(f, "nopath")
                   ELSE follow([f EXCEPT !.sclust = Entry(f).sfn.clust], Tail(path))
    IN  Then(create_name(a, Head(path)), LAMBDA n : With(dir_find(n), LAMBDA f :
            IF f.res = "nofile" /\ ~last THEN Err(f, "nopath") ELSE Then(f, From)))
follow_path(a, path) == follow([a EXCEPT !.sclust = IF a.type = "FAT32" THEN 2 ELSE 0], path)

f_open(a, path) ==
    Then(follow_path(Ok(a), path), LAMBDA f :
        LET e == Entry(f).sfn
        IN  IF "dir" \in e.attr THEN Err(f, "nofile")
            ELSE [f EXCEPT !.org = e.clust, !.fsize = e.size, !.fptr = 0, !.csect = 255, !.dsect = 0, !.out = <<>>])

min(x, y) == IF x < y THEN x ELSE y

(* Whole sectors are read past the window, parts of one through it. *)
direct(a, cc) ==
    LET first == clust2sect(a, a.curr) + a.csect
        units == [i \in 1 .. cc * Cells |-> a.disk[first + (i - 1) \div Cells][(i - 1) % Cells]]
    IN  [a EXCEPT !.csect = @ + cc, !.fptr = @ + cc * Cells, !.out = @ \o units]
part(a, k) ==
    With(move_window(a, a.dsect), LAMBDA w :
        [w EXCEPT !.fptr = @ + k, !.out = @ \o [i \in 1 .. k |-> w.win[(a.fptr % Cells) + i - 1]]])

(* Faulty variant: a cluster is followed from the start of the file. *)
next_cluster_first(a) ==
    IF a.csect < Csize THEN a ELSE [a EXCEPT !.val = a.org, !.curr = a.org, !.csect = 0]

next_cluster(a) ==
    IF a.csect < Csize THEN a
    ELSE With(IF a.fptr = 0 THEN [a EXCEPT !.val = a.org] ELSE get_cluster(a, a.curr), LAMBDA g :
           IF g.val <= 1 THEN Err(g, "int") ELSE [g EXCEPT !.curr = g.val, !.csect = 0])

RECURSIVE reading(_, _)
reading(a, n) ==
    LET k == min(Cells - (a.fptr % Cells), n)
        Part(p) == reading(part(p, k), n - k)
        Direct(c, cc) == reading(direct(c, cc), n - cc * Cells)
    IN  IF n = 0 THEN a
        ELSE IF a.fptr % Cells # 0 THEN Part(a)
        ELSE Then(next_cluster(a), LAMBDA c :
               IF clust2sect(c, c.curr) = 0 THEN Err(c, "int")
               ELSE IF n >= Cells THEN Direct(c, min(n \div Cells, Csize - c.csect))
               ELSE Part([c EXCEPT !.dsect = clust2sect(c, c.curr) + c.csect, !.csect = @ + 1]))
f_read(a, n) == reading([a EXCEPT !.out = <<>>], min(n, a.fsize - a.fptr))

Bcs == Csize * Cells

RECURSIVE seek_on(_, _, _)
seek_on(a, c, ofs) ==
    LET there == [a EXCEPT !.fptr = @ + ofs, !.csect = ofs \div Cells]
    IN  IF ofs > Bcs
          THEN With(get_cluster(a, c), LAMBDA g :
                 IF g.val \notin 2 .. MaxClust - 1 THEN Err(g, "int")
                 ELSE seek_on([g EXCEPT !.curr = g.val, !.fptr = @ + Bcs], g.val, ofs - Bcs))
        ELSE IF ofs % Cells = 0 THEN there
        ELSE IF clust2sect(a, c) = 0 THEN Err(there, "int")
        ELSE [there EXCEPT !.dsect = clust2sect(a, c) + ofs \div Cells, !.csect = @ + 1]

f_lseek(a, to) ==
    LET ofs == min(to, a.fsize)
        rewound == [a EXCEPT !.fptr = 0, !.csect = 255]
        base == (a.fptr - 1) - ((a.fptr - 1) % Bcs)
    IN  IF ofs = 0 THEN rewound
        ELSE IF a.fptr > 0 /\ (ofs - 1) \div Bcs >= (a.fptr - 1) \div Bcs
          THEN seek_on([rewound EXCEPT !.fptr = base], a.curr, ofs - base)
        ELSE IF a.org = 0 THEN [rewound EXCEPT !.curr = 0]
        ELSE seek_on([rewound EXCEPT !.curr = a.org], a.org, ofs)

(* powerpc_boot_file: the header, the program headers and a segment, each a *)
(* part <<ofs, n>> of the file; out collects them.  A short read is an     *)
(* error.                                                                  *)
RECURSIVE load(_, _, _)
load(a, parts, got) ==
    IF parts = <<>> THEN [a EXCEPT !.out = got]
    ELSE Then(f_lseek(a, Head(parts)[1]), LAMBDA s : Then(f_read(s, Head(parts)[2]), LAMBDA r :
           IF Len(r.out) # Head(parts)[2] THEN Err(r, "short") ELSE load(r, Tail(parts), got \o r.out)))
powerpc_boot_file(a, path, parts) == Then(f_open(a, path), LAMBDA o : load(o, parts, <<>>))
=============================================================================
