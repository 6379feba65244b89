------------------------------ MODULE FatDisk ------------------------------
(***************************************************************************)
(* A FAT volume as libdiskmii/ff.c and mini/ff.c find it on the SD card:   *)
(* where its parts are, what its sectors hold, and the tree of files that  *)
(* a reader of the whole disk sees.                                        *)
(*                                                                         *)
(* A sector has Cells cells: entries of the FAT, entries of a directory or *)
(* units of a file's data.  The boot record and its parameters are the     *)
(* constants; FAT12, whose entries may lie in two sectors, is left out.    *)
(***************************************************************************)
EXTENDS Naturals, Sequences, FiniteSets

CONSTANTS
    Cells,        \* cells of a sector (SS / 2, SS / 4, SS / 32 or SS)
    Csize,        \* BPB_SecPerClus
    MaxClust,     \* max_clust: the last cluster, plus one
    NFats,        \* BPB_NumFATs
    RootEntries,  \* BPB_RootEntCnt of a FAT16 volume
    LongNames,    \* path segments that are not in 8.3 format
    LongParts     \* the directory entries such a name takes beside the short one

ASSUME FatAssumption ==
    /\ Cells \in Nat \ {0} /\ Csize \in Nat \ {0} /\ NFats \in {1, 2}
    /\ MaxClust \in Nat /\ MaxClust > 3 /\ LongParts \in Nat \ {0}
    /\ RootEntries % Cells = 0

FatTypes == {"FAT16", "FAT32"}
Eoc == 500            \* 0x0FFFFFFF: the last cluster of a chain
Max32 == 1000         \* 0xFFFFFFFF: a disk error, an unknown number
ASSUME EocAssumption == MaxClust < Eoc

FsInfoSect == 1
FatBase == 2
SectsFat == (MaxClust + Cells - 1) \div Cells
RootBase == FatBase + NFats * SectsFat
DataBase(t) == RootBase + (IF t = "FAT16" THEN RootEntries \div Cells ELSE 0)
Sectors(t) == FsInfoSect .. DataBase(t) + (MaxClust - 2) * Csize - 1

(* Cells.  A zeroed cell ends a directory. *)
Zero == [data |-> 0]
Link(c) == [fat |-> c]
Deleted == [del |-> TRUE]
Sfn(name, attr, clust, size) == [sfn |-> [name |-> name, attr |-> attr, clust |-> clust, size |-> size]]
Lfn(long, ord, sum) == [lfn |-> [long |-> long, ord |-> ord, sum |-> sum]]
IsSfn(cell) == "sfn" \in DOMAIN cell
IsLfn(cell) == "lfn" \in DOMAIN cell
IsDirectory(cell) == "dir" \in cell.sfn.attr
Sector(f(_)) == [k \in 0 .. Cells - 1 |-> f(k)]
ZeroSector == Sector(LAMBDA k : Zero)

(* The name a segment gets in 8.3 format, and whether that loses something. *)
Dots == {".", ".."}
ShortOf(seg) == IF seg \in LongNames THEN <<"LONG", 0>> ELSE <<seg, 0>>
NumName(short, n) == <<short[1], n>>

(* A new volume: f_mkfs. *)
Format(t) ==
    [s \in Sectors(t) |->
        IF s = FsInfoSect
          THEN Sector(LAMBDA k : Link(IF k = 0 THEN MaxClust - 3 ELSE Max32))
        ELSE IF s < RootBase
          THEN LET first == ((s - FatBase) % SectsFat) * Cells
               IN  Sector(LAMBDA k : Link(IF first + k < (IF t = "FAT32" THEN 3 ELSE 2) THEN Eoc ELSE 0))
        ELSE ZeroSector]

-----------------------------------------------------------------------------
(* What a reader of the whole disk sees. *)

FatOf(disk, c) == disk[FatBase + c \div Cells][c % Cells].fat

(* The clusters of a chain, up to a link that leaves the volume or repeats. *)
RECURSIVE ChainFrom(_, _, _)
ChainFrom(disk, c, seen) ==
    IF c \notin 2 .. MaxClust - 1 \/ c \in seen THEN <<>>
    ELSE <<c>> \o ChainFrom(disk, FatOf(disk, c), seen \cup {c})
Chain(disk, c) == ChainFrom(disk, c, {})

RECURSIVE SectorsOf(_, _)
SectorsOf(t, chain) ==
    IF chain = <<>> THEN <<>>
    ELSE [i \in 1 .. Csize |-> DataBase(t) + (Head(chain) - 2) * Csize + i - 1] \o SectorsOf(t, Tail(chain))

RECURSIVE CellsOf(_, _)
CellsOf(disk, sects) ==
    IF sects = <<>> THEN <<>>
    ELSE [i \in 1 .. Cells |-> disk[Head(sects)][i - 1]] \o CellsOf(disk, Tail(sects))

(* The sectors of a directory, and its cells; cluster 0 is the root. *)
DirSectors(t, disk, c) ==
    IF c # 0 THEN SectorsOf(t, Chain(disk, c))
    ELSE IF t = "FAT16" THEN [i \in 1 .. RootEntries \div Cells |-> RootBase + i - 1]
    ELSE SectorsOf(t, Chain(disk, 2))
DirCells(t, disk, c) == CellsOf(disk, DirSectors(t, disk, c))

(* Where its short entries are, up to the first zeroed one. *)
Entries(cells) ==
    {i \in 1 .. Len(cells) : IsSfn(cells[i]) /\ \A j \in 1 .. i : cells[j] # Zero}

(* The name of an entry: the long one if its parts come before it. *)
HasLong(cells, i) ==
    /\ i > LongParts
    /\ \A k \in 1 .. LongParts :
         /\ IsLfn(cells[i - k])
         /\ cells[i - k].lfn.ord = k
         /\ cells[i - k].lfn.sum = cells[i].sfn.name
         /\ cells[i - k].lfn.long = cells[i - 1].lfn.long
NameOf(cells, i) == IF HasLong(cells, i) THEN cells[i - 1].lfn.long ELSE cells[i].sfn.name[1]

(* Every entry of the tree: its path, where it is, and its cell. *)
RECURSIVE Listing(_, _, _, _, _)
Listing(t, disk, c, path, depth) ==
    LET sects == DirSectors(t, disk, c)
        cells == CellsOf(disk, sects)
        mine == {i \in Entries(cells) : NameOf(cells, i) \notin Dots}
        Item(i) == [path |-> Append(path, NameOf(cells, i)), sfn |-> cells[i].sfn,
                    sect |-> sects[1 + (i - 1) \div Cells], at |-> (i - 1) % Cells]
    IN  {Item(i) : i \in mine}
        \cup (IF depth = 0 THEN {} ELSE UNION
              {Listing(t, disk, cells[i].sfn.clust, Append(path, NameOf(cells, i)), depth - 1) :
                i \in {j \in mine : IsDirectory(cells[j])}})

(* The data of a file whose entry gives this start cluster and size. *)
DataOf(t, disk, clust, size) ==
    LET cells == CellsOf(disk, SectorsOf(t, Chain(disk, clust)))
    IN  [i \in 1 .. size |-> IF i <= Len(cells) THEN cells[i] ELSE Deleted]

-----------------------------------------------------------------------------
(* What a call of either file system returns, and what follows the call:   *)
(* whatever it returned, or unless it failed.                              *)

Failed(m) == m.res # "ok"
Ok(m) == [m EXCEPT !.res = "ok"]
Err(m, res) == [m EXCEPT !.res = res]
With(v, F(_)) == F(v)
Then(m, F(_)) == IF Failed(m) THEN m ELSE F(m)
=============================================================================
