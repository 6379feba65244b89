------------------------------- MODULE NandFs -------------------------------
(***************************************************************************)
(* The PowerPC's reader of the console's own file system,                  *)
(* libdiskmii/nandfs.c: the newest superblock of the chip is kept in       *)
(* memory, paths are looked up in its nodes, files are chains of clusters  *)
(* in its table.  A superblock is                                          *)
(*   [version, files : [node -> [name, kind, first, sibling, size]],       *)
(*    table : [cluster -> the next one]]                                   *)
(* with node 0 the root; Nil (0xffff) ends lists and chains.  Byte k of    *)
(* cluster c is <<c, k>>: decryption is one to one.                        *)
(***************************************************************************)
EXTENDS Integers, Sequences

CONSTANTS
    ClusterSize,   \* 8 pages of 2048 bytes
    Images,        \* the chips: sequences of superblocks or NoSuper, by cluster
    Paths,         \* what programs open: sequences of names
    Counts,        \* the numbers of bytes they read
    Offsets,       \* and the offsets they seek to
    MaxCalls       \* bound on the calls of a behaviour

Nil == -1
NoSuper == [version |-> Nil]

(* What IOS writes: links lead to nodes, and the root is a directory with  *)
(* something in it (nandfs_open takes its first entry without a test).     *)
Sound(super) == LET files == super.files nodes == DOMAIN super.files IN
    /\ super.version \in Nat
    /\ nodes \subseteq Nat /\ 0 \in nodes /\ files[0].kind = "dir" /\ files[0].first \in nodes
    /\ \A n \in nodes :
          /\ files[n].size \in Nat /\ files[n].sibling \in nodes \union {Nil}
          /\ files[n].kind = "dir" => files[n].first \in nodes \union {Nil}

ASSUME NandFsAssumption ==
    /\ ClusterSize \in Nat \ {0}
    /\ \A chips \in Images : /\ chips \in Seq({chips[i] : i \in DOMAIN chips})
                             /\ \A i \in DOMAIN chips : chips[i] = NoSuper \/ Sound(chips[i])
    /\ \A wanted \in Paths : wanted \in Seq({wanted[i] : i \in DOMAIN wanted}) /\ wanted # <<>>
    /\ Counts \subseteq Nat /\ Offsets \subseteq Int

VARIABLES
    nand,          \* the chip
    sffs,          \* the superblock in memory
    initialized,
    fp,            \* the program's file
    call,          \* the call under way
    todo,          \* what its loop has still to do: clusters, names or bytes
    cur,           \* nandfs_open: the node looked at, and
    names,         \* the path looked up
    path,          \* the path fp has (ghost; <<>>: none)
    straight,      \* no seek went to the start of a later cluster (ghost)
    answer,        \* the last read: what it was asked, and its bytes
    nfCalls        \* calls made: bounded by MaxCalls

openVars == <<cur, names, path>>
nandfsVars == <<nand, sffs, initialized, fp, call, todo, openVars, straight, answer, nfCalls>>

NoFile == [first_cluster |-> 0, cur_cluster |-> 0, size |-> 0, offset |-> 0]
NoAnswer == [at |-> 0, count |-> 0, bytes |-> <<>>]

NandFsInit ==
    /\ nand \in Images
    /\ sffs = NoSuper
    /\ initialized = FALSE
    /\ fp = NoFile
    /\ call = "none" /\ todo = 0
    /\ cur = Nil /\ names = <<>> /\ path = <<>>
    /\ straight = TRUE
    /\ answer = NoAnswer
    /\ nfCalls = 0

CallStarts(name, n) ==
    /\ call = "none" /\ nfCalls < MaxCalls
    /\ call' = name /\ todo' = n
    /\ nfCalls' = nfCalls + 1

CallReturns == call' = "none" /\ UNCHANGED <<nand, todo, nfCalls>>
CallGoes == UNCHANGED <<nand, call, nfCalls>>

-----------------------------------------------------------------------------
(* Of the superblocks on the chip a later one is taken only if it is newer. *)
(* Faulty variant: the last one is taken. *)
Choice_last(best, super) == IF super = NoSuper THEN best ELSE super
Choice(best, super) ==
    IF super # NoSuper /\ (best = NoSuper \/ super.version > best.version) THEN super ELSE best

(* The candidates are read over the superblock in memory, here into the    *)
(* best of them: no other call looks at it before the choice is made.      *)
nandfs_initialize ==
    /\ CallStarts("initialize", Len(nand))
    /\ sffs' = NoSuper
    /\ answer' = NoAnswer
    /\ UNCHANGED <<nand, initialized, fp, openVars, straight>>

ReadSuper ==
    /\ call = "initialize" /\ todo > 0
    /\ sffs' = Choice(sffs, nand[Len(nand) - todo + 1])
    /\ todo' = todo - 1
    /\ CallGoes /\ UNCHANGED <<initialized, fp, openVars, straight, answer>>

(* When there is none the flag stays as it was. *)
SupersRead ==
    /\ call = "initialize" /\ todo = 0
    /\ initialized' = (initialized \/ sffs # NoSuper)
    /\ CallReturns /\ UNCHANGED <<sffs, fp, openVars, straight, answer>>

-----------------------------------------------------------------------------
(* The path is looked up name by name, each in a list of siblings. *)
nandfs_open(wanted) ==
    /\ initialized /\ CallStarts("open", Len(wanted))
    /\ fp' = NoFile /\ path' = <<>> /\ names' = wanted
    /\ cur' = sffs.files[0].first
    /\ straight' = TRUE
    /\ answer' = NoAnswer
    /\ UNCHANGED <<nand, sffs, initialized>>

Looking == call = "open" /\ cur # Nil
Named == sffs.files[cur].name = names[Len(names) - todo + 1]

(* A name is that of a directory with something in it, the last a file's. *)
Enters == Named /\ todo > 1 /\ sffs.files[cur].kind = "dir" /\ sffs.files[cur].first # Nil
IsFile == Named /\ todo = 1 /\ sffs.files[cur].kind = "file"

EnterDir ==
    /\ Looking /\ Enters
    /\ cur' = sffs.files[cur].first /\ todo' = todo - 1
    /\ CallGoes /\ UNCHANGED <<sffs, initialized, fp, names, path, straight, answer>>

Opened(node) ==
    [first_cluster |-> node.first, cur_cluster |-> node.first, size |-> node.size, offset |-> 0]
OpenFile ==
    /\ Looking /\ IsFile
    /\ fp' = Opened(sffs.files[cur]) /\ path' = names
    /\ CallReturns /\ UNCHANGED <<sffs, initialized, cur, names, straight, answer>>

NextSibling ==
    /\ Looking /\ ~Enters /\ ~IsFile
    /\ cur' = sffs.files[cur].sibling
    /\ CallGoes /\ UNCHANGED <<sffs, initialized, fp, todo, names, path, straight, answer>>

NotFound ==
    /\ call = "open" /\ cur = Nil
    /\ CallReturns /\ UNCHANGED <<sffs, initialized, fp, openVars, straight, answer>>

-----------------------------------------------------------------------------
Clipped(count) == IF fp.offset + count > fp.size THEN fp.size - fp.offset ELSE count
nandfs_read(count) ==
    /\ initialized /\ CallStarts("read", Clipped(count))
    /\ answer' = [at |-> fp.offset, count |-> count, bytes |-> <<>>]
    /\ UNCHANGED <<nand, sffs, initialized, fp, openVars, straight>>

(* A cluster is left when its last byte is read. *)
(* Faulty variant: it is left when a byte of the next one is needed. *)
After_late(cluster, end) == IF end > ClusterSize THEN sffs.table[cluster] ELSE cluster
After(cluster, end) == IF end >= ClusterSize THEN sffs.table[cluster] ELSE cluster
(* nand_read_decrypted_cluster: a byte of a cluster. *)
Byte(cluster, k) == <<cluster, k>>
ReadCluster ==
    /\ call = "read" /\ todo > 0
    /\ LET from == fp.offset % ClusterSize
           len == IF ClusterSize - from > todo THEN todo ELSE ClusterSize - from
       IN  /\ answer' = [answer EXCEPT
                             !.bytes = @ \o [k \in 1 .. len |-> Byte(fp.cur_cluster, from + k - 1)]]
           /\ fp' = [fp EXCEPT !.offset = @ + len, !.cur_cluster = After(@, from + len)]
           /\ todo' = todo - len
    /\ CallGoes /\ UNCHANGED <<sffs, initialized, openVars, straight>>

AllRead ==
    /\ call = "read" /\ todo = 0
    /\ CallReturns /\ UNCHANGED <<sffs, initialized, fp, openVars, straight, answer>>

-----------------------------------------------------------------------------
From(whence) == CASE whence = "SET" -> 0 [] whence = "CUR" -> fp.offset [] OTHER -> fp.size
nandfs_seek(offset, whence) ==
    /\ initialized
    /\ LET to == From(whence) + offset IN
       IF to < 0 \/ to > fp.size THEN CallStarts("none", 0) /\ UNCHANGED <<fp, straight>>
       ELSE /\ CallStarts("seek", to)
            /\ fp' = [fp EXCEPT !.offset = to, !.cur_cluster = fp.first_cluster]
            /\ straight' = (to = 0 \/ to % ClusterSize # 0)
    /\ answer' = NoAnswer
    /\ UNCHANGED <<nand, sffs, initialized, openVars>>

(* The position seeks to the one before a boundary, not past it. *)
SkipCluster ==
    /\ call = "seek" /\ todo > ClusterSize
    /\ fp' = [fp EXCEPT !.cur_cluster = sffs.table[@]]
    /\ todo' = todo - ClusterSize
    /\ CallGoes /\ UNCHANGED <<sffs, initialized, openVars, straight, answer>>

Skipped ==
    /\ call = "seek" /\ todo <= ClusterSize
    /\ CallReturns /\ UNCHANGED <<sffs, initialized, fp, openVars, straight, answer>>

NandFsNext ==
    \/ nandfs_initialize \/ ReadSuper \/ SupersRead
    \/ (\E wanted \in Paths : nandfs_open(wanted)) \/ EnterDir \/ OpenFile \/ NextSibling \/ NotFound
    \/ (\E count \in Counts : nandfs_read(count)) \/ ReadCluster \/ AllRead
    \/ (\E offset \in Offsets, whence \in {"SET", "CUR", "END"} : nandfs_seek(offset, whence))
    \/ SkipCluster \/ Skipped

NandFsSpec == NandFsInit /\ [][NandFsNext]_nandfsVars

-----------------------------------------------------------------------------
(* What a chip holds, without searches: the first of its newest            *)
(* superblocks, the files a path leads to, the byte at an offset.          *)

IsNewest(i) ==
    /\ nand[i] # NoSuper
    /\ \A j \in DOMAIN nand :
          nand[j].version <= nand[i].version /\ (j < i => nand[j].version < nand[i].version)
Newest == nand[CHOOSE i \in DOMAIN nand : IsNewest(i)]

(* A list has the nodes that are in every set with its head and what       *)
(* follows them.                                                           *)
Nodes == DOMAIN Newest.files
Closed(set) == \A n \in set \ {Nil} : Newest.files[n].sibling \in set
Siblings(head) ==
    {n \in Nodes : \A set \in SUBSET (Nodes \union {Nil}) : head \in set /\ Closed(set) => n \in set}
Entries(dir) == IF Newest.files[dir].kind = "dir" THEN Siblings(Newest.files[dir].first) ELSE {}

(* A path leads to a node if there is one for each of its names, each in   *)
(* the directory before it.                                                *)
Leads(nodes, to) == \A i \in DOMAIN to :
    /\ Newest.files[nodes[i]].name = to[i]
    /\ nodes[i] \in Entries(IF i = 1 THEN 0 ELSE nodes[i - 1])
Files(to) ==
    {nodes[Len(to)] : nodes \in {nodes \in [DOMAIN to -> Nodes] :
        Newest.files[nodes[Len(to)]].kind = "file" /\ Leads(nodes, to)}}

(* No directory has two entries of the same name. *)
Unambiguous == \A dir \in Nodes : \A m, n \in Entries(dir) :
    Newest.files[m].name = Newest.files[n].name => m = n

Chain(cluster) ==
    LET at[n \in Nat] == IF n = 0 THEN cluster ELSE Newest.table[at[n - 1]] IN at
ClusterAt(node, offset) == Chain(Newest.files[node].first)[offset \div ClusterSize]
ByteAt(node, offset) == Byte(ClusterAt(node, offset), offset % ClusterSize)

(* A file is opened if and only if the newest superblock has it (if the    *)
(* names are unambiguous), and what a read answers after any opens, reads  *)
(* and seeks are that file's bytes from the offset on, up to its end -     *)
(* unless a seek went exactly to the start of a later cluster:             *)
(* nandfs_seek then stays in the cluster before (nandfs.c:253).            *)
ReadsItsFile == initialized =>
    IF path = <<>>
    THEN /\ answer.bytes = <<>>
         /\ call # "open" /\ names # <<>> /\ Unambiguous => Files(names) = {}
    ELSE \E node \in Files(path) :
          LET rest == Newest.files[node].size - answer.at IN
          /\ fp.size = Newest.files[node].size
          /\ call # "read" => Len(answer.bytes) = IF answer.count < rest THEN answer.count ELSE rest
          /\ straight =>
                /\ \A k \in DOMAIN answer.bytes : answer.bytes[k] = ByteAt(node, answer.at + k - 1)
                /\ call # "seek" /\ fp.offset < fp.size => fp.cur_cluster = ClusterAt(node, fp.offset)

=============================================================================
