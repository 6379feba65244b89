------------------------------ MODULE FileTree ------------------------------
(***************************************************************************)
(* What the calls of libdiskmii/ff.c promise a program: a tree of files    *)
(* and directories, with no clusters, sectors, buffers or long-name        *)
(* entries.  last is the call that was made, with its result and what it   *)
(* returned; room is how much the volume still takes.                      *)
(***************************************************************************)
EXTENDS Naturals, Sequences, FiniteSets, SequencesExt

CONSTANTS
    Fds,
    NameEntries   \* the entries a long name takes
VARIABLES
    tree,   \* [path -> [dir, rdo, data]], the root left out
    fds,    \* [Fds -> [open, path, pos, writer]]
    cwd,    \* the current directory
    room,   \* [clusters |-> free ones, run |-> free entries in a row in the root]
    last    \* [op, ..., res, out]

treeVars == <<tree, fds, cwd, room, last>>

Full(path) == IF path # <<>> /\ Head(path) = "." THEN cwd \o Tail(path) ELSE path
IsDir(p) == p = <<>> \/ (p \in DOMAIN tree /\ tree[p].dir)
Children(p) == {q \in DOMAIN tree : q # <<>> /\ Front(q) = p}
Shut == [open |-> FALSE, path |-> <<>>, pos |-> 0, writer |-> FALSE]
Least(a, b) == IF a < b THEN a ELSE b

(* What follow_path finds. *)
Found(p) ==
    IF p = <<>> \/ p \in DOMAIN tree THEN "ok"
    ELSE IF IsDir(Front(p)) THEN "nofile" ELSE "nopath"

With(p, node) == [q \in DOMAIN tree \cup {p} |-> IF q = p THEN node ELSE tree[q]]
Without(p) == [q \in DOMAIN tree \ {p} |-> tree[q]]
EmptyFile == [dir |-> FALSE, rdo |-> FALSE, data |-> <<>>]

Refused(res) == last'.res = res /\ UNCHANGED <<tree, fds, cwd>>
SameTree == UNCHANGED tree
SameRest == UNCHANGED <<fds, cwd>>

(* A new entry needs a place in its directory, which may have to grow by a *)
(* cluster, and a new directory a cluster of its own.                      *)
NoSpace(p, clusters) ==
    /\ room.clusters < clusters \/ (Front(p) = <<>> /\ room.run < NameEntries)
    /\ last'.res \in {"denied", "nofile"} /\ Refused(last'.res)

-----------------------------------------------------------------------------
Opens(fd, p, writer) ==
    /\ last'.res = "ok"
    /\ fds' = [fds EXCEPT ![fd] = [open |-> TRUE, path |-> p, pos |-> 0, writer |-> writer]]
    /\ UNCHANGED cwd

Open(fd, p, mode) ==
    LET creating == mode \in {"always", "create", "new"}
        found == Found(p)
        denied == p = <<>> \/ tree[p].dir
    IN  \/ found = "nofile" /\ creating /\ Opens(fd, p, TRUE) /\ tree' = With(p, EmptyFile)
        \/ found = "nofile" /\ creating /\ NoSpace(p, 1)
        \/ found # "ok" /\ ~(found = "nofile" /\ creating) /\ Refused(found)
        \/ found = "ok" /\ mode = "new" /\ Refused("exist")
        \/ found = "ok" /\ mode # "new" /\ denied /\ Refused(IF creating THEN "denied" ELSE "nofile")
        \/ found = "ok" /\ mode # "new" /\ ~denied /\
             \/ tree[p].rdo /\ mode # "read" /\ Refused("denied")
             \/ ~(tree[p].rdo /\ mode # "read") /\ Opens(fd, p, mode # "read")
                /\ tree' = IF mode = "create" THEN With(p, EmptyFile) ELSE tree

Read(fd, n) ==
    LET f == fds[fd]
        data == tree[f.path].data
        k == Least(n, Len(data) - f.pos)
    IN  /\ last'.res = "ok" /\ last'.out = SubSeq(data, f.pos + 1, f.pos + k)
        /\ fds' = [fds EXCEPT ![fd].pos = @ + k]
        /\ SameTree /\ UNCHANGED cwd

(* Fewer units are written only when the volume is full. *)
Write(fd, units) ==
    LET f == fds[fd]
        node == tree[f.path]
        k == fds'[fd].pos - f.pos
        data == SubSeq(node.data, 1, f.pos) \o SubSeq(units, 1, k) \o SubSeq(node.data, f.pos + k + 1, Len(node.data))
    IN  /\ last'.res = "ok"
        /\ k \in 0 .. Len(units) /\ (k = Len(units) \/ room'.clusters = 0)
        /\ tree' = With(f.path, [node EXCEPT !.data = data])
        /\ fds' = [fds EXCEPT ![fd].pos = f.pos + k] /\ UNCHANGED cwd

(* A writer that seeks past the end makes the file longer. *)
Seek(fd, ofs) ==
    LET f == fds[fd]
        size == Len(tree[f.path].data)
        to == IF f.writer THEN ofs ELSE Least(ofs, size)
        pos == fds'[fd].pos
    IN  /\ last'.res = "ok"
        /\ pos <= to /\ (pos = to \/ room'.clusters = 0)
        /\ fds' = [fds EXCEPT ![fd].pos = pos] /\ UNCHANGED cwd
        /\ DOMAIN tree' = DOMAIN tree
        /\ \A p \in DOMAIN tree \ {f.path} : tree'[p] = tree[p]
        /\ IF pos <= size THEN tree'[f.path] = tree[f.path]
           ELSE /\ Len(tree'[f.path].data) = pos
                /\ SubSeq(tree'[f.path].data, 1, size) = tree[f.path].data

Truncate(fd) ==
    LET f == fds[fd]
    IN  /\ last'.res = "ok"
        /\ tree' = With(f.path, [tree[f.path] EXCEPT !.data = SubSeq(@, 1, f.pos)])
        /\ SameRest

Sync(fd) == last'.res = "ok" /\ SameTree /\ SameRest
Close(fd) == last'.res = "ok" /\ SameTree /\ fds' = [fds EXCEPT ![fd] = Shut] /\ UNCHANGED cwd

-----------------------------------------------------------------------------
Chdir(p) ==
    \/ IsDir(p) /\ last'.res = "ok" /\ cwd' = p /\ SameTree /\ UNCHANGED fds
    \/ ~IsDir(p) /\ Refused("nopath")

List(p) ==
    \/ /\ IsDir(p) /\ Refused("ok")
       /\ LET dots == IF p = <<>> THEN {} ELSE {".", ".."}
          IN  /\ Range(last'.out) = dots \cup {path[Len(path)] : path \in Children(p)}
              /\ Len(last'.out) = Cardinality(dots) + Cardinality(Children(p))
    \/ ~IsDir(p) /\ Refused("nopath")

(* The size of a file that is open for writing is the one it had when it   *)
(* was last synchronised.                                                  *)
Stat(p) ==
    \/ /\ p \in DOMAIN tree /\ Refused("ok")
       /\ (\E fd \in Fds : fds[fd].writer /\ fds[fd].path = p) \/ last'.out = Len(tree[p].data)
    \/ p = <<>> /\ Refused("name")
    \/ Found(p) # "ok" /\ Refused(Found(p))

GetFree == Refused("ok") /\ last'.out = room.clusters

Unlink(p) ==
    \/ Found(p) # "ok" /\ Refused(Found(p))
    \/ p = <<>> /\ Refused("name")
    \/ p \in DOMAIN tree /\ (tree[p].rdo \/ Children(p) # {}) /\ Refused("denied")
    \/ p \in DOMAIN tree /\ ~tree[p].rdo /\ Children(p) = {} /\ last'.res = "ok" /\ tree' = Without(p) /\ SameRest

Mkdir(p) ==
    \/ Found(p) = "ok" /\ Refused("exist")
    \/ Found(p) = "nopath" /\ Refused("nopath")
    \/ Found(p) = "nofile" /\ NoSpace(p, 2)
    \/ Found(p) = "nofile" /\ last'.res = "ok" /\ tree' = With(p, [EmptyFile EXCEPT !.dir = TRUE]) /\ SameRest

Chmod(p, readonly) ==
    \/ Found(p) # "ok" /\ Refused(Found(p))
    \/ p = <<>> /\ Refused("name")
    \/ p \in DOMAIN tree /\ last'.res = "ok" /\ tree' = With(p, [tree[p] EXCEPT !.rdo = readonly]) /\ SameRest

Moved(p, q, path) ==
    IF Len(path) >= Len(p) /\ SubSeq(path, 1, Len(p)) = p THEN q \o SubSeq(path, Len(p) + 1, Len(path)) ELSE path

Rename(p, q) ==
    \/ Found(p) # "ok" /\ Refused(Found(p))
    \/ p = <<>> /\ Refused("nofile")
    \/ p \in DOMAIN tree /\ Found(q) # "nofile" /\ Refused(IF Found(q) = "ok" THEN "exist" ELSE Found(q))
    \/ p \in DOMAIN tree /\ Found(q) = "nofile" /\ NoSpace(q, 1)
    \/ /\ p \in DOMAIN tree /\ Found(q) = "nofile" /\ last'.res = "ok"
       /\ DOMAIN tree' = {Moved(p, q, path) : path \in DOMAIN tree}
       /\ \A path \in DOMAIN tree : tree'[Moved(p, q, path)] = tree[path]
       /\ fds' = [fd \in Fds |-> IF fds[fd].open THEN [fds[fd] EXCEPT !.path = Moved(p, q, @)] ELSE fds[fd]]
       /\ cwd' = Moved(p, q, cwd)

(* f_mount: the volume is looked up again. *)
Mount == last'.res = "ok" /\ cwd' = <<>> /\ SameTree /\ UNCHANGED fds

Next ==
    LET c == last' IN
    \/ c.op = "open" /\ Open(c.fd, Full(c.path), c.mode)
    \/ c.op = "read" /\ Read(c.fd, c.n)
    \/ c.op = "write" /\ Write(c.fd, c.units)
    \/ c.op = "seek" /\ Seek(c.fd, c.n)
    \/ c.op = "truncate" /\ Truncate(c.fd)
    \/ c.op = "sync" /\ Sync(c.fd)
    \/ c.op = "close" /\ Close(c.fd)
    \/ c.op = "chdir" /\ Chdir(Full(c.path))
    \/ c.op = "list" /\ List(Full(c.path))
    \/ c.op = "stat" /\ Stat(Full(c.path))
    \/ c.op = "free" /\ GetFree
    \/ c.op = "unlink" /\ Unlink(Full(c.path))
    \/ c.op = "mkdir" /\ Mkdir(Full(c.path))
    \/ c.op = "chmod" /\ Chmod(Full(c.path), c.readonly)
    \/ c.op = "utime" /\ Refused("ok")
    \/ c.op = "rename" /\ Rename(Full(c.path), Full(c.to))
    \/ c.op = "mount" /\ Mount
    \/ c.op = "stopped"     \* the power or the card failed: the promise ends

Init == \A fd \in Fds : fds[fd] = Shut
Spec == Init /\ [][Next]_treeVars
=============================================================================
