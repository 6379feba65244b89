--------------------------- MODULE LibraryInputs ---------------------------
(***************************************************************************)
(* What the programs of MCLibraries ask of each library, and the chips     *)
(* they run on: the values of its constants.                               *)
(***************************************************************************)
EXTENDS Integers, Sequences, TLC

CONSTANTS LastBlock, BlockPages   \* as in Boot2

-----------------------------------------------------------------------------
(* Heap.  Programs with small blocks; with large ones, freed out of order  *)
(* to grow the trees; with blocks that grow and shrink; with every other   *)
(* call.                                                                   *)

AskMalloc(n) == [op |-> "malloc", bytes |-> n]
AskRealloc(n) == [op |-> "realloc", bytes |-> n]
AskAligned(al, n) == [op |-> "memalign", align |-> al, bytes |-> n]
AskCleared(n, e) == [op |-> "calloc", n |-> n, each |-> e]
AskApart(sizes, array) == [op |-> "independent", sizes |-> sizes, array |-> array]
MCCallers == {
    [steps |-> 6, calls |-> {AskMalloc(1), AskMalloc(20), AskMalloc(60)}],
    [steps |-> 7, calls |-> {AskApart(<<60, 8, 84, 8, 68, 8, 60>>, TRUE), AskMalloc(20), AskMalloc(64)}],
    [steps |-> 5, calls |-> {AskMalloc(1), AskMalloc(60), AskRealloc(1), AskRealloc(40), AskRealloc(90)}],
    [steps |-> 4, calls |-> {AskAligned(9, 8), AskAligned(64, 40), AskMalloc(20), AskRealloc(65535),
                             AskCleared(256, 257), AskCleared(3, 5), AskApart(<<>>, FALSE), AskApart(<<9, 30>>, FALSE),
                             [op |-> "trim", pad |-> 0],
                             [op |-> "mallopt", param |-> "M_TRIM_THRESHOLD", value |-> 0],
                             [op |-> "mallopt", param |-> "M_GRANULARITY", value |-> 64]}] }

-----------------------------------------------------------------------------
(* NandFs.  Chips without a superblock, and with the newest one anywhere. *)

Nil == -1
NoSuper == [version |-> Nil]
Node(name, kind, first, sibling, size) ==
    [name |-> name, kind |-> kind, first |-> first, sibling |-> sibling, size |-> size]
(* /tmp is empty, /sys/a has two clusters and a half, /sys/b is empty, /a has two. *)
Super(version, a, b, c) ==
    [version |-> version,
     files |-> (0 :> Node("/", "dir", 1, Nil, 0)) @@ (1 :> Node("tmp", "dir", Nil, 2, 0))
               @@ (2 :> Node("sys", "dir", 3, 5, 0)) @@ (3 :> Node("b", "file", 0, 4, 0))
               @@ (4 :> Node("a", "file", a, Nil, 5)) @@ (5 :> Node("a", "file", 4, Nil, 4)),
     table |-> (a :> b) @@ (b :> c) @@ (c :> Nil) @@ (4 :> 5) @@ (5 :> Nil)]
MCImages == {<<NoSuper>>, <<NoSuper, Super(7, 1, 2, 3), Super(3, 3, 2, 1)>>, <<Super(7, 1, 2, 3), Super(8, 2, 1, 3), NoSuper>>}
MCPaths == {<<"a">>, <<"sys", "a">>, <<"sys", "b">>, <<"tmp", "a">>, <<"sys">>}
MCOffsets == {-3, -1, 0, 1, 2, 5}

-----------------------------------------------------------------------------
(* Boot2.  Chips whose maps disagree, whose newest map is anywhere, whose  *)
(* pages are bad, whose copies start later or not at all.                  *)

Blocks == 1 .. LastBlock
NoMap == [generation |-> -1]
Map(generation, used) == [generation |-> generation, blocks |-> [b \in Blocks |-> b \in used]]
(* A page of a copy: every one can be the first or hold the tmd. *)
Page(block, n, header, data, content, menus, bad) ==
    [good |-> <<block, n>> \notin bad, header |-> header, data |-> data, content |-> content,
     menus |-> menus, at |-> <<block, n>>]
Pages(header, data, content, menus, bad) ==
    [p \in BlockPages .. (LastBlock + 1) * BlockPages - 1 |->
        Page(p \div BlockPages, p % BlockPages, header, data, content, menus, bad)]
All(map) == <<map, map, map>>
MapSets ==
    LET old == Map(1, {1, 2, 3}) new == Map(2, {1, 3}) IN
    {[b \in Blocks |-> All(IF b = newer THEN new ELSE old)] : newer \in Blocks}
    \union {[b \in Blocks |-> IF b = 1 THEN <<new, old, new>> ELSE IF b = 2 THEN <<NoMap, old, old>> ELSE <<new, NoMap, old>>],
            [b \in Blocks |-> <<new, old, NoMap>>], [b \in Blocks |-> All(Map(0, {2}))]}
Bads == {{}, {<<1, 0>>}, {<<1, 1>>}, {<<3, 1>>}, {<<1, 1>>, <<3, 0>>}, {<<2, 0>>}}
MCChips ==
    {[maps |-> maps, pages |-> Pages(TRUE, data, content, menus, bad)] :
        maps \in MapSets, data \in {1, 2}, content \in {0, 1, 3}, menus \in 0 .. 2, bad \in Bads}
    \union {[maps |-> [b \in Blocks |-> All(Map(1, {1, 2, 3}))],
             pages |-> [p \in DOMAIN pages |-> IF p \div BlockPages \in bad THEN [pages[p] EXCEPT !.header = FALSE] ELSE pages[p]]] :
                pages \in {Pages(TRUE, 1, 2, 1, {})}, bad \in {{1}, {1, 3}}}
    \union {[maps |-> [b \in Blocks |-> All(NoMap)], pages |-> Pages(TRUE, 1, 1, 1, {})]}

-----------------------------------------------------------------------------
(* Printf.  *)
NoText == <<"NULL">>
(* Directives, each followed by "a%d" for what it may leave behind. *)
Dir(fl, w, p, mod, conv, value) ==
    [format |-> <<"%">> \o fl \o w[1] \o p[1] \o mod \o <<conv, "a", "%", "d">>,
     args |-> w[2] \o p[2] \o value \o <<5>>]
Flagged == {<<>>, <<"-">>, <<"0">>, <<"+">>, <<" ", "#">>, <<"'", "0">>, <<"#", "-">>, <<"'">>, <<"-", "+", "0">>}
Widths == {<<<<>>, <<>>>>, <<<<"6">>, <<>>>>, <<<<"*">>, <<-6>>>>, <<<<"1">>, <<>>>>}
Precisions == {<<<<>>, <<>>>>, <<<<".", "5">>, <<>>>>, <<<<".">>, <<>>>>, <<<<".", "*">>, <<-1>>>>, <<<<".", "*">>, <<3>>>>}
Plain == <<<<>>, <<>>>>
Dirs ==
    {Dir(fl, w, p, <<>>, "d", <<n>>) : fl \in Flagged, w \in Widths, p \in Precisions, n \in {-1024, 0, 1000}}
    \union {Dir(fl, w, p, <<>>, c, <<n>>) : fl \in Flagged, w \in Widths, p \in Precisions, c \in {"X", "o"}, n \in {0, 1023}}
    \union {Dir(fl, w, p, <<>>, "s", <<t>>) : fl \in {<<>>, <<"-">>}, w \in Widths, p \in Precisions, t \in {<<>>, NoText, <<"b", "c", "d", "e">>}}
    \union {Dir(fl, w, Plain, <<>>, "p", <<n>>) : fl \in {<<>>, <<"-">>}, w \in Widths, n \in {0, 31}}
    \union {Dir(<<>>, Plain, Plain, mod, c, <<n>>) : mod \in {<<"h">>, <<"h", "h">>, <<"l">>, <<"l", "l">>, <<"j">>, <<"t">>, <<"z">>},
                                                     c \in {"d", "i", "u", "x"}, n \in {-41, 41}}
    \union {[format |-> <<"z", "%", "4", "1", "9", "d", "%", "h", "h", "n", "%", "n", "%", "h", "n">>, args |-> <<7, 0, 0, 0>>],
            [format |-> <<"%", "3", "c", "%", "%", "%", "l", "k", ".">>, args |-> <<"y">>],
            [format |-> <<"a", "%", "9", "9", "9", "9", "d">>, args |-> <<1>>],
            [format |-> <<"a", "%", ".", "1", "0", "2", "4", "d">>, args |-> <<1>>],
            [format |-> <<"%", "2", "*", ".", "2", "*", "d">>, args |-> <<9, 7, 1>>]}
    \union {[format |-> <<"a", "%">> \o t, args |-> <<>>] : t \in {<<>>, <<"-">>, <<"3">>, <<".">>, <<".", "3">>, <<"l">>, <<"h", "h">>}}
MCRequests == {d @@ [size |-> n] : d \in Dirs, n \in {0, 4, 9, 600}}

-----------------------------------------------------------------------------
(* Aes.  Decryptions in place and elsewhere, in one command and in several, *)
(* by either processor, chained to the one before or not.                  *)
Job(by, src, dst, blocks, keep) == [by |-> by, src |-> src, dst |-> dst, blocks |-> blocks, keep |-> keep]
MCJobs ==
    {<<Job("ppc", 0, 4, 3, FALSE), Job("ppc", 0, 0, 2, TRUE)>>, <<Job("ppc", 2, 2, 4, FALSE)>>,
     <<Job("arm", 4, 4, 1, FALSE), Job("arm", 0, 2, 2, FALSE)>>, <<Job("arm", 0, 4, 4, FALSE)>>,
     <<Job("ppc", 1, 3, 1, FALSE), Job("arm", 1, 1, 3, TRUE)>>, <<Job("arm", 0, 1, 1, FALSE), Job("ppc", 0, 1, 1, FALSE)>>,
     <<Job("arm", 0, 0, 2, FALSE), Job("ppc", 0, 4, 2, TRUE)>>}
=============================================================================
