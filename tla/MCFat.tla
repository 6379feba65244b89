------------------------------- MODULE MCFat -------------------------------
(* Programs on small volumes: one that works on names and directories, one *)
(* on the data of two files, one that takes clusters another file gave     *)
(* back, and one that rewrites one file again and again.                   *)
EXTENDS FatSystem

NamesOf(calls) ==
    [files |-> {<<"f">>, <<"long1">>, <<"d", "g">>, <<".", "g">>},
     modes |-> {"read", "write", "always", "create", "new"},
     reads |-> {3}, writes |-> {3}, offsets |-> {},
     names |-> {<<"f">>, <<"long1">>, <<"d", "g">>, <<".", "g">>}, dirs |-> {<<"d">>, <<"e">>},
     moves |-> {<< <<"f">>, <<"long1">> >>, << <<"long1">>, <<"f">> >>, << <<"d", "g">>, <<"f">> >>,
                << <<"f">>, <<"d", "h">> >>, << <<"d">>, <<"e">> >>},
     calls |-> calls]
DataOf2(calls) ==
    [files |-> {<<"f">>, <<"d", "g">>}, modes |-> {"always"},
     reads |-> {3}, writes |-> {1, 4}, offsets |-> {0, 1, 7},
     names |-> {}, dirs |-> {}, moves |-> {}, calls |-> calls]
Reuse(calls) ==
    [files |-> {<<"long1">>, <<"d", "g">>}, modes |-> {"create"},
     reads |-> {}, writes |-> {5}, offsets |-> {0},
     names |-> {<<"f">>}, dirs |-> {<<"e">>}, moves |-> {}, calls |-> calls]
Rewrite(calls) ==
    [DataOf2(calls) EXCEPT !.files = {<<"f">>}, !.writes = {4}, !.offsets = {0, 1}]
MCPrograms == {NamesOf(3), DataOf2(4), Reuse(4), Rewrite(7)}
MCBootPath == <<"f">>
MCBootParts == << <<0, 1>>, <<1, 1>>, <<2, 3>> >>
=============================================================================
