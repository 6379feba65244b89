------------------------------- MODULE MCSdhc -------------------------------
(* Sdhc with values for its constants: the commands of mini/sdmmc.c. *)
EXTENDS Sdhc

Plain == [data |-> FALSE, busy |-> FALSE, boundaries |-> 0, fits |-> TRUE]

SelectCard == [Plain EXCEPT !.busy = TRUE]

(* Reads and writes, one of them across a DMA boundary. *)
Transfers == [data : {TRUE}, busy : {FALSE}, boundaries : {0, 1}, fits : {TRUE}]

TooLong == [data |-> TRUE, busy |-> FALSE, boundaries |-> 0, fits |-> FALSE]

MCCommand == {Plain, SelectCard, TooLong} \cup Transfers
=============================================================================
