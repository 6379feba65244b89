------------------------------ MODULE MCSdDisk ------------------------------
(* SdDisk with values for its constants: the card mini started from, and another one. *)
EXTENDS SdDisk

MCData == [card : 1 .. MaxCards, text : Texts \cup {Torn}]
=============================================================================
