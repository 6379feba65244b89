-------------------------------- MODULE Sha1 --------------------------------
(***************************************************************************)
(* SHA-1 of the PowerPC (libbroadway/sha1.c): a program hashes a message   *)
(* in one call; SHA1Update gathers blocks and hands the hardware several   *)
(* at a time, SHA1Final pads with a one, zeros and the length in bits.     *)
(*                                                                         *)
(* What the hardware computes is abstracted to the sequence of blocks it   *)
(* was given: two messages have one digest if and only if that is the      *)
(* same.  The length is two words, each one cell of the last block.        *)
(***************************************************************************)
EXTENDS Integers, Sequences

CONSTANTS
    BlockCells,   \* bytes of a block (64), a power of 2
    Batch,        \* BLOCKSIZE (32): the most blocks handed over at once
    WordBits,     \* bits of a count (32)
    MaxMessage    \* bound: bytes of a message; its bits fit into the two words

VARIABLES
    message,   \* the program's
    context,   \* SHA1_CTX: [state, count, buffer]
    data,      \* SHA1Update's data, and
    used,      \* how much of it is used: i, or -1 before the call
    stage,     \* "message", "one", "zeros", "length", "done": whose data that is
    finalcount, digest

sha1Vars == <<message, context, data, used, stage, finalcount, digest>>

LengthCells == 2
WordSize == 2^WordBits
CellBits == 8

ASSUME Sha1Assumption ==
    /\ BlockCells \in Nat /\ BlockCells > LengthCells /\ Batch \in Nat \ {0}
    /\ WordSize \in Nat \ {0} /\ WordSize % (CellBits * BlockCells) = 0
    /\ MaxMessage \in Nat /\ MaxMessage * CellBits < WordSize * WordSize

(* j, and the index of the buffer that is filled next *)
Gathered(count) == (count[1] \div CellBits) % BlockCells

Cleared == [state |-> <<>>, count |-> <<0, 0>>, buffer |-> [k \in 1 .. BlockCells |-> 0]]

(* SHA1Init, and the call of SHA1Update *)
Sha1Init ==
    /\ \E n \in 0 .. MaxMessage : message = [k \in 1 .. n |-> <<"m", k>>]
    /\ context = Cleared
    /\ data = message
    /\ used = -1
    /\ stage = "message"
    /\ finalcount = <<>> /\ digest = <<>>

-----------------------------------------------------------------------------
(* SHA1Update *)

Counted(count, len) ==
    LET bits == (len * CellBits) % WordSize
        low == (count[1] + bits) % WordSize
    IN <<low, (count[2] + (IF low < bits THEN 1 ELSE 0) + (len \div (WordSize \div CellBits))) % WordSize>>

Into(buffer, j, cells) == [k \in 1 .. BlockCells |-> IF k - j \in DOMAIN cells THEN cells[k - j] ELSE buffer[k]]
(* SHA1Transforml: n blocks from the cells on *)
Transformed(state, cells, n) ==
    state \o [b \in 1 .. n |-> SubSeq(cells, (b - 1) * BlockCells + 1, b * BlockCells)]

Begin ==
    LET j == Gathered(context.count)
        fills == j + Len(data) > BlockCells - 1
        head == IF fills THEN BlockCells - j ELSE 0
        full == Into(context.buffer, j, SubSeq(data, 1, head))
    IN /\ used = -1 /\ stage # "done"
       /\ used' = head
       /\ context' =
            [state |-> IF fills THEN Transformed(context.state, full, 1) ELSE context.state,
             count |-> Counted(context.count, Len(data)),
             buffer |-> full]
       /\ UNCHANGED <<message, data, stage, finalcount, digest>>

(* Faulty variant: a block that ends the data stays in the buffer. *)
Fits_short(n) == used + n * BlockCells < Len(data)

(* Whether the data goes on for n more blocks after the first one. *)
Fits(n) == used + n * BlockCells - 1 < Len(data)
Batches == {Batch, Batch \div 2, Batch \div 4, 1}
BiggerBlocks ==
    /\ used > 0 /\ Fits(1)
    /\ \E n \in Batches :
        /\ Fits(n) /\ \A more \in Batches : more > n => ~Fits(more)
        /\ context' = [context EXCEPT !.state = Transformed(@, SubSeq(data, used + 1, Len(data)), n)]
        /\ used' = used + n * BlockCells
    /\ UNCHANGED <<message, data, stage, finalcount, digest>>

(* What is left goes to the buffer: to its start when a block was filled. *)
Kept ==
    LET j == IF used > 0 THEN 0 ELSE Gathered(context.count) - Len(data)
    IN [context EXCEPT !.buffer = Into(@, j, SubSeq(data, used + 1, Len(data)))]

(* SHA1Final: the count is kept, then padded behind; the length comes last. *)
Padded == Gathered(context.count) = BlockCells - LengthCells
NextPiece ==
    \/ /\ stage = "message"
       /\ stage' = "one" /\ data' = <<"1">>
       /\ finalcount' = <<context.count[2], context.count[1]>>
    \/ /\ stage \in {"one", "zeros"} /\ ~Padded
       /\ stage' = "zeros" /\ data' = <<"0">>
       /\ UNCHANGED finalcount
    \/ /\ stage \in {"one", "zeros"} /\ Padded
       /\ stage' = "length" /\ data' = finalcount
       /\ UNCHANGED finalcount

Update ==
    /\ used >= 0 /\ ~(used > 0 /\ Fits(1))
    /\ used' = -1
    /\ context' = Kept
    /\ NextPiece
    /\ UNCHANGED <<message, digest>>

(* The digest is out; what is left in memory is wiped. *)
SHA1Final ==
    /\ used > 0 /\ stage = "length"
    /\ digest' = context.state
    /\ context' = [Cleared EXCEPT !.state = Transformed(<<>>, Cleared.buffer, 1)]
    /\ used' = -1 /\ stage' = "done" /\ data' = <<>> /\ finalcount' = <<>>
    /\ UNCHANGED message

Sha1Next == Begin \/ BiggerBlocks \/ Update \/ SHA1Final
Sha1Spec == Sha1Init /\ [][Sha1Next]_sha1Vars

-----------------------------------------------------------------------------
(* The blocks of a message as FIPS 180 pads it: a one, the fewest zeros,   *)
(* the length in bits, high word first.                                    *)
Zeros(n) == CHOOSE z \in 0 .. BlockCells - 1 : (n + 1 + z + LengthCells) % BlockCells = 0
Message(m) ==
    LET n == Len(m)
        cells == m \o <<"1">> \o [z \in 1 .. Zeros(n) |-> "0"]
                 \o <<(n * CellBits) \div WordSize, (n * CellBits) % WordSize>>
    IN [b \in 1 .. Len(cells) \div BlockCells |-> SubSeq(cells, (b - 1) * BlockCells + 1, b * BlockCells)]

(***************************************************************************)
(* The digest is of the whole message, padded with its length: whatever    *)
(* was left in the buffer, however many blocks went to the hardware at     *)
(* once and however the count was carried.                                 *)
(***************************************************************************)
HashesMessage == stage = "done" => digest = Message(message)
=============================================================================
