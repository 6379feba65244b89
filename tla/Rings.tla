------------------------------- MODULE Rings -------------------------------
(***************************************************************************)
(* Index arithmetic of the message rings shared by the two processors.     *)
(*                                                                         *)
(* Every queue of mini (in_queue, out_queue, slow_queue) is an array of n  *)
(* slots with a head and a tail index; n is a power of two, so the code's  *)
(* (i + 1) & (n - 1) is (i + 1) % n.  One slot always stays empty: equal   *)
(* indices mean an empty ring.                                             *)
(***************************************************************************)
EXTENDS Integers, Sequences

(* Faulty variant: no look at the head. *)
NeverFull(head, tail, n) == FALSE

(* The index after i in a ring of n slots. *)
Succ(i, n) == (i + 1) % n

(* The producer may not write: the next tail would meet the head. *)
IsFull(head, tail, n) == head = Succ(tail, n)

(***************************************************************************)
(* What the ring holds, for specifications: the number of occupied slots,  *)
(* the index of the k-th slot after head (k < n), and the messages from    *)
(* head up to, and not including, tail.                                    *)
(***************************************************************************)
Used(head, tail, n) == IF head <= tail THEN tail - head ELSE tail + n - head

Index(head, k, n) == IF head + k < n THEN head + k ELSE head + k - n

Contents(slots, head, tail, n) ==
    [k \in 1 .. Used(head, tail, n) |-> slots[Index(head, k - 1, n)]]
=============================================================================
