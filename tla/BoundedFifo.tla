---------------------------- MODULE BoundedFifo ----------------------------
(***************************************************************************)
(* What each message ring of mini promises: a first-in first-out queue     *)
(* that never holds more than Capacity messages, loses none, repeats none  *)
(* and never lets a message that is waiting change.                        *)
(***************************************************************************)
EXTENDS Naturals, Sequences

CONSTANTS Message,   \* the messages that can be sent
          Capacity   \* how many fit

VARIABLE queue

Init == queue = <<>>

Put ==
    /\ Len(queue) < Capacity
    /\ Len(queue') = Len(queue) + 1
    /\ \E m \in Message : queue' = Append(queue, m)

Get ==
    /\ queue # <<>>
    /\ queue' = Tail(queue)

Next == Put \/ Get

Spec == Init /\ [][Next]_queue
=============================================================================
