------------------------------- MODULE KeyFifo -------------------------------
(***************************************************************************)
(* What the keyboard driver promises its reader: a queue of bounded length *)
(* that keeps the order of the keys, drops a key only when it is full, and *)
(* hands every key it kept to the reader exactly once.                     *)
(***************************************************************************)
EXTENDS Naturals, Sequences

CONSTANTS Key, Capacity

VARIABLES
    queue,   \* keys kept and not yet taken, oldest first
    got      \* the key taken last

Init == queue = <<>> /\ got \notin Key

Put == /\ Len(queue) < Capacity
       /\ \E k \in Key : queue' = Append(queue, k)
       /\ UNCHANGED got

Take == /\ queue # <<>>
        /\ got' = Head(queue)
        /\ queue' = Tail(queue)

Spec == Init /\ [][Put \/ Take]_<<queue, got>>
=============================================================================
