------------------------------- MODULE MCKHeap -------------------------------
(* Small instance of KHeap for TLC. *)
EXTENDS KHeap

\* Pages 2, 4, 5 and 6 are free at boot: the usable range starts inside page 1
\* and the reserved piece touches page 3.
MCUsable == {<<5, 28>>}
MCReserved == {<<0, 4>>, <<13, 14>>}
=============================================================================
