------------------------------ MODULE Allocator ------------------------------
(***************************************************************************)
(* What the memory manager promises its clients: an allocation is a piece  *)
(* of usable memory that no other client holds, and it stays that piece    *)
(* until the client gives it back.                                         *)
(***************************************************************************)
EXTENDS Integers, FiniteSets

CONSTANT Memory    \* the usable units of memory

VARIABLE held      \* held pieces <<start, length>>

Extent(piece) == piece[1] .. piece[1] + piece[2] - 1

Init == held = {}

Allocate ==
    \E piece \in Memory \X (1 .. Cardinality(Memory)) :
        /\ held' = held \cup {piece}
        /\ Extent(piece) \subseteq Memory
        /\ \A other \in held : Extent(piece) \cap Extent(other) = {}

Release == \E piece \in held : held' = held \ {piece}

Next == Allocate \/ Release

Spec == Init /\ [][Next]_held
=============================================================================
