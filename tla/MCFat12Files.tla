---------------------------- MODULE MCFat12Files ----------------------------
(* Small instance of the open files for TLC: two entries, one of them spelled
   in two ways. *)
EXTENDS Fat12Files, TLC

MCNames == {"a", "A", "b"}
MCFold == [n \in MCNames |-> IF n = "b" THEN "B" ELSE "A"]
MCIso == [f \in {"A", "B"} |-> IF f = "A" THEN [first |-> 2, size |-> 1] ELSE [first |-> 3, size |-> 1]]
Flags(mode, creat, trunc, append) == [mode |-> mode, creat |-> creat, trunc |-> trunc, append |-> append]
\* Slots and descriptions are told apart by nothing but their use.
MCSymmetry == Permutations(Slots) \cup Permutations(Ofds)
\* Reading, creating to write at the end, and truncating to write anywhere.
MCFlags == {Flags("r", FALSE, FALSE, FALSE), Flags("w", TRUE, FALSE, TRUE), Flags("w", FALSE, TRUE, FALSE)}
=============================================================================
