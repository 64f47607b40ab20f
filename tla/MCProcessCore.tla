---------------------------- MODULE MCProcessCore ----------------------------
(* Small instance of ProcessCore for TLC, and the loader's interval tests on *)
(* words around both ends of the address space.                              *)
EXTENDS ProcessCore, SprgImage, TLC

CONSTANTS n1, n2

MCNodes == {n1, n2}

\* Node ids are only compared.
NodeSymmetry == Permutations(MCNodes)

EdgeRanges == [vaddr : {0, 1, 2, 3, Word - 3, Word - 2, Word - 1}, memsz : 0 .. 3]

RangeBytes(g) == g.vaddr .. g.vaddr + g.memsz - 1

\* sprg_segments_overlap lets two segments through just when one is empty, or
\* both end below the last word and they have no byte in common.
ASSUME OverlapExact ==
    \A l, r \in EdgeRanges :
        ~SegmentsOverlap(l, r) <=>
            \/ l.memsz = 0 \/ r.memsz = 0
            \/ /\ l.vaddr + l.memsz < Word /\ r.vaddr + r.memsz < Word
               /\ RangeBytes(l) \cap RangeBytes(r) = {}
=============================================================================
