----------------------------- MODULE SprgImage -----------------------------
(***************************************************************************)
(* The SPRG program format as the loader checks it: the file's header and  *)
(* program headers, the memory slots of usermode_core.h a program may be   *)
(* linked for, and the pages a range of addresses touches.  Addresses and  *)
(* sizes are unsigned words, and their sums wrap.                          *)
(***************************************************************************)
EXTENDS Integers, Sequences

CONSTANT Word   \* number of values of a uint32_t

MaxFileSize == 65536
MaxPhdrs == 8
HeaderSize == 28
PhdrSize == 32
Chunk == 512

PageSize == 4096
IdentityLimit == 67108864

Slots == {"program", "shell"}
ProgramMin(s) == IF s = "program" THEN 393216 ELSE 524288
ProgramMax(s) == IF s = "program" THEN 458752 ELSE 589824
StackMin(s) == ProgramMax(s)
StackTop(s) == IF s = "program" THEN 524288 ELSE 651264

Words == 0 .. Word - 1

\* A program header; of type, flags and reserved, what the loader tells apart.
Segment == [load : BOOLEAN, offset : Words, vaddr : Words, filesz : Words,
            memsz : Words, flags : SUBSET {"r", "w", "x", "other"},
            reserved : BOOLEAN]

\* A file: its size, whether the header's magic, version, machine and flags
\* are the expected ones, and the header's other words.
File == [size : Words, magic : BOOLEAN, version : BOOLEAN, arch : BOOLEAN,
         plain : BOOLEAN, entry : Words, phoff : Words, segs : Seq(Segment)]

ASSUME WordAssumption == Word \in Nat /\ Word > IdentityLimit
----------------------------------------------------------------------------
\* The sum of two words.
Plus(a, b) == IF a + b < Word THEN a + b ELSE a + b - Word

RangeValid(offset, size, fileSize) ==
    offset <= fileSize /\ size <= fileSize - offset

SegmentsOverlap(l, r) ==
    /\ l.memsz # 0 /\ r.memsz # 0
    /\ \/ Plus(l.vaddr, l.memsz) < l.vaddr
       \/ Plus(r.vaddr, r.memsz) < r.vaddr
       \/ l.vaddr < Plus(r.vaddr, r.memsz) /\ r.vaddr < Plus(l.vaddr, l.memsz)

HeaderOK(f) ==
    /\ f.magic /\ f.version /\ f.arch /\ f.plain
    /\ Len(f.segs) \in 1 .. MaxPhdrs
    /\ RangeValid(f.phoff, Len(f.segs) * PhdrSize, f.size)

SegmentTableOK(f) ==
    \A k \in 1 .. Len(f.segs) :
        /\ f.segs[k].load
        /\ f.segs[k].memsz >= f.segs[k].filesz
        /\ RangeValid(f.segs[k].offset, f.segs[k].filesz, f.size)
        /\ ~f.segs[k].reserved
        /\ \A j \in k + 1 .. Len(f.segs) : ~SegmentsOverlap(f.segs[k], f.segs[j])

SegmentFits(g, s) ==
    /\ Plus(g.vaddr, g.memsz) >= g.vaddr
    /\ g.vaddr >= ProgramMin(s)
    /\ Plus(g.vaddr, g.memsz) <= ProgramMax(s)

ImageFitsSlot(f, s) == \A k \in 1 .. Len(f.segs) : SegmentFits(f.segs[k], s)

EntryExecutable(f) ==
    \E k \in 1 .. Len(f.segs) :
        /\ "x" \in f.segs[k].flags
        /\ f.entry >= f.segs[k].vaddr
        /\ f.entry < Plus(f.segs[k].vaddr, f.segs[k].memsz)

\* The pages paging_core_set_user_range walks for the bytes from..to-1.
PageSpan(from, to) ==
    (from \div PageSize) .. ((to + PageSize - 1) \div PageSize) - 1
=============================================================================
