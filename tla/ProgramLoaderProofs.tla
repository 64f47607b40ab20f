------------------------- MODULE ProgramLoaderProofs -------------------------
(***************************************************************************)
(* Proofs about ProgramLoader: for every program file, every word width    *)
(* above the identity map, and every choice of the addresses followed.     *)
(***************************************************************************)
EXTENDS ProgramLoader, TLAPS

Bytes(g) == g.vaddr .. g.vaddr + g.memsz - 1
Span(g) == PageSpan(g.vaddr, g.vaddr + g.memsz)

\* Segment g lies in memory m: the whole of it, or its first n bytes.
Whole(g, m) == \A a \in Watched : a \in Bytes(g) => m[a] = SegmentByte(g, a)
Part(g, n, m) ==
    \A a \in Watched : a \in g.vaddr .. g.vaddr + n - 1 => m[a] = SegmentByte(g, a)

\* The first n segments of f are mapped.
Mapped(f, n, u, r) ==
    \A k \in 1 .. Len(f.segs) : k <= n =>
        /\ Span(f.segs[k]) \subseteq u
        /\ \A p \in Span(f.segs[k]) :
              (\A j \in 1 .. Len(f.segs) : k < j /\ j <= n => p \notin Span(f.segs[j])) =>
                  (p \notin r <=> "w" \in f.segs[k].flags)

Entering == pc \in {"map", "strings", "words"} \/ rc = "ok"
Loading == pc \in {"segment", "copy"} \/ Entering

\* Where the exec is, and what it has established there.
ControlInv ==
    /\ pc # "idle" => rc = "none"
    /\ i >= 1
    /\ stage = "load" /\ pc # "idle" => slot \in Slots
    /\ pc \in {"open", "segment", "copy", "map", "strings", "words"} => stage = "load"
    /\ Loading \/ pc = "open" => slot \in Slots /\ SegmentTableOK(file)
    /\ Entering => EntryExecutable(file)
    /\ pc = "slot" => stage = "validate"
    /\ pc = "copy" => i <= Len(file.segs)

\* What is loaded: nothing, the segments before i and a part of i, or all.
LoadInv ==
    /\ ~Loading /\ pc # "idle" => \A a \in Watched : mem[a] = Old
    /\ \A k \in 1 .. Len(file.segs) :
          Entering \/ (pc \in {"segment", "copy"} /\ k < i) =>
              SegmentFits(file.segs[k], slot) /\ Whole(file.segs[k], mem)
    /\ pc = "copy" =>
          /\ SegmentFits(file.segs[i], slot)
          /\ done <= file.segs[i].filesz
          /\ Part(file.segs[i], done, mem)

MapInv ==
    /\ pc = "map" => Mapped(file, i - 1, user, readonly)
    /\ pc \in {"strings", "words"} \/ rc = "ok" =>
          Mapped(file, Len(file.segs), user, readonly)

StackInv ==
    /\ pc \in {"strings", "words"} => StackMin(slot) <= sp /\ sp <= StackTop(slot)
    /\ pc = "words" => sp % 4 = 0 /\ sp + 4 * (args + 3 - left) <= StackTop(slot)
    /\ StackInside

IInv ==
    /\ TypeOK /\ ControlInv /\ LoadInv /\ StaysInSlot /\ MapInv
    /\ KernelPagesClosed /\ FileClosed /\ StackInv
----------------------------------------------------------------------------
(* Lemmas about the checks. *)

\* A file's segments are segments.
LEMMA Segments ==
    ASSUME NEW f \in File, NEW k \in 1 .. Len(f.segs)
    PROVE  f.segs[k] \in Segment
<1>1. f.segs \in Seq(Segment)
  BY DEF File
<1> QED
  BY <1>1

\* The words of a segment are natural numbers below the width.
LEMMA SegmentWords ==
    ASSUME NEW g \in Segment
    PROVE  /\ g.vaddr \in Nat /\ g.memsz \in Nat /\ g.filesz \in Nat /\ g.offset \in Nat
           /\ g.vaddr < Word /\ g.memsz < Word
BY WordAssumption DEF Segment, Words

\* A segment that passes the loader's test lies in the slot, and its end does
\* not wrap around.
LEMMA FitsInSlot ==
    ASSUME NEW g \in Segment, NEW s \in Slots, SegmentFits(g, s)
    PROVE  /\ Plus(g.vaddr, g.memsz) = g.vaddr + g.memsz
           /\ ProgramMin(s) <= g.vaddr
           /\ g.vaddr + g.memsz <= ProgramMax(s)
<1>1. /\ g.vaddr \in Nat /\ g.memsz \in Nat
      /\ g.vaddr < Word /\ g.memsz < Word /\ Word \in Nat
  BY SegmentWords, WordAssumption
<1>2. Plus(g.vaddr, g.memsz) = g.vaddr + g.memsz
  BY <1>1 DEF SegmentFits, Plus
<1> QED
  BY <1>1, <1>2 DEF SegmentFits

\* The end the loader computes for such a segment.
LEMMA EndInSlot ==
    ASSUME NEW g \in Segment, NEW s \in Slots, SegmentFits(g, s)
    PROVE  /\ g.vaddr \in Nat /\ Plus(g.vaddr, g.memsz) \in Nat
           /\ ProgramMin(s) <= g.vaddr /\ Plus(g.vaddr, g.memsz) <= ProgramMax(s)
<1>1. g.vaddr \in Nat /\ g.memsz \in Nat
  BY SegmentWords
<1>2. /\ Plus(g.vaddr, g.memsz) = g.vaddr + g.memsz
      /\ ProgramMin(s) <= g.vaddr /\ g.vaddr + g.memsz <= ProgramMax(s)
  BY FitsInSlot
<1> QED
  BY <1>1, <1>2

\* Two segments that sprg_segments_overlap tells apart share no address.
LEMMA NoOverlap ==
    ASSUME NEW l \in Segment, NEW r \in Segment, ~SegmentsOverlap(l, r)
    PROVE  Bytes(l) \cap Bytes(r) = {}
<1>1. /\ l.vaddr \in Nat /\ l.memsz \in Nat /\ r.vaddr \in Nat /\ r.memsz \in Nat
      /\ l.vaddr < Word /\ l.memsz < Word /\ r.vaddr < Word /\ r.memsz < Word
      /\ Word \in Nat
  BY SegmentWords, WordAssumption
<1>2. CASE l.memsz = 0 \/ r.memsz = 0
  BY <1>1, <1>2 DEF Bytes
<1>3. CASE l.memsz # 0 /\ r.memsz # 0
  BY <1>1, <1>3 DEF Bytes, SegmentsOverlap, Plus
<1> QED
  BY <1>2, <1>3

\* Different segments of a validated table share no address.
LEMMA SegmentsApart ==
    ASSUME NEW f \in File, SegmentTableOK(f),
           NEW j \in 1 .. Len(f.segs), NEW k \in 1 .. Len(f.segs), j # k
    PROVE  Bytes(f.segs[j]) \cap Bytes(f.segs[k]) = {}
<1>0. f.segs \in Seq(Segment) /\ Len(f.segs) \in Nat
  BY DEF File
<1>1. f.segs[j] \in Segment /\ f.segs[k] \in Segment
  BY Segments
<1>2. CASE j < k
  <2>1. ~SegmentsOverlap(f.segs[j], f.segs[k])
    BY <1>0, <1>2 DEF SegmentTableOK
  <2> QED
    BY <1>1, <2>1, NoOverlap
<1>3. CASE k < j
  <2>1. ~SegmentsOverlap(f.segs[k], f.segs[j])
    BY <1>0, <1>3 DEF SegmentTableOK
  <2> QED
    BY <1>1, <2>1, NoOverlap
<1> QED
  BY <1>0, <1>2, <1>3

\* The pages of a range inside a slot's program range are pages of that range.
LEMMA SpanInSlot ==
    ASSUME NEW s \in Slots, NEW from \in Nat, NEW to \in Nat,
           ProgramMin(s) <= from, to <= ProgramMax(s), NEW p \in PageSpan(from, to)
    PROVE  p \in Int /\ IF s = "program" THEN p \in 96 .. 111 ELSE p \in 128 .. 143
<1>1. CASE s = "program"
  BY <1>1 DEF PageSpan, PageSize, ProgramMin, ProgramMax
<1>2. CASE s = "shell"
  BY <1>2 DEF PageSpan, PageSize, ProgramMin, ProgramMax
<1> QED
  BY <1>1, <1>2 DEF Slots

\* The slots and their stacks are the pages 96 to 158.
LEMMA UserPages == PageSpan(ProgramMin("program"), StackTop("shell")) = 96 .. 158
BY DEF PageSpan, PageSize, ProgramMin, StackTop
----------------------------------------------------------------------------
(* Steps. *)

Errors == {"enoent", "einval", "enospc", "enoexec", "eio", "e2big"}

\* Giving up keeps the invariant wherever it happens.
LEMMA LeaveStep == ASSUME IInv, NEW e \in Errors, Leave(e) PROVE IInv'
<1>1. TypeOK'
  BY DEF IInv, TypeOK, Leave, Errors
<1>2. ControlInv' /\ LoadInv' /\ MapInv' /\ StackInv'
  <2>1. ControlInv'
    BY DEF IInv, TypeOK, Leave, Errors, ControlInv, Entering, Loading
  <2>2. LoadInv'
    BY DEF Leave, Errors, LoadInv, Entering, Loading
  <2>3. MapInv' /\ StackInv'
    BY DEF Leave, Errors, MapInv, StackInv, StackInside
  <2> QED
    BY <2>1, <2>2, <2>3
<1>3. StaysInSlot' /\ KernelPagesClosed' /\ FileClosed'
  BY DEF IInv, Leave, StaysInSlot, KernelPagesClosed, FileClosed
<1> QED
  BY <1>1, <1>2, <1>3 DEF IInv

\* A new exec begins with nothing written.
LEMMA StartStep == ASSUME IInv, Start PROVE IInv'
<1> SUFFICES ASSUME ~Leave("enospc") PROVE IInv'
  BY LeaveStep DEF Errors
<1>0. /\ pc = "idle" /\ file' \in File /\ pc' = "stat" /\ stage' = "validate"
      /\ slot' = "none" /\ rc' = "none" /\ mem' = [a \in Watched |-> Old]
      /\ UNCHANGED <<i, done, open, user, readonly, sp, args, left>>
  BY DEF Start
<1>1. TypeOK'
  BY <1>0 DEF IInv, TypeOK
<1>2. ControlInv' /\ LoadInv' /\ MapInv' /\ StackInv'
  <2>1. ControlInv'
    BY <1>0 DEF IInv, TypeOK, ControlInv, Entering, Loading
  <2>2. LoadInv'
    BY <1>0 DEF LoadInv, Entering, Loading
  <2>3. MapInv' /\ StackInv'
    BY <1>0 DEF MapInv, StackInv, StackInside
  <2> QED
    BY <2>1, <2>2, <2>3
<1>3. StaysInSlot' /\ KernelPagesClosed' /\ FileClosed'
  BY <1>0 DEF IInv, StaysInSlot, KernelPagesClosed, FileClosed, Old, Zero, Pushed
<1> QED
  BY <1>1, <1>2, <1>3 DEF IInv

\* The steps that only move on: nothing is written, no page changes.
Moves ==
    /\ pc \in {"stat", "header", "table", "slot", "open"}
    /\ pc' \in {"stat", "header", "table", "slot", "open", "segment"}
    /\ rc' = rc /\ i' \in {i, 1} /\ open' \in BOOLEAN /\ stage' \in {"validate", "load"}
    /\ slot' \in Slots \cup {"none"}
    /\ stage' = "load" => slot' \in Slots
    /\ pc' \in {"open", "segment"} => stage' = "load" /\ SegmentTableOK(file)
    /\ pc' = "segment" => i' = 1
    /\ pc' = "slot" => stage' = "validate" /\ ~open'
    /\ UNCHANGED <<file, done, mem, user, readonly, sp, args, left>>

LEMMA MovesStep == ASSUME IInv, Moves PROVE IInv'
<1>1. TypeOK'
  BY DEF IInv, TypeOK, Moves
<1>2. ControlInv'
  BY DEF IInv, TypeOK, Moves, ControlInv, Entering, Loading
<1>3. LoadInv'
  BY DEF IInv, TypeOK, Moves, ControlInv, LoadInv, Entering, Loading
<1>4. MapInv' /\ StackInv'
  BY DEF IInv, TypeOK, Moves, ControlInv, MapInv, StackInv, StackInside, Entering
<1>5. StaysInSlot'
  BY DEF IInv, Moves, ControlInv, LoadInv, StaysInSlot, Entering, Loading, Old, Zero, Pushed
<1>6. KernelPagesClosed' /\ FileClosed'
  BY DEF IInv, Moves, KernelPagesClosed, FileClosed
<1> QED
  BY <1>1, <1>2, <1>3, <1>4, <1>5, <1>6 DEF IInv

\* The file is looked up and opened, or refused.
LEMMA StatStep == ASSUME IInv, Stat PROVE IInv'
<1>1. Moves \/ \E e \in Errors : Leave(e)
  BY DEF IInv, TypeOK, ControlInv, Stat, Moves, Errors
<1> QED
  BY <1>1, MovesStep, LeaveStep

\* Its header is read and checked.
LEMMA ReadHeaderStep == ASSUME IInv, ReadHeader PROVE IInv'
<1>1. Moves \/ \E e \in Errors : Leave(e)
  BY DEF IInv, TypeOK, ControlInv, ReadHeader, Moves, Errors
<1> QED
  BY <1>1, MovesStep, LeaveStep

\* Its program headers are read and validated.
LEMMA ReadTableStep == ASSUME IInv, ReadTable PROVE IInv'
<1>1. Moves \/ \E e \in Errors : Leave(e)
  BY DEF IInv, TypeOK, ControlInv, ReadTable, Moves, Errors
<1> QED
  BY <1>1, MovesStep, LeaveStep

\* The slot is chosen, and the load begins.
LEMMA ChooseSlotStep == ASSUME IInv, ChooseSlot PROVE IInv'
<1>1. Moves \/ \E e \in Errors : Leave(e)
  BY DEF IInv, TypeOK, ControlInv, ChooseSlot, Moves, Errors, Slots
<1> QED
  BY <1>1, MovesStep, LeaveStep

\* The file is opened again for its segments.
LEMMA OpenFileStep == ASSUME IInv, OpenFile PROVE IInv'
<1>1. Moves \/ \E e \in Errors : Leave(e)
  BY DEF IInv, TypeOK, ControlInv, OpenFile, Moves, Errors
<1> QED
  BY <1>1, MovesStep, LeaveStep

\* A segment is let through only if it lies in the slot.
LEMMA CheckSegmentStep == ASSUME IInv, CheckSegment PROVE IInv'
<1>1. CASE SegmentFits(file.segs[i], slot) /\ "other" \notin file.segs[i].flags
  <2>0. /\ pc = "segment" /\ pc' = "copy" /\ done' = 0 /\ i <= Len(file.segs)
        /\ UNCHANGED <<file, stage, slot, i, open, rc, mem, user, readonly, sp, args, left>>
    BY <1>1 DEF CheckSegment
  <2>1. TypeOK'
    BY <2>0 DEF IInv, TypeOK
  <2>2. ControlInv'
    BY <2>0 DEF IInv, ControlInv, Entering, Loading
  <2>3. i \in 1 .. Len(file.segs) /\ file.segs[i] \in Segment
    BY <2>0, Segments DEF IInv, TypeOK, ControlInv, File
  <2>4. LoadInv'
    BY <1>1, <2>0, <2>3, SegmentWords DEF IInv, LoadInv, Entering, Loading, Part
  <2>5. MapInv' /\ StackInv' /\ StaysInSlot' /\ KernelPagesClosed' /\ FileClosed'
    BY <2>0 DEF IInv, ControlInv, MapInv, StackInv, StackInside, StaysInSlot,
                KernelPagesClosed, FileClosed
  <2> QED
    BY <2>1, <2>2, <2>4, <2>5 DEF IInv
<1>2. CASE ~(SegmentFits(file.segs[i], slot) /\ "other" \notin file.segs[i].flags)
  BY <1>2, LeaveStep DEF CheckSegment, Errors
<1> QED
  BY <1>1, <1>2

\* A chunk goes behind what is there of the segment, and into no other one.
LEMMA CopyChunkStep == ASSUME IInv, CopyChunk PROVE IInv'
<1>1. CASE Leave("einval")
  BY <1>1, LeaveStep DEF Errors
<1>2. ASSUME NEW got \in 1 .. Chunk,
             got <= file.segs[i].filesz - done,
             mem' = [a \in Watched |->
                       IF a \in file.segs[i].vaddr + done
                                   .. file.segs[i].vaddr + done + got - 1
                       THEN file.segs[i].offset + (a - file.segs[i].vaddr)
                       ELSE mem[a]],
             done' = done + got,
             UNCHANGED <<file, stage, pc, slot, i, open, rc, user, readonly, sp, args, left>>
      PROVE  IInv'
  <2> DEFINE g == file.segs[i]
  <2>0. pc = "copy" /\ done < g.filesz
    BY DEF CopyChunk
  <2>1. /\ i \in 1 .. Len(file.segs) /\ g \in Segment /\ file \in File
        /\ slot \in Slots /\ SegmentTableOK(file) /\ rc = "none" /\ done \in Nat
        /\ got \in Nat
    BY <2>0, Segments DEF IInv, TypeOK, ControlInv, File, Loading
  <2>2. /\ g.vaddr \in Nat /\ g.memsz \in Nat /\ g.filesz \in Nat /\ g.offset \in Nat
        /\ file.size \in Nat
    BY <2>1, SegmentWords, WordAssumption DEF File, Words
  <2>3. /\ g.filesz <= g.memsz /\ g.offset + g.filesz <= file.size
    <3>1. g.memsz >= g.filesz /\ RangeValid(g.offset, g.filesz, file.size)
      BY <2>1 DEF SegmentTableOK
    <3> QED
      BY <2>2, <3>1 DEF RangeValid
  <2>4. /\ ProgramMin(slot) <= g.vaddr /\ g.vaddr + g.memsz <= ProgramMax(slot)
        /\ SegmentFits(g, slot) /\ Part(g, done, mem)
    BY <2>0, <2>1, FitsInSlot DEF IInv, LoadInv
  <2>5. \A a \in Watched : a \in Int
    BY WordAssumption DEF Watched, Words
  <2>a. /\ mem' = [a \in Watched |-> IF a \in g.vaddr + done .. g.vaddr + done + got - 1
                                     THEN g.offset + (a - g.vaddr) ELSE mem[a]]
        /\ got <= g.filesz - done /\ g = file.segs[i]
    BY <1>2
  <2> HIDE DEF g
  <2>6. ASSUME NEW a \in Watched
        PROVE  \/ mem'[a] = mem[a] /\ ~(g.vaddr + done <= a /\ a < g.vaddr + done + got)
               \/ /\ g.vaddr + done <= a /\ a < g.vaddr + done + got
                  /\ mem'[a] = SegmentByte(g, a) /\ mem'[a] \in 0 .. file.size - 1
                  /\ a \in Bytes(g)
    <3>1. a \in Int /\ got \in Nat /\ got > 0
      BY <2>1, <2>5, <1>2
    <3>2. CASE a \in g.vaddr + done .. g.vaddr + done + got - 1
      <4>1. g.vaddr + done <= a /\ a < g.vaddr + done + got
        BY <2>1, <2>2, <3>1, <3>2
      <4>2. mem'[a] = g.offset + (a - g.vaddr)
        BY <2>a, <3>2
      <4>3. done + got <= g.filesz
        BY <2>1, <2>2, <2>a, <3>1
      <4>4. a < g.vaddr + g.filesz /\ g.vaddr <= a
        BY <2>1, <2>2, <3>1, <4>1, <4>3
      <4>5. a \in Bytes(g)
        BY <2>2, <2>3, <3>1, <4>4 DEF Bytes
      <4>6. mem'[a] \in 0 .. file.size - 1
        BY <2>2, <2>3, <3>1, <4>2, <4>4
      <4> QED
        BY <4>1, <4>2, <4>4, <4>5, <4>6 DEF SegmentByte
    <3>3. CASE a \notin g.vaddr + done .. g.vaddr + done + got - 1
      BY <2>1, <2>2, <2>a, <3>1, <3>3
    <3> QED
      BY <3>2, <3>3
  <2>7. TypeOK'
    <3>1. mem' \in [Watched -> {Old, Zero, Pushed} \cup (0 .. file'.size - 1)]
      BY <1>2, <2>6 DEF IInv, TypeOK
    <3> QED
      BY <1>2, <2>1, <3>1 DEF IInv, TypeOK
  <2>8. ControlInv'
    BY <1>2, <2>0 DEF IInv, ControlInv, Entering, Loading
  <2>9. LoadInv'
    <3>1. ASSUME NEW k \in 1 .. Len(file.segs), k < i
          PROVE  SegmentFits(file.segs[k], slot) /\ Whole(file.segs[k], mem')
      <4>1. SegmentFits(file.segs[k], slot) /\ Whole(file.segs[k], mem)
        BY <2>0, <3>1 DEF IInv, LoadInv
      <4>0. k # i
        BY <2>1, <3>1
      <4>2. Bytes(file.segs[k]) \cap Bytes(g) = {}
        BY <2>1, <2>a, <4>0, SegmentsApart
      <4> QED
        BY <2>6, <4>1, <4>2 DEF Whole
    <3>2. Part(g, done', mem')
      <4> SUFFICES ASSUME NEW a \in Watched, a \in g.vaddr .. g.vaddr + done' - 1
                   PROVE  mem'[a] = SegmentByte(g, a)
        BY DEF Part
      <4>1. CASE a < g.vaddr + done
        <5>1. a \in g.vaddr .. g.vaddr + done - 1
          BY <2>1, <2>2, <2>5, <4>1
        <5>2. mem'[a] = mem[a]
          BY <2>1, <2>2, <2>5, <2>6, <4>1
        <5> QED
          BY <2>4, <5>1, <5>2 DEF Part
      <4>2. CASE a >= g.vaddr + done
        BY <1>2, <2>1, <2>2, <2>5, <2>6, <4>2
      <4> QED
        BY <2>1, <2>2, <2>5, <4>1, <4>2
    <3>3. done' <= g.filesz
      BY <1>2, <2>1, <2>2, <2>a
    <3>4. Part(file.segs[i], done, mem)' /\ SegmentFits(file.segs[i], slot)'
      BY <1>2, <2>a, <2>4, <3>2
    <3>5. file' = file /\ i' = i /\ slot' = slot /\ pc' = "copy" /\ rc' = "none"
      BY <1>2, <2>0, <2>1
    <3> QED
      BY <2>a, <3>1, <3>3, <3>4, <3>5 DEF LoadInv, Entering, Loading
  <2>10. StaysInSlot'
    <3>1. ASSUME NEW a \in Watched, mem'[a] = mem[a]
          PROVE  /\ mem'[a] # Old => slot \in Slots
                 /\ mem'[a] \in Nat \cup {Zero} => ProgramMin(slot) <= a /\ a < ProgramMax(slot)
                 /\ mem'[a] = Pushed => StackMin(slot) <= a /\ a < StackTop(slot)
      BY <3>1 DEF IInv, StaysInSlot
    <3>2. ASSUME NEW a \in Watched, a \in Bytes(g), mem'[a] \in Nat
          PROVE  /\ slot \in Slots
                 /\ ProgramMin(slot) <= a /\ a < ProgramMax(slot)
                 /\ mem'[a] # Pushed
      <4>1. g.vaddr <= a /\ a < g.vaddr + g.memsz /\ a \in Int
        BY <2>2, <2>5, <3>2 DEF Bytes
      <4>2. ProgramMin(slot) \in Int /\ ProgramMax(slot) \in Int
        BY DEF ProgramMin, ProgramMax
      <4>3. mem'[a] # Pushed
        BY <3>2 DEF Pushed
      <4> QED
        BY <2>1, <2>2, <2>4, <4>1, <4>2, <4>3
    <3> QED
      BY <1>2, <2>2, <2>6, <3>1, <3>2 DEF StaysInSlot
  <2>11. MapInv' /\ StackInv' /\ KernelPagesClosed' /\ FileClosed'
    BY <1>2, <2>0, <2>1 DEF IInv, MapInv, StackInv, StackInside, KernelPagesClosed, FileClosed
  <2> QED
    BY <2>7, <2>8, <2>9, <2>10, <2>11 DEF IInv
<1> QED
  BY <1>1, <1>2 DEF CopyChunk

\* The rest of the segment is cleared: it is whole, and the others still are.
LEMMA ClearRestStep == ASSUME IInv, ClearRest PROVE IInv'
<1> DEFINE g == file.segs[i]
<1>0. /\ pc = "copy" /\ done >= g.filesz /\ pc' = "segment" /\ i' = i + 1
      /\ mem' = [a \in Watched |->
                   IF a \in g.vaddr + g.filesz .. g.vaddr + g.memsz - 1
                   THEN Zero ELSE mem[a]]
      /\ UNCHANGED <<file, stage, slot, done, open, rc, user, readonly, sp, args, left>>
  BY DEF ClearRest
<1>1. /\ i \in 1 .. Len(file.segs) /\ g \in Segment /\ file \in File
      /\ slot \in Slots /\ SegmentTableOK(file) /\ rc = "none" /\ done \in Nat
  BY <1>0, Segments DEF IInv, TypeOK, ControlInv, File, Loading
<1>2. /\ g.vaddr \in Nat /\ g.memsz \in Nat /\ g.filesz \in Nat /\ g.offset \in Nat
      /\ file.size \in Nat /\ Len(file.segs) \in Nat
  BY <1>1, SegmentWords, WordAssumption DEF File, Words
<1>3. /\ ProgramMin(slot) <= g.vaddr /\ g.vaddr + g.memsz <= ProgramMax(slot)
      /\ SegmentFits(g, slot) /\ Part(g, done, mem) /\ done = g.filesz
  BY <1>0, <1>1, <1>2, FitsInSlot DEF IInv, LoadInv
<1>4. \A a \in Watched : a \in Int
  BY WordAssumption DEF Watched, Words
<1>a. /\ mem' = [a \in Watched |-> IF a \in g.vaddr + g.filesz .. g.vaddr + g.memsz - 1
                                   THEN Zero ELSE mem[a]]
      /\ g = file.segs[i]
  BY <1>0
<1> HIDE DEF g
<1>5. ASSUME NEW a \in Watched
      PROVE  \/ mem'[a] = mem[a] /\ ~(g.vaddr + g.filesz <= a /\ a < g.vaddr + g.memsz)
             \/ /\ g.vaddr + g.filesz <= a /\ a < g.vaddr + g.memsz
                /\ mem'[a] = Zero /\ SegmentByte(g, a) = Zero
                /\ a \in Bytes(g)
  <2>1. a \in Int
    BY <1>4
  <2>2. CASE a \in g.vaddr + g.filesz .. g.vaddr + g.memsz - 1
    <3>1. g.vaddr + g.filesz <= a /\ a < g.vaddr + g.memsz
      BY <1>2, <2>1, <2>2
    <3>2. mem'[a] = Zero
      BY <1>a, <2>2
    <3>3. a \in Bytes(g) /\ SegmentByte(g, a) = Zero
      BY <1>2, <2>1, <3>1 DEF Bytes, SegmentByte
    <3> QED
      BY <3>1, <3>2, <3>3
  <2>3. CASE a \notin g.vaddr + g.filesz .. g.vaddr + g.memsz - 1
    BY <1>2, <1>a, <2>1, <2>3
  <2> QED
    BY <2>2, <2>3
<1>6. TypeOK'
  <2>1. mem' \in [Watched -> {Old, Zero, Pushed} \cup (0 .. file'.size - 1)]
    BY <1>0, <1>5 DEF IInv, TypeOK
  <2> QED
    BY <1>0, <2>1 DEF IInv, TypeOK
<1>7. ControlInv'
  BY <1>0, <1>1 DEF IInv, ControlInv, Entering, Loading
<1>8. LoadInv'
  <2>1. ASSUME NEW k \in 1 .. Len(file.segs), k < i
        PROVE  SegmentFits(file.segs[k], slot) /\ Whole(file.segs[k], mem')
    <3>1. SegmentFits(file.segs[k], slot) /\ Whole(file.segs[k], mem)
      BY <1>0, <2>1 DEF IInv, LoadInv
    <3>0. k # i
      BY <1>1, <2>1
    <3>2. Bytes(file.segs[k]) \cap Bytes(g) = {}
      BY <1>1, <1>a, <3>0, SegmentsApart
    <3> QED
      BY <1>5, <3>1, <3>2 DEF Whole
  <2>2. Whole(g, mem')
    <3> SUFFICES ASSUME NEW a \in Watched, a \in Bytes(g)
                 PROVE  mem'[a] = SegmentByte(g, a)
      BY DEF Whole
    <3>1. a \in Int /\ g.vaddr <= a /\ a < g.vaddr + g.memsz
      BY <1>2, <1>4 DEF Bytes
    <3>2. CASE a < g.vaddr + g.filesz
      BY <1>2, <1>3, <1>5, <3>1, <3>2 DEF Part
    <3>3. CASE a >= g.vaddr + g.filesz
      BY <1>2, <1>5, <3>1, <3>3
    <3> QED
      BY <1>2, <3>1, <3>2, <3>3
  <2>3. /\ file' = file /\ i' = i + 1 /\ slot' = slot /\ pc' = "segment" /\ rc' = "none"
        /\ i \in Nat
    BY <1>0, <1>1
  <2>4. \A k \in 1 .. Len(file.segs) : k < i + 1 =>
            SegmentFits(file.segs[k], slot) /\ Whole(file.segs[k], mem')
    BY <1>1, <1>2, <1>3, <1>a, <2>1, <2>2
  <2> QED
    BY <2>3, <2>4 DEF LoadInv, Entering, Loading
<1>9. StaysInSlot'
  <2>1. ASSUME NEW a \in Watched, mem'[a] = mem[a]
        PROVE  /\ mem'[a] # Old => slot \in Slots
               /\ mem'[a] \in Nat \cup {Zero} => ProgramMin(slot) <= a /\ a < ProgramMax(slot)
               /\ mem'[a] = Pushed => StackMin(slot) <= a /\ a < StackTop(slot)
    BY <2>1 DEF IInv, StaysInSlot
  <2>2. ASSUME NEW a \in Watched, a \in Bytes(g), mem'[a] = Zero
        PROVE  /\ ProgramMin(slot) <= a /\ a < ProgramMax(slot)
               /\ mem'[a] # Pushed
    <3>1. g.vaddr <= a /\ a < g.vaddr + g.memsz /\ a \in Int
      BY <1>2, <1>4, <2>2 DEF Bytes
    <3>2. ProgramMin(slot) \in Int /\ ProgramMax(slot) \in Int
      BY DEF ProgramMin, ProgramMax
    <3> QED
      BY <1>2, <1>3, <2>2, <3>1, <3>2 DEF Pushed, Zero
  <2> QED
    BY <1>0, <1>1, <1>5, <2>1, <2>2 DEF StaysInSlot
<1>10. MapInv' /\ StackInv' /\ KernelPagesClosed' /\ FileClosed'
  BY <1>0, <1>1 DEF IInv, MapInv, StackInv, StackInside, KernelPagesClosed, FileClosed
<1> QED
  BY <1>6, <1>7, <1>8, <1>9, <1>10 DEF IInv

\* After the last segment the load ends, with an entry point or without.
LEMMA EndLoadStep == ASSUME IInv, EndLoad PROVE IInv'
<1>1. CASE EntryExecutable(file)
  <2>0. /\ pc = "segment" /\ i > Len(file.segs)
        /\ open' = FALSE /\ pc' = "map" /\ i' = 1
        /\ UNCHANGED <<file, stage, slot, done, rc, mem, user, readonly, sp, args, left>>
    BY <1>1 DEF EndLoad
  <2>a. Len(file.segs) \in Nat /\ i \in Nat /\ rc = "none"
    BY <2>0 DEF IInv, TypeOK, ControlInv, File
  <2>1. TypeOK'
    BY <2>0 DEF IInv, TypeOK
  <2>2. ControlInv'
    BY <1>1, <2>0 DEF IInv, ControlInv, Entering, Loading
  <2>3. LoadInv'
    <3>1. \A k \in 1 .. Len(file.segs) :
              SegmentFits(file.segs[k], slot) /\ Whole(file.segs[k], mem)
      BY <2>0, <2>a DEF IInv, LoadInv
    <3> QED
      BY <2>0, <3>1 DEF LoadInv, Entering, Loading
  <2>4. MapInv'
    BY <2>0, <2>a DEF MapInv, Mapped
  <2>5. StackInv' /\ StaysInSlot' /\ KernelPagesClosed' /\ FileClosed'
    BY <2>0 DEF IInv, StackInv, StackInside, StaysInSlot, KernelPagesClosed, FileClosed
  <2> QED
    BY <2>1, <2>2, <2>3, <2>4, <2>5 DEF IInv
<1>2. CASE ~EntryExecutable(file)
  BY <1>2, LeaveStep DEF EndLoad, Errors
<1> QED
  BY <1>1, <1>2

\* The pages of one more segment take its permissions.
LEMMA MapSegmentStep == ASSUME IInv, MapSegment PROVE IInv'
<1> DEFINE g == file.segs[i]
           to == Plus(g.vaddr, g.memsz)
<1>1. CASE g.vaddr >= to \/ to > IdentityLimit
  <2>1. Leave("eio")
    BY <1>1 DEF MapSegment
  <2> QED
    BY <2>1, LeaveStep DEF Errors
<1>2. CASE ~(g.vaddr >= to \/ to > IdentityLimit)
  <2>0. /\ pc = "map" /\ i <= Len(file.segs) /\ i' = i + 1
        /\ user' = user \cup PageSpan(g.vaddr, to)
        /\ readonly' = IF "w" \in g.flags THEN readonly \ PageSpan(g.vaddr, to)
                                          ELSE readonly \cup PageSpan(g.vaddr, to)
        /\ UNCHANGED <<file, stage, pc, slot, done, open, rc, mem, sp, args, left>>
    BY <1>2 DEF MapSegment
  <2>1. /\ i \in 1 .. Len(file.segs) /\ file \in File /\ i \in Nat
        /\ slot \in Slots /\ rc = "none" /\ Len(file.segs) \in Nat
    BY <2>0 DEF IInv, TypeOK, ControlInv, File, Loading, Entering
  <2>2. g \in Segment
    BY <2>1, Segments
  <2>3. /\ g.vaddr \in Nat /\ g.memsz \in Nat
        /\ to = g.vaddr + g.memsz
        /\ ProgramMin(slot) <= g.vaddr /\ g.vaddr + g.memsz <= ProgramMax(slot)
    <3>1. SegmentFits(g, slot)
      BY <2>0, <2>1 DEF IInv, LoadInv, Entering
    <3>2. g.vaddr \in Nat /\ g.memsz \in Nat
      BY <2>2, SegmentWords
    <3>3. /\ to = g.vaddr + g.memsz
          /\ ProgramMin(slot) <= g.vaddr /\ g.vaddr + g.memsz <= ProgramMax(slot)
      BY <2>1, <2>2, <3>1, FitsInSlot
    <3> QED
      BY <3>2, <3>3
  <2>4. PageSpan(g.vaddr, to) = Span(g) /\ g = file.segs[i]
    BY <2>3 DEF Span
  <2>5. \A p \in Span(g) : p \in 96 .. 111 \/ p \in 128 .. 143
    <3>1. g.vaddr + g.memsz \in Nat
      BY <2>3
    <3>2. \A p \in PageSpan(g.vaddr, g.vaddr + g.memsz) : p \in 96 .. 111 \/ p \in 128 .. 143
      BY <2>1, <2>3, <3>1, SpanInSlot
    <3> QED
      BY <3>2 DEF Span
  <2>6. /\ user' = user \cup Span(g)
        /\ readonly' = IF "w" \in g.flags THEN readonly \ Span(g) ELSE readonly \cup Span(g)
    BY <2>0, <2>4
  <2> HIDE DEF g, to
  <2>7. TypeOK'
    <3>1. Span(g) \subseteq Nat /\ user \subseteq Nat /\ readonly \subseteq Nat
      BY <2>5 DEF IInv, TypeOK
    <3>2. user' \in SUBSET Nat /\ readonly' \in SUBSET Nat
      BY <2>6, <3>1
    <3> QED
      BY <2>0, <2>1, <3>2 DEF IInv, TypeOK
  <2>8. ControlInv' /\ LoadInv'
    <3>1. ControlInv'
      BY <2>0, <2>1 DEF IInv, ControlInv, Entering, Loading
    <3>2. \A k \in 1 .. Len(file.segs) :
              SegmentFits(file.segs[k], slot) /\ Whole(file.segs[k], mem)
      BY <2>0 DEF IInv, LoadInv, Entering
    <3>3. LoadInv'
      BY <2>0, <3>2 DEF LoadInv, Entering, Loading
    <3> QED
      BY <3>1, <3>3
  <2>9. MapInv'
    <3>1. Mapped(file, i - 1, user, readonly)
      BY <2>0 DEF IInv, MapInv
    <3>2. ASSUME NEW k \in 1 .. Len(file.segs), k <= i
          PROVE  /\ Span(file.segs[k]) \subseteq user'
                 /\ \A p \in Span(file.segs[k]) :
                      (\A j \in 1 .. Len(file.segs) :
                          k < j /\ j <= i => p \notin Span(file.segs[j])) =>
                              (p \notin readonly' <=> "w" \in file.segs[k].flags)
      <4>1. CASE k = i
        BY <2>4, <2>6, <4>1
      <4>2. CASE k < i
        <5>1. k <= i - 1
          BY <2>1, <4>2
        <5>2. Span(file.segs[k]) \subseteq user
          BY <3>1, <5>1 DEF Mapped
        <5>3. ASSUME NEW p \in Span(file.segs[k]),
                     \A j \in 1 .. Len(file.segs) :
                         k < j /\ j <= i => p \notin Span(file.segs[j])
              PROVE  p \notin readonly' <=> "w" \in file.segs[k].flags
          <6>1. p \notin Span(g)
            BY <2>1, <2>4, <4>2, <5>3
          <6>2. \A j \in 1 .. Len(file.segs) :
                    k < j /\ j <= i - 1 => p \notin Span(file.segs[j])
            BY <2>1, <5>3
          <6>3. p \notin readonly <=> "w" \in file.segs[k].flags
            BY <3>1, <5>1, <6>2 DEF Mapped
          <6> QED
            BY <2>6, <6>1, <6>3
        <5> QED
          BY <2>6, <5>2, <5>3
      <4> QED
        BY <2>1, <3>2, <4>1, <4>2
    <3>3. Mapped(file, i, user', readonly')
      BY <3>2 DEF Mapped
    <3>4. i' - 1 = i /\ file' = file /\ pc' = "map" /\ rc' = "none"
      BY <2>0, <2>1
    <3> QED
      BY <3>3, <3>4 DEF MapInv
  <2>10. KernelPagesClosed'
    <3>1. KernelPagesClosed <=> user \subseteq 96 .. 158
      BY UserPages DEF KernelPagesClosed
    <3>2. KernelPagesClosed' <=> user' \subseteq 96 .. 158
      BY UserPages DEF KernelPagesClosed
    <3>3. Span(g) \subseteq 96 .. 158
      BY <2>5
    <3> QED
      BY <2>6, <3>1, <3>2, <3>3 DEF IInv
  <2>11. StackInv' /\ StaysInSlot' /\ FileClosed'
    BY <2>0, <2>1 DEF IInv, StackInv, StackInside, StaysInSlot, FileClosed
  <2> QED
    BY <2>7, <2>8, <2>9, <2>10, <2>11 DEF IInv
<1> QED
  BY <1>1, <1>2

\* The strings are counted, and the stack begins at its top.
LEMMA CountStringsStep == ASSUME IInv, CountStrings PROVE IInv'
<1>1. CASE Leave("e2big")
  BY <1>1, LeaveStep DEF Errors
<1>2. ASSUME NEW argc \in 1 .. ArgMax, NEW envc \in 0 .. EnvMax,
             args' = argc + envc, left' = argc + envc,
             sp' = StackTop(slot), pc' = "strings",
             UNCHANGED <<file, stage, slot, i, done, open, rc, mem, user, readonly>>
      PROVE  IInv'
  <2>0. pc = "map" /\ i > Len(file.segs)
    BY DEF CountStrings
  <2>1. i \in Nat /\ Len(file.segs) \in Nat /\ rc = "none"
    BY <2>0 DEF IInv, TypeOK, ControlInv, File
  <2>2. TypeOK'
    BY <1>2 DEF IInv, TypeOK, StackTop, ArgMax, EnvMax
  <2>3. ControlInv' /\ LoadInv'
    <3>1. ControlInv'
      BY <1>2, <2>0, <2>1 DEF IInv, ControlInv, Entering, Loading
    <3>2. \A k \in 1 .. Len(file.segs) :
              SegmentFits(file.segs[k], slot) /\ Whole(file.segs[k], mem)
      BY <2>0 DEF IInv, LoadInv, Entering
    <3>3. LoadInv'
      BY <1>2, <3>2 DEF LoadInv, Entering, Loading
    <3> QED
      BY <3>1, <3>3
  <2>4. MapInv'
    <3>1. Mapped(file, i - 1, user, readonly)
      BY <2>0 DEF IInv, MapInv
    <3>2. Mapped(file, Len(file.segs), user, readonly)
      BY <2>0, <2>1, <3>1 DEF Mapped
    <3> QED
      BY <1>2, <2>1, <3>2 DEF MapInv
  <2>5. StackInv'
    BY <1>2, <2>1 DEF StackInv, StackInside, StackMin, StackTop, ProgramMax
  <2>6. StaysInSlot' /\ KernelPagesClosed' /\ FileClosed'
    BY <1>2, <2>0 DEF IInv, StaysInSlot, KernelPagesClosed, FileClosed
  <2> QED
    BY <2>2, <2>3, <2>4, <2>5, <2>6 DEF IInv
<1> QED
  BY <1>1, <1>2 DEF CountStrings

\* A push writes below the stack pointer and above the program range.
LEMMA PushKeepsImage ==
    ASSUME IInv, pc \in {"strings", "words"}, NEW n \in Nat,
           StackMin(slot) + n <= sp, mem' = PushedBelow(n),
           UNCHANGED <<file, pc, slot, i, done, rc>>
    PROVE  /\ mem' \in [Watched -> {Old, Zero, Pushed} \cup (0 .. file'.size - 1)]
           /\ LoadInv' /\ StaysInSlot'
<1>1. /\ slot \in Slots /\ file \in File /\ sp \in Nat /\ rc = "none"
      /\ StackMin(slot) = ProgramMax(slot) /\ ProgramMax(slot) \in Nat
      /\ StackTop(slot) \in Nat /\ sp <= StackTop(slot)
  BY DEF IInv, TypeOK, ControlInv, StackInv, Loading, Entering, StackMin, StackTop, ProgramMax
<1>2. \A a \in Watched : a \in Int
  BY WordAssumption DEF Watched, Words
<1>3. ASSUME NEW a \in Watched
      PROVE  \/ mem'[a] = mem[a]
             \/ mem'[a] = Pushed /\ StackMin(slot) <= a /\ a < StackTop(slot)
  BY <1>1, <1>2 DEF PushedBelow
<1>4. mem' \in [Watched -> {Old, Zero, Pushed} \cup (0 .. file'.size - 1)]
  <2>1. \A a \in Watched : mem'[a] \in {Old, Zero, Pushed} \cup (0 .. file.size - 1)
    BY <1>3 DEF IInv, TypeOK
  <2> QED
    BY <2>1 DEF PushedBelow
<1>5. LoadInv'
  <2>1. ASSUME NEW k \in 1 .. Len(file.segs)
        PROVE  SegmentFits(file.segs[k], slot) /\ Whole(file.segs[k], mem')
    <3>1. SegmentFits(file.segs[k], slot) /\ Whole(file.segs[k], mem)
      BY DEF IInv, LoadInv, Entering
    <3>2. file.segs[k] \in Segment
      BY <1>1, Segments
    <3>3. /\ file.segs[k].vaddr \in Nat /\ file.segs[k].memsz \in Nat
          /\ file.segs[k].vaddr + file.segs[k].memsz <= ProgramMax(slot)
      <4>1. file.segs[k].vaddr + file.segs[k].memsz <= ProgramMax(slot)
        BY <1>1, <3>1, <3>2, FitsInSlot
      <4>2. file.segs[k].vaddr \in Nat /\ file.segs[k].memsz \in Nat
        BY <3>2, SegmentWords
      <4> QED
        BY <4>1, <4>2
    <3>4. ASSUME NEW a \in Watched, a \in Bytes(file.segs[k])
          PROVE  mem'[a] = mem[a]
      BY <1>1, <1>2, <1>3, <3>3, <3>4 DEF Bytes
    <3> QED
      BY <3>1, <3>4 DEF Whole
  <2> QED
    BY <1>1, <2>1 DEF LoadInv, Entering, Loading
<1>6. StaysInSlot'
  <2>1. Pushed \notin Nat \cup {Zero}
    BY DEF Pushed, Zero
  <2> QED
    BY <1>1, <1>3, <2>1 DEF IInv, StaysInSlot
<1> QED
  BY <1>4, <1>5, <1>6

\* A string goes on the stack if it fits there.
LEMMA CopyStackStringStep == ASSUME IInv, CopyStackString PROVE IInv'
<1>1. CASE Leave("e2big")
  BY <1>1, LeaveStep DEF Errors
<1>2. ASSUME NEW len \in 1 .. StringMax, sp < StackMin(slot) + len, Leave("enospc")
      PROVE  IInv'
  BY <1>2, LeaveStep DEF Errors
<1>3. ASSUME NEW len \in 1 .. StringMax, ~(sp < StackMin(slot) + len),
             mem' = PushedBelow(len), sp' = sp - len, left' = left - 1,
             UNCHANGED <<file, stage, pc, slot, i, done, open, rc, user, readonly, args>>
      PROVE  IInv'
  <2>0. pc = "strings" /\ left > 0 /\ rc = "none"
    BY DEF IInv, ControlInv, CopyStackString
  <2>1. /\ StackMin(slot) \in Nat /\ StackTop(slot) \in Nat /\ sp \in Nat /\ len \in Nat
        /\ StackMin(slot) + len <= sp /\ sp <= StackTop(slot)
    BY <1>3, <2>0 DEF IInv, TypeOK, StackInv, StackMin, StackTop, ProgramMax, StringMax
  <2>2. /\ mem' \in [Watched -> {Old, Zero, Pushed} \cup (0 .. file'.size - 1)]
        /\ LoadInv' /\ StaysInSlot'
    BY <1>3, <2>0, <2>1, PushKeepsImage
  <2>3. sp' \in Nat /\ StackMin(slot) <= sp' /\ sp' <= StackTop(slot)
    BY <1>3, <2>1
  <2>4. TypeOK'
    BY <1>3, <2>0, <2>2, <2>3 DEF IInv, TypeOK
  <2>5. ControlInv' /\ MapInv' /\ KernelPagesClosed' /\ FileClosed'
    BY <1>3, <2>0 DEF IInv, ControlInv, MapInv, KernelPagesClosed, FileClosed,
                      Entering, Loading
  <2>6. StackInv'
    BY <1>3, <2>0, <2>3 DEF StackInv, StackInside
  <2> QED
    BY <2>2, <2>4, <2>5, <2>6 DEF IInv
<1> QED
  BY <1>1, <1>2, <1>3 DEF CopyStackString

\* The bottom of a slot's stack is aligned, so rounding down stays above it.
LEMMA AlignStackStep == ASSUME IInv, AlignStack PROVE IInv'
<1>0. /\ pc = "strings" /\ left = 0 /\ rc = "none" /\ args \in Nat
      /\ sp' = sp - (sp % 4) /\ left' = args + 3 /\ pc' = "words"
      /\ UNCHANGED <<file, stage, slot, i, done, open, rc, mem, user, readonly, args>>
  BY DEF IInv, TypeOK, ControlInv, AlignStack
<1>1. sp \in Nat /\ StackMin(slot) <= sp /\ sp <= StackTop(slot) /\ StackTop(slot) \in Nat
  BY <1>0 DEF IInv, TypeOK, StackInv, StackTop
<1>2. sp' \in Nat /\ sp' % 4 = 0 /\ sp' <= sp /\ StackMin(slot) <= sp'
  BY <1>0, <1>1 DEF StackMin, ProgramMax
<1>3. TypeOK'
  BY <1>0, <1>2 DEF IInv, TypeOK
<1>4. ControlInv' /\ LoadInv' /\ MapInv' /\ KernelPagesClosed' /\ FileClosed' /\ StaysInSlot'
  <2>1. ControlInv'
    BY <1>0 DEF IInv, ControlInv, Entering, Loading
  <2>2. LoadInv' /\ MapInv'
    BY <1>0 DEF IInv, LoadInv, MapInv, Entering, Loading
  <2>3. KernelPagesClosed' /\ FileClosed' /\ StaysInSlot'
    BY <1>0 DEF IInv, KernelPagesClosed, FileClosed, StaysInSlot
  <2> QED
    BY <2>1, <2>2, <2>3
<1>5. StackInv'
  BY <1>0, <1>1, <1>2 DEF StackInv, StackInside, StackMin, StackTop, ProgramMax
<1> QED
  BY <1>3, <1>4, <1>5 DEF IInv

\* A word goes on the stack if it fits there.
LEMMA PushWordStep == ASSUME IInv, PushWord PROVE IInv'
<1>1. CASE sp < StackMin(slot) + 4
  BY <1>1, LeaveStep DEF PushWord, Errors
<1>2. CASE ~(sp < StackMin(slot) + 4)
  <2>0. /\ pc = "words" /\ left > 0 /\ rc = "none"
        /\ mem' = PushedBelow(4) /\ sp' = sp - 4 /\ left' = left - 1
        /\ UNCHANGED <<file, stage, pc, slot, i, done, open, rc, user, readonly, args>>
    BY <1>2 DEF IInv, ControlInv, PushWord
  <2>1. /\ StackMin(slot) \in Nat /\ StackTop(slot) \in Nat /\ sp \in Nat
        /\ StackMin(slot) + 4 <= sp /\ sp <= StackTop(slot)
        /\ args \in Nat /\ left \in Nat
        /\ sp % 4 = 0 /\ sp + 4 * (args + 3 - left) <= StackTop(slot)
    BY <1>2, <2>0 DEF IInv, TypeOK, StackInv, StackMin, StackTop, ProgramMax
  <2>2. /\ mem' \in [Watched -> {Old, Zero, Pushed} \cup (0 .. file'.size - 1)]
        /\ LoadInv' /\ StaysInSlot'
    BY <2>0, <2>1, PushKeepsImage
  <2>3. /\ sp' \in Nat /\ StackMin(slot) <= sp' /\ sp' <= StackTop(slot)
        /\ sp' % 4 = 0 /\ left' \in Nat
        /\ sp' + 4 * (args + 3 - left') <= StackTop(slot)
    BY <2>0, <2>1
  <2>4. TypeOK'
    BY <2>0, <2>2, <2>3 DEF IInv, TypeOK
  <2>5. ControlInv' /\ MapInv' /\ KernelPagesClosed' /\ FileClosed'
    BY <2>0 DEF IInv, ControlInv, MapInv, KernelPagesClosed, FileClosed, Entering, Loading
  <2>6. StackInv'
    BY <2>0, <2>3 DEF StackInv, StackInside
  <2> QED
    BY <2>2, <2>4, <2>5, <2>6 DEF IInv
<1> QED
  BY <1>1, <1>2

\* The program is entered with the image and the stack as they are.
LEMMA EnterStep == ASSUME IInv, Enter PROVE IInv'
<1> SUFFICES ASSUME ~Leave("enospc") PROVE IInv'
  BY LeaveStep DEF Errors
<1>0. /\ pc = "words" /\ left = 0 /\ pc' = "idle" /\ rc' = "ok"
      /\ UNCHANGED <<file, stage, slot, i, done, open, mem, user, readonly, sp, args, left>>
  BY DEF Enter
<1>1. /\ StackMin(slot) \in Nat /\ StackTop(slot) \in Nat /\ sp \in Nat /\ args \in Nat
      /\ StackMin(slot) <= sp /\ sp % 4 = 0 /\ sp + 4 * (args + 3 - left) <= StackTop(slot)
  BY <1>0 DEF IInv, TypeOK, StackInv, StackMin, StackTop, ProgramMax
<1>2. TypeOK' /\ ControlInv' /\ LoadInv' /\ MapInv'
  <2>1. TypeOK'
    BY <1>0 DEF IInv, TypeOK
  <2>2. ControlInv'
    BY <1>0 DEF IInv, ControlInv, Entering, Loading
  <2>3. LoadInv' /\ MapInv'
    BY <1>0 DEF IInv, LoadInv, MapInv, Entering, Loading
  <2> QED
    BY <2>1, <2>2, <2>3
<1>3. StackInv'
  BY <1>0, <1>1 DEF StackInv, StackInside
<1>4. StaysInSlot' /\ KernelPagesClosed' /\ FileClosed'
  BY <1>0 DEF IInv, StaysInSlot, KernelPagesClosed, FileClosed
<1> QED
  BY <1>2, <1>3, <1>4 DEF IInv
----------------------------------------------------------------------------
(* Theorems. *)

\* The invariant holds before the first exec.
LEMMA InitIInv == Init => IInv
<1> SUFFICES ASSUME Init PROVE IInv
  OBVIOUS
<1>1. user \subseteq 96 .. 158
  BY DEF Init, PageSpan, PageSize, StackMin, StackTop, ProgramMax, Slots
<1>2. TypeOK
  <2>1. mem \in [Watched -> {Old, Zero, Pushed} \cup (0 .. file.size - 1)]
    BY DEF Init
  <2>2. user \in SUBSET Nat
    BY <1>1
  <2> QED
    BY <2>1, <2>2 DEF Init, TypeOK
<1>3. KernelPagesClosed
  BY <1>1, UserPages DEF KernelPagesClosed
<1>4. ControlInv /\ LoadInv /\ MapInv /\ StackInv /\ FileClosed
  <2>0. pc = "idle" /\ rc = "none" /\ i = 1 /\ open = FALSE
    BY DEF Init
  <2>1. ControlInv
    BY <2>0 DEF ControlInv, Entering, Loading
  <2>2. LoadInv
    BY <2>0 DEF LoadInv, Entering, Loading
  <2> QED
    BY <2>0, <2>1, <2>2 DEF MapInv, StackInv, StackInside, FileClosed
<1>5. StaysInSlot
  BY DEF Init, StaysInSlot, Old, Zero, Pushed
<1> QED
  BY <1>2, <1>3, <1>4, <1>5 DEF IInv

\* Every step keeps it.
LEMMA NextIInv == IInv /\ [Next]_vars => IInv'
<1> SUFFICES ASSUME IInv, [Next]_vars PROVE IInv'
  OBVIOUS
<1>1. CASE Next
  BY <1>1, StartStep, StatStep, ReadHeaderStep, ReadTableStep, ChooseSlotStep,
     OpenFileStep, CheckSegmentStep, CopyChunkStep, ClearRestStep, EndLoadStep,
     MapSegmentStep, CountStringsStep, CopyStackStringStep, AlignStackStep,
     PushWordStep, EnterStep DEF Next
<1>2. CASE UNCHANGED vars
  BY <1>2 DEF IInv, TypeOK, ControlInv, LoadInv, StaysInSlot, MapInv,
              KernelPagesClosed, FileClosed, StackInv, StackInside, Entering,
              Loading, vars
<1> QED
  BY <1>1, <1>2

\* So it holds always.
LEMMA Invariant == Spec => []IInv
BY InitIInv, NextIInv, PTL DEF Spec

\* No exec, whatever its file says and wherever it gives up, writes outside the
\* slot that usermode_exec chose for it.
THEOREM LoadStaysInSlot == Spec => []StaysInSlot
<1>1. IInv => StaysInSlot
  BY DEF IInv
<1> QED
  BY <1>1, Invariant, PTL

\* Every program that is entered has all its segments whole in memory, and its
\* entry point in an executable one.
THEOREM EnteredImageComplete == Spec => []ImageComplete
<1>1. IInv => ImageComplete
  <2> SUFFICES ASSUME IInv, rc = "ok" PROVE ImageComplete
    BY DEF ImageComplete
  <2>1. EntryExecutable(file)
    BY DEF IInv, ControlInv, Entering
  <2>2. \A k \in 1 .. Len(file.segs) : Whole(file.segs[k], mem)
    BY DEF IInv, LoadInv, Entering
  <2> QED
    BY <2>1, <2>2 DEF ImageComplete, Whole, Bytes
<1> QED
  BY <1>1, Invariant, PTL

\* Every program that is entered can reach its pages, and each page has the
\* permission of the last segment on it.
THEOREM EnteredImageMapped == Spec => []ImageMapped
<1>1. IInv => ImageMapped
  <2> SUFFICES ASSUME IInv, rc = "ok" PROVE ImageMapped
    BY DEF ImageMapped
  <2>1. Mapped(file, Len(file.segs), user, readonly) /\ Len(file.segs) \in Nat
    BY DEF IInv, TypeOK, MapInv, File
  <2>2. ASSUME NEW k \in 1 .. Len(file.segs)
        PROVE  /\ Span(file.segs[k]) \subseteq user
               /\ \A p \in Span(file.segs[k]) :
                     (\A j \in k + 1 .. Len(file.segs) : p \notin Span(file.segs[j])) =>
                         (p \notin readonly <=> "w" \in file.segs[k].flags)
    BY <2>1 DEF Mapped
  <2> QED
    BY <2>2 DEF ImageMapped, Span
<1> QED
  BY <1>1, Invariant, PTL

\* No sequence of execs opens a page of the kernel to user mode.
THEOREM KernelStaysClosed == Spec => []KernelPagesClosed
<1>1. IInv => KernelPagesClosed
  BY DEF IInv
<1> QED
  BY <1>1, Invariant, PTL

\* Every way out of an exec has closed the program's file.
THEOREM ProgramFileClosed == Spec => []FileClosed
<1>1. IInv => FileClosed
  BY DEF IInv
<1> QED
  BY <1>1, Invariant, PTL

\* The initial stack never leaves the slot's stack range, and a program starts
\* with an aligned stack pointer.
THEOREM StackStaysInside == Spec => []StackInside
<1>1. IInv => StackInside
  BY DEF IInv, StackInv
<1> QED
  BY <1>1, Invariant, PTL

\* Only MapSegment changes permissions, and only in the slot chosen.
LEMMA OnlySlotPages ==
    ASSUME IInv, [Next]_vars, slot' = "program", NEW p \in 128 .. 158
    PROVE  (p \in user' <=> p \in user) /\ (p \in readonly' <=> p \in readonly)
<1>1. CASE MapSegment
  <2> DEFINE g == file.segs[i]
             to == Plus(g.vaddr, g.memsz)
  <2>0. /\ pc = "map" /\ slot = "program" /\ i \in 1 .. Len(file.segs)
        /\ file \in File /\ slot \in Slots
    BY <1>1 DEF IInv, TypeOK, ControlInv, MapSegment, Leave, File, Slots
  <2>1. g \in Segment /\ SegmentFits(g, slot)
    BY <2>0, Segments DEF IInv, LoadInv, Entering
  <2> HIDE DEF g
  <2>2. /\ g.vaddr \in Nat /\ to \in Nat
        /\ ProgramMin(slot) <= g.vaddr /\ to <= ProgramMax(slot)
    BY <2>0, <2>1, EndInSlot
  <2> HIDE DEF to
  <2>3. p \notin PageSpan(g.vaddr, to)
    <3>1. \A q \in PageSpan(g.vaddr, to) : q \in 96 .. 111
      BY <2>0, <2>2, SpanInSlot
    <3> QED
      BY <3>1
  <2> USE DEF g, to
  <2> QED
    BY <1>1, <2>3 DEF MapSegment, Leave
<1>2. CASE ~MapSegment
  BY <1>2 DEF Next, vars, Start, Stat, ReadHeader, ReadTable, ChooseSlot, OpenFile,
     CheckSegment, CopyChunk, ClearRest, EndLoad, CountStrings, CopyStackString,
     AlignStack, PushWord, Enter, Leave
<1> QED
  BY <1>1, <1>2

\* A slot is chosen before anything is written, and kept until the next exec.
LEMMA SlotKept ==
    ASSUME IInv, [Next]_vars, slot' = "program"
    PROVE  slot = "program" \/ \A a \in Watched : mem[a] = Old
<1>1. CASE ChooseSlot
  BY <1>1 DEF ChooseSlot, Leave, IInv, LoadInv, ControlInv, Loading, Entering
<1>2. CASE ~ChooseSlot
  BY <1>2 DEF Next, vars, Start, Stat, ReadHeader, ReadTable, OpenFile,
     CheckSegment, CopyChunk, ClearRest, EndLoad, MapSegment, CountStrings,
     CopyStackString, AlignStack, PushWord, Enter, Leave
<1> QED
  BY <1>1, <1>2

\* Executing a command leaves the shell's slot as it was, bytes and pages.
THEOREM CommandsSpareShell == Spec => ShellUntouched
<1>1. PageSpan(ProgramMin("shell"), StackTop("shell")) = 128 .. 158
  BY DEF PageSpan, PageSize, ProgramMin, StackTop
<1>2. ASSUME IInv, IInv', [Next]_vars, slot' = "program",
             NEW a \in Watched, a >= ProgramMin("shell")
      PROVE  mem'[a] = mem[a]
  <2>1. a \in Int
    BY WordAssumption DEF Watched, Words
  <2>2. mem[a] \in Nat \cup {Old, Zero, Pushed} /\ mem'[a] \in Nat \cup {Old, Zero, Pushed}
    BY <1>2, WordAssumption DEF IInv, TypeOK, File, Words
  <2>3. mem'[a] = Old
    BY <1>2, <2>1, <2>2 DEF IInv, StaysInSlot, ProgramMin, ProgramMax, StackTop
  <2>4. slot = "program" => mem[a] = Old
    BY <1>2, <2>1, <2>2 DEF IInv, StaysInSlot, ProgramMin, ProgramMax, StackTop
  <2> QED
    BY <1>2, <2>3, <2>4, SlotKept
<1>3. IInv /\ IInv' /\ [Next]_vars =>
        [slot' = "program" =>
            /\ \A a \in Watched : a >= ProgramMin("shell") => mem'[a] = mem[a]
            /\ \A p \in PageSpan(ProgramMin("shell"), StackTop("shell")) :
                  (p \in user' <=> p \in user) /\ (p \in readonly' <=> p \in readonly)]_vars
  BY <1>1, <1>2, OnlySlotPages
<1> QED
  BY <1>3, Invariant, PTL DEF Spec, ShellUntouched
=============================================================================
