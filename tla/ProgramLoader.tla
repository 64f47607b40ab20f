---------------------------- MODULE ProgramLoader ----------------------------
(***************************************************************************)
(* What usermode_exec does before it enters a program on i386: the SPRG    *)
(* file is validated, a slot is chosen, the segments are streamed into     *)
(* memory, their pages are opened to user mode, and the initial stack is   *)
(* built.  The file system may fail, or return a short read, at any call.  *)
(***************************************************************************)
EXTENDS SprgImage

CONSTANTS
    Files,      \* the program files there are
    Addresses   \* the addresses whose contents are followed

ArgMax == 16
EnvMax == 8
StringMax == 128

Watched == Addresses \cap Words

\* What a byte of memory may hold besides a byte of the file, which is named
\* by its offset: what it held before, a cleared byte, a part of the stack.
Old == -1
Zero == -2
Pushed == -3

VARIABLES
    file,       \* the program being executed
    stage,      \* validated first by itself, then again by the load
    pc,         \* where the exec is
    slot,       \* the slot chosen
    i,          \* segment being loaded or mapped
    done,       \* bytes of it read
    open,       \* the file is open in the file system
    rc,         \* how the exec ended
    mem,        \* contents of memory since the exec began
    user,       \* pages with the user bit
    readonly,   \* pages without the write bit
    sp,         \* the stack pointer of the new program
    args,       \* number of its argument and environment strings
    left        \* strings, then words, still to be pushed

vars == <<file, stage, pc, slot, i, done, open, rc, mem, user, readonly, sp,
          args, left>>
----------------------------------------------------------------------------
(* Steps. *)

\* After usermode_init: an identity map of writable pages, both stacks open.
Init ==
    /\ file \in Files /\ file \in File
    /\ stage = "validate" /\ pc = "idle" /\ slot = "none"
    /\ i = 1 /\ done = 0 /\ open = FALSE /\ rc = "none"
    /\ mem = [a \in Watched |-> Old]
    /\ user = UNION {PageSpan(StackMin(s), StackTop(s)) : s \in Slots}
    /\ readonly = {}
    /\ sp = 0 /\ args = 0 /\ left = 0

\* The exec gives up: the file, if open, is closed.
Leave(e) ==
    /\ rc' = e /\ pc' = "idle" /\ open' = FALSE
    /\ UNCHANGED <<file, stage, slot, i, done, mem, user, readonly, sp, args, left>>

\* An exec is refused at once when too many are nested.
Start ==
    /\ pc = "idle"
    /\ \/ Leave("enospc")
       \/ /\ file' \in Files /\ file' \in File
          /\ pc' = "stat" /\ stage' = "validate" /\ slot' = "none" /\ rc' = "none"
          /\ mem' = [a \in Watched |-> Old]
          /\ UNCHANGED <<i, done, open, user, readonly, sp, args, left>>

Stat ==
    /\ pc = "stat"
    /\ \/ \E e \in {"enoent", "einval"} : Leave(e)
       \/ file.size > MaxFileSize /\ Leave("enospc")
       \/ /\ file.size <= MaxFileSize
          /\ open' = TRUE /\ pc' = "header"
          /\ UNCHANGED <<file, stage, slot, i, done, rc, mem, user, readonly, sp, args, left>>

ReadHeader ==
    /\ pc = "header"
    /\ \/ Leave("einval")
       \/ file.size >= HeaderSize /\ ~HeaderOK(file) /\ Leave("enoexec")
       \/ /\ file.size >= HeaderSize /\ HeaderOK(file)
          /\ pc' = "table"
          /\ UNCHANGED <<file, stage, slot, i, done, open, rc, mem, user, readonly, sp, args, left>>

\* The program headers are read, the file closed, and the table validated.
ReadTable ==
    /\ pc = "table"
    /\ \/ Leave("einval")
       \/ ~SegmentTableOK(file) /\ Leave("enoexec")
       \/ /\ SegmentTableOK(file)
          /\ open' = FALSE
          /\ pc' = IF stage = "validate" THEN "slot" ELSE "open"
          /\ UNCHANGED <<file, stage, slot, i, done, rc, mem, user, readonly, sp, args, left>>

\* A shell image is refused while another program runs.
ChooseSlot ==
    /\ pc = "slot"
    /\ \/ /\ \/ ImageFitsSlot(file, "program") /\ slot' = "program"
             \/ /\ ~ImageFitsSlot(file, "program") /\ ImageFitsSlot(file, "shell")
                /\ slot' = "shell"
          /\ pc' = "stat" /\ stage' = "load"
          /\ UNCHANGED <<file, i, done, open, rc, mem, user, readonly, sp, args, left>>
       \/ /\ ~ImageFitsSlot(file, "program") /\ ImageFitsSlot(file, "shell")
          /\ Leave("enospc")
       \/ /\ ~ImageFitsSlot(file, "program") /\ ~ImageFitsSlot(file, "shell")
          /\ Leave("enoexec")

OpenFile ==
    /\ pc = "open"
    /\ \/ \E e \in {"enoent", "einval"} : Leave(e)
       \/ /\ open' = TRUE /\ pc' = "segment" /\ i' = 1
          /\ UNCHANGED <<file, stage, slot, done, rc, mem, user, readonly, sp, args, left>>

CheckSegment ==
    /\ pc = "segment" /\ i <= Len(file.segs)
    /\ IF SegmentFits(file.segs[i], slot) /\ "other" \notin file.segs[i].flags
       THEN /\ pc' = "copy" /\ done' = 0
            /\ UNCHANGED <<file, stage, slot, i, open, rc, mem, user, readonly, sp, args, left>>
       ELSE Leave("enoexec")

\* One read of at most a chunk, straight into the program's memory.
CopyChunk ==
    /\ pc = "copy" /\ done < file.segs[i].filesz
    /\ \/ Leave("einval")
       \/ \E got \in 1 .. Chunk :
            /\ got <= file.segs[i].filesz - done
            /\ mem' = [a \in Watched |->
                         IF a \in file.segs[i].vaddr + done
                                     .. file.segs[i].vaddr + done + got - 1
                         THEN file.segs[i].offset + (a - file.segs[i].vaddr)
                         ELSE mem[a]]
            /\ done' = done + got
            /\ UNCHANGED <<file, stage, pc, slot, i, open, rc, user, readonly, sp, args, left>>

ClearRest ==
    /\ pc = "copy" /\ done >= file.segs[i].filesz
    /\ mem' = [a \in Watched |->
                 IF a \in file.segs[i].vaddr + file.segs[i].filesz
                             .. file.segs[i].vaddr + file.segs[i].memsz - 1
                 THEN Zero ELSE mem[a]]
    /\ pc' = "segment" /\ i' = i + 1
    /\ UNCHANGED <<file, stage, slot, done, open, rc, user, readonly, sp, args, left>>

EndLoad ==
    /\ pc = "segment" /\ i > Len(file.segs)
    /\ IF EntryExecutable(file)
       THEN /\ open' = FALSE /\ pc' = "map" /\ i' = 1
            /\ UNCHANGED <<file, stage, slot, done, rc, mem, user, readonly, sp, args, left>>
       ELSE Leave("enoexec")

\* paging_core_set_user_range refuses an empty range.
MapSegment ==
    /\ pc = "map" /\ i <= Len(file.segs)
    /\ LET g == file.segs[i]
           to == Plus(g.vaddr, g.memsz)
       IN  IF g.vaddr >= to \/ to > IdentityLimit
           THEN Leave("eio")
           ELSE /\ user' = user \cup PageSpan(g.vaddr, to)
                /\ readonly' = IF "w" \in g.flags
                               THEN readonly \ PageSpan(g.vaddr, to)
                               ELSE readonly \cup PageSpan(g.vaddr, to)
                /\ i' = i + 1
                /\ UNCHANGED <<file, stage, pc, slot, done, open, rc, mem, sp, args, left>>

CountStrings ==
    /\ pc = "map" /\ i > Len(file.segs)
    /\ \/ Leave("e2big")
       \/ \E argc \in 1 .. ArgMax, envc \in 0 .. EnvMax :
            /\ args' = argc + envc /\ left' = argc + envc
            /\ sp' = StackTop(slot) /\ pc' = "strings"
            /\ UNCHANGED <<file, stage, slot, i, done, open, rc, mem, user, readonly>>

\* What a push of n bytes leaves in memory.
PushedBelow(n) == [a \in Watched |-> IF a \in sp - n .. sp - 1 THEN Pushed ELSE mem[a]]

CopyStackString ==
    /\ pc = "strings" /\ left > 0
    /\ \/ Leave("e2big")
       \/ \E len \in 1 .. StringMax :
            IF sp < StackMin(slot) + len
            THEN Leave("enospc")
            ELSE /\ mem' = PushedBelow(len)
                 /\ sp' = sp - len /\ left' = left - 1
                 /\ UNCHANGED <<file, stage, pc, slot, i, done, open, rc, user, readonly, args>>

\* The two vectors, a zero behind each, and argc in front.
AlignStack ==
    /\ pc = "strings" /\ left = 0
    /\ sp' = sp - (sp % 4) /\ left' = args + 3 /\ pc' = "words"
    /\ UNCHANGED <<file, stage, slot, i, done, open, rc, mem, user, readonly, args>>

PushWord ==
    /\ pc = "words" /\ left > 0
    /\ IF sp < StackMin(slot) + 4
       THEN Leave("enospc")
       ELSE /\ mem' = PushedBelow(4)
            /\ sp' = sp - 4 /\ left' = left - 1
            /\ UNCHANGED <<file, stage, pc, slot, i, done, open, rc, user, readonly, args>>

\* The program is entered unless process_core_spawn_exec finds no free slot.
Enter ==
    /\ pc = "words" /\ left = 0
    /\ \/ Leave("enospc")
       \/ /\ rc' = "ok" /\ pc' = "idle"
          /\ UNCHANGED <<file, stage, slot, i, done, open, mem, user, readonly, sp, args, left>>

Next ==
    \/ Start \/ Stat \/ ReadHeader \/ ReadTable \/ ChooseSlot \/ OpenFile
    \/ CheckSegment \/ CopyChunk \/ ClearRest \/ EndLoad \/ MapSegment
    \/ CountStrings \/ CopyStackString \/ AlignStack \/ PushWord \/ Enter

Spec == Init /\ [][Next]_vars
----------------------------------------------------------------------------
(* Properties. *)

\* The types of the variables: memory holds old bytes, cleared ones, stack
\* bytes and bytes the file has (no read of sprg_core_load_file is past its end).
TypeOK ==
    /\ file \in File
    /\ stage \in {"validate", "load"}
    /\ pc \in {"idle", "stat", "header", "table", "slot", "open", "segment",
               "copy", "map", "strings", "words"}
    /\ slot \in Slots \cup {"none"}
    /\ i \in Nat /\ done \in Nat /\ open \in BOOLEAN
    /\ rc \in {"none", "ok", "enoent", "einval", "enospc", "enoexec", "eio", "e2big"}
    /\ mem \in [Watched -> {Old, Zero, Pushed} \cup (0 .. file.size - 1)]
    /\ user \in SUBSET Nat /\ readonly \in SUBSET Nat
    /\ sp \in Nat /\ args \in Nat /\ left \in Nat

\* Whatever the file says and wherever the exec gives up, sprg_core_load_file
\* and build_initial_stack write only into the chosen slot: the program into
\* its program range, the strings and vectors into its stack range.
StaysInSlot ==
    \A a \in Watched :
        /\ mem[a] # Old => slot \in Slots
        /\ mem[a] \in Nat \cup {Zero} => ProgramMin(slot) <= a /\ a < ProgramMax(slot)
        /\ mem[a] = Pushed => StackMin(slot) <= a /\ a < StackTop(slot)

\* Byte number a - vaddr of segment g: a byte of the file or a cleared one.
SegmentByte(g, a) ==
    IF a < g.vaddr + g.filesz THEN g.offset + (a - g.vaddr) ELSE Zero

\* A program that is entered finds every one of its segments whole: neither
\* another segment nor the stack built after them has overwritten a byte, and
\* its entry point lies in a segment marked executable.
ImageComplete ==
    rc = "ok" =>
        /\ \A k \in 1 .. Len(file.segs), a \in Watched :
              LET g == file.segs[k]
              IN  a \in g.vaddr .. g.vaddr + g.memsz - 1 => mem[a] = SegmentByte(g, a)
        /\ EntryExecutable(file)

\* A program that is entered can reach every page of its segments, and may
\* write a page just when the last segment that touches it is writable.
ImageMapped ==
    rc = "ok" =>
        \A k \in 1 .. Len(file.segs) :
            LET span(n) == PageSpan(file.segs[n].vaddr,
                                    file.segs[n].vaddr + file.segs[n].memsz)
            IN  /\ span(k) \subseteq user
                /\ \A p \in span(k) :
                      (\A j \in k + 1 .. Len(file.segs) : p \notin span(j)) =>
                          (p \notin readonly <=> "w" \in file.segs[k].flags)

\* However many programs have been executed, and whatever they asked for, user
\* mode can reach the slots and their stacks and no page of the kernel.
KernelPagesClosed ==
    user \subseteq PageSpan(ProgramMin("program"), StackTop("shell"))

\* No way out of the exec leaves the program's file open in the file system.
FileClosed == pc \in {"idle", "slot", "map", "strings", "words"} => ~open

\* The stack pointer stays inside the slot's stack range while the strings and
\* the vectors are pushed, and the program is entered with it aligned.
StackInside ==
    /\ pc \in {"strings", "words"} => StackMin(slot) <= sp /\ sp <= StackTop(slot)
    /\ rc = "ok" => sp % 4 = 0 /\ StackMin(slot) <= sp /\ sp < StackTop(slot)

\* Executing a command changes neither a byte of the shell's slot nor the
\* permissions of its pages.
ShellUntouched ==
    [][slot' = "program" =>
        /\ \A a \in Watched : a >= ProgramMin("shell") => mem'[a] = mem[a]
        /\ \A p \in PageSpan(ProgramMin("shell"), StackTop("shell")) :
              (p \in user' <=> p \in user) /\ (p \in readonly' <=> p \in readonly)]_vars
=============================================================================
