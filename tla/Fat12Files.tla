------------------------------ MODULE Fat12Files ------------------------------
(***************************************************************************)
(* Open files on the mounted root: the open-file slots of the FAT12 driver *)
(* (src/src/kernel/core/fs/fat12_core.c) and of the ISO 9660 driver        *)
(* (src/src/kernel/core/fs/iso9660_core.c), reached through the offsets of *)
(* open-file descriptions (src/src/kernel/core/posix/fd_core.c).           *)
(*                                                                         *)
(* A slot remembers the first cluster and the size that the directory gave *)
(* when the file was opened, or when this slot last wrote it.  It remembers*)
(* the file by the path it was opened with, and names that differ in case  *)
(* are one entry on the disk.  The unit of data is a sector, a cluster is  *)
(* one sector, and a driver call is one step: Fat12Disk looks into those   *)
(* that write.                                                             *)
(***************************************************************************)
EXTENDS Integers, Sequences, SequencesExt, FiniteSets, FiniteSetsExt

CONSTANTS
    Names,        \* names as programs spell them
    Fold,         \* Fold[n]: the name in the directory entry
    ClusterCount, \* clusters of the volume
    Slots,        \* as many as FAT12_OPEN_FILE_CAP or ISO9660_OPEN_FILE_CAP
    Ofds,         \* as many as POSIX_OFD_CAP
    WriteCap,     \* FAT12_WRITE_BUFFER_CAP, in sectors
    MaxSeek,      \* bound on the offsets programs seek to
    Data,         \* contents of a sector
    OpenFlags,    \* the mode and the CREAT, TRUNC and APPEND flags programs open with
    IsoImage      \* IsoImage[f]: extent and size of a file of the CD

ASSUME Fat12FilesAssumption ==
    /\ Fold \in [Names -> STRING] /\ ClusterCount \in Nat \ {0} /\ WriteCap \in Nat \ {0} /\ MaxSeek \in Nat
    /\ OpenFlags \subseteq [mode : {"r", "w", "rw"}, creat : BOOLEAN, trunc : BOOLEAN, append : BOOLEAN]

Clusters == 2 .. ClusterCount + 1
Files == {Fold[n] : n \in Names}
FREE == 0
EOC == 4095

VARIABLES
    medium, \* g_media_kind
    ent,    \* the directory
    next,   \* the allocation table
    val,    \* what the clusters hold
    slot,   \* g_fat12_open_files or g_iso_open_files
    ofd     \* g_descriptions

vars == <<medium, ent, next, val, slot, ofd>>

NoEntry == [kind |-> "none", first |-> 0, size |-> 0]
FileEntry(c, n) == [kind |-> "file", first |-> c, size |-> n]

\* stale: the file was changed behind this slot's back.
NoSlot == [used |-> FALSE, path |-> "", mode |-> "r", cluster |-> 0, size |-> 0, stale |-> FALSE]
\* lost: the slot was released, or closed by another, under this description.
NoOfd == [used |-> FALSE, path |-> "", mode |-> "r", append |-> FALSE, node |-> "none", off |-> 0, lost |-> FALSE]

\* A blank floppy, or a CD with its files.
Init ==
    /\ medium \in {"fat12", "iso9660"}
    /\ ent = [f \in Files |-> IF medium = "fat12" THEN NoEntry
                              ELSE FileEntry(IsoImage[f].first, IsoImage[f].size)]
    /\ next = [c \in Clusters |-> FREE]
    /\ val \in IF medium = "fat12" THEN {[c \in Clusters |-> "zero"]} ELSE [Clusters -> Data]
    /\ slot = [i \in Slots |-> NoSlot]
    /\ ofd = [d \in Ofds |-> NoOfd]
-----------------------------------------------------------------------------
(* Chains, and the whole-file operations of the FAT12 driver.              *)

\* The clusters from c on, by the table t.
ChainOf(t, c) ==
    LET w[n \in 0 .. ClusterCount] ==
            IF n = 0 THEN IF c \in Clusters THEN <<c>> ELSE <<>>
            ELSE LET v == w[n - 1]
                 IN  IF Len(v) = n /\ t[v[n]] \in Clusters THEN Append(v, t[v[n]]) ELSE v
    IN  w[ClusterCount - 1]

\* Mutant: the chain stays allocated.
FreedNothing(c) == next

\* The table after fat12_core_dev_free_cluster_chain.
Freed(c) ==
    LET gone == Range(ChainOf(next, c)) IN [x \in Clusters |-> IF x \in gone THEN FREE ELSE next[x]]

\* fat12_read_file, for an entry that names a file.
Content(f) ==
    LET at == IF medium = "fat12" THEN ChainOf(next, ent[f].first)
              ELSE [k \in 1 .. ent[f].size |-> ent[f].first + k - 1]
    IN  [k \in 1 .. ent[f].size |-> val[at[k]]]

Exists(n) == ent[Fold[n]].kind = "file"

\* fat12_core_write_file_on_device: the old chain is freed, then clusters are taken
\* first fit and filled one by one; when they run out the file is left empty.
WriteFile(f, s) ==
    LET t == Freed(ent[f].first)
        free == {c \in Clusters : t[c] = FREE}
        rank(c) == Cardinality({b \in free : b <= c})
        enough == Len(s) <= Cardinality(free)
        used == {c \in free : rank(c) <= Len(s)}
    IN  /\ val' = [c \in Clusters |-> IF c \in used THEN s[rank(c)] ELSE val[c]]
        /\ next' = [c \in Clusters |-> IF ~enough \/ c \notin used THEN t[c]
                                       ELSE IF rank(c) = Len(s) THEN EOC ELSE Min({b \in free : b > c})]
        /\ ent' = [ent EXCEPT ![f] = IF enough THEN FileEntry(IF s = <<>> THEN 0 ELSE Min(free), Len(s))
                                     ELSE IF @.kind = "file" THEN FileEntry(0, 0) ELSE @]

\* The slots of S with every one on file f but i marked.
Overtake(S, f, i) ==
    [j \in Slots |-> IF S[j].used /\ j # i /\ Fold[S[j].path] = f
                            THEN [S[j] EXCEPT !.stale = TRUE] ELSE S[j]]

FreeSlots == {i \in Slots : ~slot[i].used}
FreeOfds == {d \in Ofds : ~ofd[d].used}
-----------------------------------------------------------------------------
(* Opening and closing. *)

\* What the descriptor layer keeps of an open that succeeded.
Describe(n, flags, i, size) ==
    [used |-> TRUE, path |-> n, mode |-> flags.mode, append |-> flags.append, node |-> i,
     off |-> IF flags.append THEN size ELSE 0, lost |-> FALSE]

\* fat12_open and fd_core_open.  The file is created or truncated before it is
\* known whether there is room for a slot and a description.  Which free slot and
\* which free description are taken (the first ones) is left open: nothing depends
\* on their numbers.
Fat12Open(n, flags) ==
    LET f == Fold[n]
        touch == flags.trunc \/ ~Exists(n)
        c == IF touch THEN 0 ELSE ent[f].first
        z == IF touch THEN 0 ELSE ent[f].size
        S == IF touch THEN Overtake(slot, f, "none") ELSE slot
    IN  /\ medium = "fat12"
        /\ Exists(n) \/ (flags.creat /\ flags.mode # "r")
        /\ flags.trunc => flags.mode # "r"
        /\ IF touch THEN WriteFile(f, <<>>) ELSE UNCHANGED <<ent, next, val>>
        /\ \/ (FreeSlots = {} \/ FreeOfds = {}) /\ slot' = S /\ ofd' = ofd
           \/ \E i \in FreeSlots, d \in FreeOfds :
                 /\ slot' = [S EXCEPT ![i] = [used |-> TRUE, path |-> n, mode |-> flags.mode,
                                              cluster |-> c, size |-> z, stale |-> FALSE]]
                 /\ ofd' = [ofd EXCEPT ![d] = Describe(n, flags, i, z)]
        /\ UNCHANGED medium

\* iso_open: nothing but reading.
IsoOpen(n, flags) ==
    LET e == ent[Fold[n]]
    IN  /\ medium = "iso9660" /\ flags.mode = "r" /\ ~flags.creat /\ ~flags.trunc /\ ~flags.append
        /\ \E i \in FreeSlots, d \in FreeOfds :
              /\ slot' = [slot EXCEPT ![i] = [used |-> TRUE, path |-> n, mode |-> flags.mode,
                                              cluster |-> e.first, size |-> e.size, stale |-> FALSE]]
              /\ ofd' = [ofd EXCEPT ![d] = Describe(n, flags, i, e.size)]
        /\ UNCHANGED <<medium, ent, next, val>>

\* The descriptions, those that stand for a slot of I told that it is gone.
Lose(I) == [d \in Ofds |-> IF ofd[d].used /\ ofd[d].node \in I
                                  THEN [ofd[d] EXCEPT !.lost = TRUE, !.path = ""] ELSE ofd[d]]

\* Mutant: the slot stays taken.
CloseKeepsSlot(d) ==
    /\ ofd[d].used
    /\ ofd' = [ofd EXCEPT ![d] = NoOfd]
    /\ UNCHANGED <<medium, ent, next, val, slot>>

\* The last fd_core_close of a description: fat12_close or iso_close clears the slot
\* of that number, whoever has it now.
Close(d) ==
    /\ ofd[d].used
    /\ slot' = [slot EXCEPT ![ofd[d].node] = NoSlot]
    /\ ofd' = [Lose({ofd[d].node}) EXCEPT ![d] = NoOfd]
    /\ UNCHANGED <<medium, ent, next, val>>

\* fat12_unlink: the slots with exactly this path are released, and stay named by
\* their descriptions.
Unlink(n) ==
    LET gone == {i \in Slots : slot[i].used /\ slot[i].path = n}
    IN  /\ medium = "fat12" /\ Exists(n)
        /\ ent' = [ent EXCEPT ![Fold[n]] = NoEntry]
        /\ next' = Freed(ent[Fold[n]].first)
        /\ slot' = Overtake([i \in Slots |-> IF i \in gone THEN NoSlot ELSE slot[i]], Fold[n], "none")
        /\ ofd' = Lose(gone)
        /\ UNCHANGED <<medium, val>>
-----------------------------------------------------------------------------
(* Reading and writing through a description. *)

\* fat12_read: n sectors from offset o by the slot's own cluster and size; the
\* result is in a set, empty when the chain ends too early.
Fat12Read(i, o, n) ==
    LET chain == ChainOf(next, slot[i].cluster)
        m == Max({0, Min({n, slot[i].size - o})})
    IN  IF m > 0 /\ Len(chain) < o + m THEN {} ELSE {[k \in 1 .. m |-> val[chain[o + k]]]}

\* iso_read: a file of a CD is in one piece.
IsoRead(i, o, n) ==
    LET m == Max({0, Min({n, slot[i].size - o})})
    IN  {[k \in 1 .. m |-> val[slot[i].cluster + o + k - 1]]}

ReadSlot(i, o, n) == IF medium = "fat12" THEN Fat12Read(i, o, n) ELSE IsoRead(i, o, n)

\* fd_core_read: the offset moves by what was read.
Read(d, n) ==
    /\ ofd[d].used /\ ofd[d].mode # "w" /\ slot[ofd[d].node].used
    /\ \E data \in ReadSlot(ofd[d].node, ofd[d].off, n) :
          ofd' = [ofd EXCEPT ![d].off = @ + Len(data)]
    /\ UNCHANGED <<medium, ent, next, val, slot>>

\* Mutant: a gap keeps what an earlier call left in the write buffer.
OverlayUncleared(s, o, u) ==
    [k \in 1 .. Max({Len(s), o + 1}) |-> IF k <= Len(s) /\ k # o + 1 THEN s[k] ELSE u]

\* s with u at offset o, and zeros between its end and o.
Overlay(s, o, u) ==
    [k \in 1 .. Max({Len(s), o + 1}) |-> IF k = o + 1 THEN u ELSE IF k <= Len(s) THEN s[k] ELSE "zero"]

\* What fat12_write starts from: the file as it is now, but nothing when the slot
\* thinks the file is empty.
Base(i) == IF slot[i].size = 0 THEN <<>> ELSE Content(Fold[slot[i].path])

\* Mutant: the slot keeps the cluster it knew.
SlotAfterWriteKeepsCluster(i, f) == [slot[i] EXCEPT !.size = ent'[f].size, !.stale = FALSE]

\* After a good write the slot has the new cluster and size.
SlotAfterWrite(i, f) ==
    [slot[i] EXCEPT !.cluster = ent'[f].first, !.size = ent'[f].size, !.stale = FALSE]

\* fat12_write of one sector at offset o through slot i of description d.  On a full
\* disk the file is emptied and the slot keeps its cluster.
Fat12Write(d, i, o, u) ==
    LET f == Fold[slot[i].path]
        s == Overlay(Base(i), o, u)
        fits == Len(s) <= Cardinality({c \in Clusters : Freed(ent[f].first)[c] = FREE})
        other == Overtake(slot, f, i)
    IN  /\ o + 1 <= WriteCap /\ (slot[i].size # 0 => ent[f].kind = "file")
        /\ WriteFile(f, s)
        /\ slot' = [other EXCEPT ![i] = IF fits THEN SlotAfterWrite(i, f)
                                        ELSE [slot[i] EXCEPT !.size = Len(Base(i)), !.stale = TRUE]]
        /\ ofd' = [ofd EXCEPT ![d].off = IF fits THEN o + 1 ELSE o]

\* fd_core_write: an appending description goes to the end its slot knows first,
\* and stays there when the write is refused.
Write(d, u) ==
    LET i == ofd[d].node
        o == IF ofd[d].append THEN slot[i].size ELSE ofd[d].off
    IN  /\ ofd[d].used /\ ofd[d].mode # "r" /\ slot[i].used
        /\ \/ slot[i].mode # "r" /\ Fat12Write(d, i, o, u)
           \/ /\ slot[i].mode = "r" \/ o + 1 > WriteCap
                 \/ (slot[i].size # 0 /\ ent[Fold[slot[i].path]].kind # "file")
              /\ ofd' = [ofd EXCEPT ![d].off = o] /\ UNCHANGED <<ent, next, val, slot>>
        /\ UNCHANGED medium

\* fd_core_lseek.
Lseek(d, o) ==
    /\ ofd[d].used /\ ofd[d].off # o
    /\ ofd' = [ofd EXCEPT ![d].off = o]
    /\ UNCHANGED <<medium, ent, next, val, slot>>

Next ==
    \/ \E n \in Names, flags \in OpenFlags : Fat12Open(n, flags) \/ IsoOpen(n, flags)
    \/ \E n \in Names : Unlink(n)
    \/ \E d \in Ofds :
          \/ Close(d)
          \/ \E n \in 1 .. 2 : Read(d, n)
          \/ \E u \in Data : Write(d, u)
          \/ \E o \in 0 .. MaxSeek : Lseek(d, o)

Spec == Init /\ [][Next]_vars
-----------------------------------------------------------------------------
(* Properties. *)

\* Types; a used slot has a path.
TypeOK ==
    /\ \A f \in Files : ent[f].first \in Clusters \cup {0} /\ ent[f].size \in 0 .. WriteCap
    /\ next \in [Clusters -> Clusters \cup {FREE, EOC}]
    /\ val \in [Clusters -> Data \cup {"zero"}]
    /\ \A i \in Slots : slot[i].used => slot[i].path \in Names
    /\ \A d \in Ofds : ofd[d].used => ofd[d].node \in Slots /\ ofd[d].off \in 0 .. Max({WriteCap, MaxSeek})

\* A slot that nobody has overtaken reads the file as the directory has it: its
\* cluster and size are right after any sequence of its own writes and of what is
\* done to other files, which move clusters about.
FreshReads ==
    \A i \in Slots :
        slot[i].used /\ ~slot[i].stale =>
            Exists(slot[i].path) /\ ReadSlot(i, 0, ent[Fold[slot[i].path]].size) = {Content(Fold[slot[i].path])}

\* The clusters in use are those of the files' chains, which are as long as the
\* files and share none.  The types hold.
SpaceExact ==
    /\ TypeOK
    /\ medium = "fat12" =>
        /\ \A f \in Files : Len(ChainOf(next, ent[f].first)) = ent[f].size
        /\ \A f, g \in Files : f # g =>
              Range(ChainOf(next, ent[f].first)) \cap Range(ChainOf(next, ent[g].first)) = {}
        /\ {c \in Clusters : next[c] # FREE} = UNION {Range(ChainOf(next, ent[f].first)) : f \in Files}

\* A description whose slot was not taken from it by an unlink stands for the file it
\* was opened on, alone, and no slot stays behind without a description.
SlotsOwned ==
    /\ \A d \in Ofds : ofd[d].used /\ ~ofd[d].lost =>
          LET s == slot[ofd[d].node] IN s.used /\ s.path = ofd[d].path /\ s.mode = ofd[d].mode
    /\ \A i \in Slots : slot[i].used =>
          Cardinality({d \in Ofds : ofd[d].used /\ ~ofd[d].lost /\ ofd[d].node = i}) = 1

Text(f) == IF ent[f].kind = "file" THEN <<Content(f)>> ELSE <<>>

\* new is old with one sector written at some offset, and zeros in the gap.
OneWrite(old, new) ==
    \E k \in DOMAIN new :
        /\ new[k] \in Data /\ Len(new) = Max({Len(old), k})
        /\ \A j \in DOMAIN new \ {k} : new[j] = IF j <= Len(old) THEN old[j] ELSE "zero"

\* A step changes one file at most, and by one write at one offset: what it leaves
\* is the old content with the sector written and a gap filled with zeros, or nothing.
\* Only a slot that takes a file for empty which is so no more drops its content.
FilesChangeByWrites ==
    [][\A f \in Files : Text(f)' # Text(f) =>
          /\ \A g \in Files \ {f} : Text(g)' = Text(g)
          /\ \/ Text(f)' \in {<<>>, <<<<>>>>}
             \/ ent[f].kind = "file" /\ OneWrite(Content(f), Content(f)')
             \/ /\ \E i \in Slots : /\ slot[i].used /\ slot[i].size = 0
                                    /\ Fold[slot[i].path] = f /\ slot[i].stale
                /\ OneWrite(<<>>, Content(f)')]_<<ent, next, val>>
=============================================================================
