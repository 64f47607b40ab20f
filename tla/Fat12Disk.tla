------------------------------ MODULE Fat12Disk ------------------------------
(***************************************************************************)
(* A writable FAT12 floppy as the operations of                            *)
(* src/src/kernel/core/fs/fat12_core.c change it, one sector write at a    *)
(* time, below them the RAM copies of the boot loader's sectors that       *)
(* src/src/kernel/core/fs/fs_core.c keeps.                                 *)
(*                                                                         *)
(* The first allocation table and the root directory are read from RAM and *)
(* written to RAM and then to the disk; the second table and the clusters  *)
(* are read and written on the disk.  A cluster is one sector, of data or  *)
(* of directory entries; a name is an 8.3 name.  Any transfer may fail, and *)
(* then leaves the sector on the disk as it was, and the machine may be    *)
(* switched off between two transfers.                                     *)
(***************************************************************************)
EXTENDS Fat12Entry, Sequences, SequencesExt, FiniteSets, FiniteSetsExt

CONSTANTS
    ClusterCount, \* fat12_dev_total_clusters
    SectorBytes,  \* bytes of a sector of the table (512)
    RootSlots,    \* entries of the root directory
    SectorSlots,  \* entries in one of its sectors (16)
    DirSlots,     \* entries of a directory of one cluster
    Paths,        \* the paths asked for: sequences of one or two names
    Data,         \* contents of a sector
    MaxSectors,   \* longest file written
    MaxFaults,    \* failed transfers and power losses
    NoFile, Directory, Unknown

ASSUME Fat12DiskAssumption ==
    /\ ClusterCount \in 1 .. 4085 /\ SectorBytes \in Nat \ {0}
    /\ RootSlots \in Nat \ {0} /\ SectorSlots \in Nat \ {0} /\ DirSlots \in Nat /\ DirSlots >= 2
    /\ MaxSectors \in Nat /\ MaxFaults \in Nat

VARIABLES
    fat,    \* the two tables on the disk
    fatRam, \* info->fat_addr: the first table in RAM
    root,   \* the root directory on the disk
    rootRam,\* info->root_dir_addr: the root directory in RAM
    block,  \* the clusters on the disk
    op,     \* the operation in progress
    last,   \* the last operation that returned FS_OK, if none started since
    faults, \* failed transfers and power losses so far
    dirty,  \* a transfer has failed since the loader read the copies
    exposed \* what faults have put in doubt: "chains" and "names"

vars == <<fat, fatRam, root, rootRam, block, op, last, faults, dirty, exposed>>

Clusters == 2 .. ClusterCount + 1
TableBytes == 0 .. Offset(ClusterCount + 1) + 1
Contents == SeqOf(Data, MaxSectors)

-----------------------------------------------------------------------------
(* Directory entries. *)

Entry(kind, name, cluster, size) == [kind |-> kind, name |-> name, cluster |-> cluster, size |-> size]
FreeEntry == Entry("free", "", 0, 0)
DeletedEntry == Entry("deleted", "", 0, 0)
Live(e) == e.kind \in {"file", "dir"}

ZeroBlock == [data |-> "zero", ent |-> [i \in 0 .. DirSlots - 1 |-> FreeEntry]]
DataBlock(d) == [ZeroBlock EXCEPT !.data = d]

\* The entries of the directory whose first cluster is d; 0 is the root.
DirOf(r, d) == IF d = 0 THEN r ELSE block[d].ent

\* fat12_dev_find_entry: the scan ends at the first entry that was never used.
Find(dir, name) ==
    LET S == {i \in DOMAIN dir : /\ Live(dir[i]) /\ dir[i].name = name
                                 /\ \A j \in DOMAIN dir : j < i => dir[j] # FreeEntry}
    IN  IF S = {} THEN {} ELSE {Min(S)}

\* fat12_dev_find_free_entry: directories do not grow.
FindFree(dir) ==
    LET S == {i \in DOMAIN dir : ~Live(dir[i])} IN IF S = {} THEN {} ELSE {Min(S)}

\* fat12_dev_resolve_dir: the first cluster of the directory that holds p.
ParentDir(r, p) ==
    IF Len(p) = 1 THEN {0}
    ELSE {DirOf(r, 0)[i].cluster : i \in {j \in Find(r, p[1]) : r[j].kind = "dir"}}

Leaf(p) == p[Len(p)]

-----------------------------------------------------------------------------
(* Chains and contents, as a reader of table f and root r finds them.      *)

\* fat12_get_next_cluster from c on: the clusters passed and the value that ends
\* the chain.
Walk(f, c) ==
    LET w[n \in 0 .. ClusterCount] ==
            IF n = 0 THEN <<c>>
            ELSE IF w[n - 1][Len(w[n - 1])] \in Clusters
                 THEN Append(w[n - 1], GetEntry(f, w[n - 1][Len(w[n - 1])]))
                 ELSE w[n - 1]
    IN  w[ClusterCount]

Chain(f, c) == SelectSeq(Walk(f, c), LAMBDA x : x \in Clusters)

\* fat12_read_file: a chain that ends before the size is an error.
FileData(f, e) ==
    LET ch == Chain(f, e.cluster)
    IN  IF Len(ch) < e.size THEN Unknown ELSE [k \in 1 .. e.size |-> block[ch[k]].data]

\* Where the entry of p is: <<directory, slot>>, if it is anywhere.
Lookup(r, p) == UNION {{<<d, i>> : i \in Find(DirOf(r, d), Leaf(p))} : d \in ParentDir(r, p)}

Content(f, r, p) ==
    LET found == {DirOf(r, x[1])[x[2]] : x \in Lookup(r, p)}
    IN  CASE found = {} -> NoFile
          [] \E e \in found : e.kind = "dir" -> Directory
          [] OTHER -> FileData(f, CHOOSE e \in found : TRUE)

-----------------------------------------------------------------------------
Idle == [kind |-> "none", pc |-> "idle", path |-> <<>>, dir |-> 0, slot |-> 0, old |-> 0,
         have |-> FALSE,
         left |-> <<>>, want |-> NoFile, was |-> NoFile, c |-> 0, first |-> 0, prev |-> 0,
         then |-> "done", todo |-> <<>>]

NoResult == [path |-> <<>>, want |-> NoFile]

\* A formatted floppy in the state the loader leaves: the RAM copies are fresh.
Init ==
    /\ fat = [k \in {1, 2} |-> [b \in TableBytes |-> 0]] /\ fatRam = fat[1]
    /\ root = [i \in 0 .. RootSlots - 1 |-> FreeEntry] /\ rootRam = root
    /\ block = [c \in Clusters |-> ZeroBlock]
    /\ op = Idle /\ last = NoResult /\ faults = 0 /\ dirty = FALSE /\ exposed = {}
-----------------------------------------------------------------------------
(* Sector writes. *)

\* fat12_dev_set_fat_entry: each table in turn; an entry whose two bytes lie in
\* two sectors takes two writes.
FatWrites(c, v) ==
    LET parts == IF Offset(c) % SectorBytes = SectorBytes - 1 THEN <<"low", "high">> ELSE <<"both">>
        W(k) == [i \in DOMAIN parts |-> [to |-> "fat", table |-> k, c |-> c, v |-> v, part |-> parts[i]]]
    IN  W(1) \o W(2)

\* fat12_dev_write_entry, and the mark of a deleted entry.
EntryWrite(d, i, e) == <<[to |-> "entry", dir |-> d, slot |-> i, entry |-> e]>>

\* fat12_dev_zero_sector, and a sector of file data.
BlockWrite(c, b) == <<[to |-> "block", c |-> c, b |-> b]>>

\* The table with the bytes of write w changed, and the sector w goes to.
Changed(f, w) ==
    CASE w.part = "low" -> PutLow(f, w.c, w.v)
      [] w.part = "high" -> PutHigh(f, w.c, w.v)
      [] OTHER -> SetEntry(f, w.c, w.v)

TableSector(w) == (Offset(w.c) + IF w.part = "high" THEN 1 ELSE 0) \div SectorBytes

\* Mutant: RAM is updated only.
TransferToRamOnly(w, ok) ==
    CASE w.to = "fat" ->
           /\ fatRam' = IF w.table = 1 THEN Changed(fatRam, w) ELSE fatRam
           /\ fat' = IF w.table = 2 /\ ok THEN [fat EXCEPT ![2] = Changed(@, w)] ELSE fat
           /\ UNCHANGED <<root, rootRam, block>>
      [] w.to = "entry" /\ w.dir = 0 ->
           /\ rootRam' = [rootRam EXCEPT ![w.slot] = w.entry]
           /\ UNCHANGED <<fat, fatRam, root, block>>
      [] OTHER ->
           /\ block' = IF ~ok THEN block
                       ELSE IF w.to = "entry" THEN [block EXCEPT ![w.dir].ent[w.slot] = w.entry]
                       ELSE [block EXCEPT ![w.c] = w.b]
           /\ UNCHANGED <<fat, fatRam, root, rootRam>>

\* fs_cached_floppy_write: the RAM copy is changed first and stays changed when
\* the disk does not take the sector; the disk gets the whole sector as in RAM.
Transfer(w, ok) ==
    CASE w.to = "fat" /\ w.table = 1 ->
           /\ fatRam' = Changed(fatRam, w)
           /\ fat' = IF ok THEN [fat EXCEPT ![1] = [b \in TableBytes |->
                               IF b \div SectorBytes = TableSector(w) THEN fatRam'[b] ELSE @[b]]]
                     ELSE fat
           /\ UNCHANGED <<root, rootRam, block>>
      [] w.to = "fat" /\ w.table = 2 ->
           /\ fat' = IF ok THEN [fat EXCEPT ![2] = Changed(@, w)] ELSE fat
           /\ UNCHANGED <<fatRam, root, rootRam, block>>
      [] w.to = "entry" /\ w.dir = 0 ->
           /\ rootRam' = [rootRam EXCEPT ![w.slot] = w.entry]
           /\ root' = IF ok THEN [i \in DOMAIN root |->
                               IF i \div SectorSlots = w.slot \div SectorSlots THEN rootRam'[i] ELSE root[i]]
                      ELSE root
           /\ UNCHANGED <<fat, fatRam, block>>
      [] w.to = "entry" /\ w.dir # 0 ->
           /\ block' = IF ok THEN [block EXCEPT ![w.dir].ent[w.slot] = w.entry] ELSE block
           /\ UNCHANGED <<fat, fatRam, root, rootRam>>
      [] w.to = "block" ->
           /\ block' = IF ok THEN [block EXCEPT ![w.c] = w.b] ELSE block
           /\ UNCHANGED <<fat, fatRam, root, rootRam>>
-----------------------------------------------------------------------------
(* The operations.  Each checks what it must before its first write.       *)

disk == <<fat, fatRam, root, rootRam, block>>
health == <<faults, dirty, exposed>>

\* No operation is followed on a volume whose chains are in doubt.
Start(o) ==
    /\ op = Idle /\ "chains" \notin exposed
    /\ op' = o /\ last' = NoResult /\ UNCHANGED <<disk, health>>
Goto(o) == op' = o /\ last' = last
Return(ok) ==
    /\ op' = Idle
    /\ last' = IF ok THEN [path |-> op.path, want |-> op.want] ELSE NoResult

\* fat12_core_create_dir_on_device, up to the allocation of the cluster.
CreateDir(p) ==
    \E d \in ParentDir(rootRam, p) :
        /\ Find(DirOf(rootRam, d), Leaf(p)) = {}
        /\ \E i \in FindFree(DirOf(rootRam, d)) :
              Start([Idle EXCEPT !.kind = "mkdir", !.pc = "alloc", !.path = p, !.dir = d, !.slot = i,
                                 !.want = Directory])

\* fat12_core_write_file_on_device, up to the old chain of an existing file.
WriteFile(p, s) ==
    \E d \in ParentDir(rootRam, p) :
        LET dir == DirOf(rootRam, d)
            found == Find(dir, Leaf(p))
            o == [Idle EXCEPT !.kind = "write", !.pc = "fill", !.path = p, !.dir = d, !.left = s,
                              !.want = s, !.was = Content(fatRam, rootRam, p)]
        IN  \/ \E i \in found :
                 /\ dir[i].kind = "file"
                 /\ Start([o EXCEPT !.slot = i, !.have = TRUE, !.old = dir[i].cluster,
                                    !.pc = IF dir[i].cluster # 0 THEN "free" ELSE "fill",
                                    !.c = dir[i].cluster, !.then = "fill"])
            \/ found = {} /\ \E i \in FindFree(dir) : Start([o EXCEPT !.slot = i])

\* Mutant: a directory is removed with what is in it.
EmptyDirUnchecked(dir) == TRUE

\* fat12_rmdir's scan: nothing but the two dot entries before the first unused one.
EmptyDir(dir) ==
    \A i \in DOMAIN dir : Live(dir[i]) /\ (\A j \in DOMAIN dir : j < i => dir[j] # FreeEntry)
                           => dir[i].name \in {".", ".."}

\* Mutant: the chain is freed before the entry is removed.
DeleteChainFirst(p) ==
    \E x \in Lookup(rootRam, p) :
        LET e == DirOf(rootRam, x[1])[x[2]]
        IN  /\ e.kind = "dir" => e.cluster \in Clusters /\ EmptyDir(block[e.cluster].ent)
            /\ Start([Idle EXCEPT !.kind = "delete", !.pc = "delete", !.path = p, !.dir = x[1],
                                  !.slot = x[2],
                                  !.todo = (IF e.cluster \in Clusters THEN FatWrites(e.cluster, FREE) ELSE <<>>)
                                           \o EntryWrite(x[1], x[2], DeletedEntry)])

\* fat12_core_unlink_on_device and fat12_rmdir.
Delete(p) ==
    \E x \in Lookup(rootRam, p) :
        LET e == DirOf(rootRam, x[1])[x[2]]
        IN  /\ e.kind = "dir" => e.cluster \in Clusters /\ EmptyDir(block[e.cluster].ent)
            /\ Start([Idle EXCEPT !.kind = "delete", !.pc = "delete", !.path = p, !.dir = x[1],
                                  !.slot = x[2], !.old = e.cluster,
                                  !.todo = EntryWrite(x[1], x[2], DeletedEntry)])
-----------------------------------------------------------------------------
(* Their steps, taken when the writes asked for are done.                  *)

Ready(pc) == op.pc = pc /\ op.todo = <<>>

NewEntry(kind, c, n) == EntryWrite(op.dir, op.slot, Entry(kind, Leaf(op.path), c, n))
FreeChain(c, then) == [op EXCEPT !.pc = "free", !.c = c, !.then = then, !.todo = <<>>]

\* The existing entry is made empty when there is no room for the new data.
NoSpace ==
    IF op.have THEN Goto([op EXCEPT !.pc = "empty", !.todo = NewEntry("file", 0, 0)]) ELSE Return(FALSE)

\* What the callers do when fat12_dev_alloc_cluster returns 0.
AllocFailed ==
    IF op.kind = "mkdir" THEN Return(FALSE)
    ELSE IF op.first # 0 THEN Goto(FreeChain(op.first, "empty"))
    ELSE NoSpace

\* fat12_dev_alloc_cluster: the first free cluster by the table in RAM.
FreeClusters == {c \in Clusters : GetEntry(fatRam, c) = FREE}

AllocCluster ==
    /\ Ready("alloc")
    /\ IF FreeClusters = {} THEN AllocFailed
       ELSE Goto([op EXCEPT !.pc = "mark", !.c = Min(FreeClusters), !.todo = FatWrites(Min(FreeClusters), EOC)])

ZeroCluster ==
    Ready("mark") /\ Goto([op EXCEPT !.pc = "zero", !.todo = BlockWrite(op.c, ZeroBlock)])

UnmarkDone == Ready("unmark") /\ AllocFailed

\* create_dir_on_device: the entry in the parent, then the two dot entries.
DirEntry ==
    /\ Ready("zero") /\ op.kind = "mkdir"
    /\ Goto([op EXCEPT !.pc = "entry", !.todo = NewEntry("dir", op.c, 0)])

DotEntry ==
    /\ Ready("entry")
    /\ Goto([op EXCEPT !.pc = "dot", !.todo = EntryWrite(op.c, 0, Entry("dir", ".", op.c, 0))])

DotDotEntry ==
    /\ Ready("dot")
    /\ Goto([op EXCEPT !.pc = "dotdot", !.todo = EntryWrite(op.c, 1, Entry("dir", "..", op.dir, 0))])

CreateDirDone == Ready("dotdot") /\ Return(TRUE)

\* write_file_on_device: the new cluster is linked behind the one before it and
\* gets its data.
LinkCluster ==
    /\ Ready("zero") /\ op.kind = "write"
    /\ Goto([op EXCEPT !.pc = "link", !.first = IF @ = 0 THEN op.c ELSE @,
                       !.todo = IF op.prev # 0 THEN FatWrites(op.prev, op.c) ELSE <<>>])

WriteData ==
    /\ Ready("link")
    /\ Goto([op EXCEPT !.pc = "data", !.prev = op.c, !.left = Tail(@),
                       !.todo = BlockWrite(op.c, DataBlock(Head(op.left)))])

NextCluster ==
    /\ op.pc \in {"fill", "data"} /\ op.todo = <<>>
    /\ Goto(IF op.left = <<>>
            THEN [op EXCEPT !.pc = "final", !.todo = NewEntry("file", op.first, Len(op.want))]
            ELSE [op EXCEPT !.pc = "alloc"])

WriteDone == Ready("final") /\ Return(TRUE)
EmptyDone == Ready("empty") /\ Return(FALSE)

DeleteChain == Ready("delete") /\ Goto(FreeChain(op.old, "done"))

\* What follows a call of fat12_dev_free_cluster_chain that returned.
AfterFree ==
    CASE op.then = "fill" -> Goto([op EXCEPT !.pc = "fill"])
      [] op.then = "done" -> Return(TRUE)
      [] op.then = "failed" -> Return(FALSE)
      [] op.then = "empty" -> NoSpace

\* Mutant: the next cluster is read after the entry was cleared.
FreeClusterFirst ==
    /\ Ready("free")
    /\ IF op.c \in Clusters
       THEN Goto([op EXCEPT !.c = FREE, !.todo = FatWrites(op.c, FREE)])
       ELSE AfterFree

\* One round of fat12_dev_free_cluster_chain: the next cluster is read first.
\* Values past the last cluster belong to damaged chains and end the walk.
FreeCluster ==
    /\ Ready("free")
    /\ IF op.c \in Clusters
       THEN Goto([op EXCEPT !.c = GetEntry(fatRam, op.c), !.todo = FatWrites(op.c, FREE)])
       ELSE AfterFree

Steps ==
    /\ \/ AllocCluster \/ ZeroCluster \/ UnmarkDone \/ DirEntry \/ DotEntry \/ DotDotEntry \/ CreateDirDone
       \/ LinkCluster \/ WriteData \/ NextCluster \/ WriteDone \/ EmptyDone \/ DeleteChain \/ FreeCluster
    /\ UNCHANGED <<disk, health>>
-----------------------------------------------------------------------------
(* Transfers, good and bad. *)

WriteSector ==
    /\ op.todo # <<>>
    /\ Transfer(Head(op.todo), TRUE)
    /\ op' = [op EXCEPT !.todo = Tail(@)]
    /\ UNCHANGED <<last, health>>

\* The error paths.  A failure while cleaning up is ignored; a cluster that
\* could not be zeroed is given back; the entry of a new directory that could not
\* be written loses its cluster.
OnError ==
    CASE op.pc \in {"mark", "unmark"} -> AllocFailed
      [] op.pc = "zero" -> Goto([op EXCEPT !.pc = "unmark", !.todo = FatWrites(op.c, FREE)])
      [] op.pc = "entry" -> Goto(FreeChain(op.c, "failed"))
      [] op.pc = "free" /\ op.then = "empty" -> NoSpace
      [] OTHER -> Return(FALSE)

\* The old chain of a rewritten file is freed before its entry is changed.
Rewriting == op.kind = "write" /\ op.old # 0

\* A failed write of an entry of the root leaves it in RAM and not on the disk.
\* The cluster of a new directory is freed all the same, entries made behind a new
\* one are on the disk behind an unused one, and a deleted one is back after a restart.
RootFailed == Head(op.todo).to = "entry" /\ op.dir = 0

WriteFails ==
    /\ op.todo # <<>> /\ faults < MaxFaults
    /\ Transfer(Head(op.todo), FALSE)
    /\ OnError
    /\ faults' = faults + 1 /\ dirty' = TRUE
    /\ exposed' = exposed \cup (IF Rewriting \/ (RootFailed /\ op.pc = "entry") THEN {"chains"} ELSE {})
                          \cup (IF RootFailed THEN {"names"} ELSE {})

\* The loader reads the first table and the root directory into RAM again.
Restart ==
    /\ op # Idle => faults < MaxFaults
    /\ op' = Idle /\ last' = IF op = Idle /\ ~dirty THEN last ELSE NoResult
    /\ fatRam' = fat[1] /\ rootRam' = root
    /\ faults' = IF op = Idle THEN faults ELSE faults + 1
    /\ dirty' = FALSE /\ exposed' = exposed \cup (IF Rewriting THEN {"chains"} ELSE {})
    /\ UNCHANGED <<fat, root, block>>

Next ==
    \/ \E p \in Paths : CreateDir(p) \/ Delete(p) \/ \E s \in Contents : WriteFile(p, s)
    \/ Steps \/ WriteSector \/ WriteFails \/ Restart

Spec == Init /\ [][Next]_vars
-----------------------------------------------------------------------------
(* Properties. *)

EntryType == [kind : {"free", "deleted", "file", "dir"}, name : STRING, cluster : 0 .. ClusterCount + 1,
              size : 0 .. MaxSectors]

\* Types: bytes are bytes, entries name clusters of the volume.
TypeOK ==
    /\ fat \in [{1, 2} -> [TableBytes -> Byte]] /\ fatRam \in [TableBytes -> Byte]
    /\ \A i \in 0 .. RootSlots - 1 : root[i] \in EntryType /\ rootRam[i] \in EntryType
    /\ \A c \in Clusters : block[c].data \in Data \cup {"zero"}
                           /\ \A i \in 0 .. DirSlots - 1 : block[c].ent[i] \in EntryType
    /\ op.path \in Paths \cup {<<>>} /\ last.path \in Paths \cup {<<>>}
    /\ faults \in 0 .. MaxFaults /\ dirty \in BOOLEAN /\ exposed \subseteq {"chains", "names"}

\* The live entries a reader of root r finds, as <<directory, slot>>; a file being
\* rewritten is left out, and the dot entries are.
LiveSlots(r) ==
    LET inRoot == {<<0, i>> : i \in {i \in DOMAIN r : Live(r[i])}}
        dirs == {r[i].cluster : i \in {i \in DOMAIN r : r[i].kind = "dir"}} \cap Clusters
        inDirs == UNION {{<<d, i>> : i \in {i \in DOMAIN block[d].ent :
                              Live(block[d].ent[i]) /\ block[d].ent[i].name \notin {".", ".."}}} : d \in dirs}
    IN  (inRoot \cup inDirs) \ (IF Rewriting THEN {<<op.dir, op.slot>>} ELSE {})

\* The chain of a live entry is as long as its size says, ends with an end mark
\* and shares no cluster with another.
OwnsChains(f, r) ==
    LET E(x) == DirOf(r, x[1])[x[2]]
        Own(x) == Chain(f, E(x).cluster)
    IN  \A x \in LiveSlots(r) :
            /\ Len(Own(x)) = IF E(x).kind = "dir" THEN 1 ELSE E(x).size
            /\ IsInjective(Own(x))
            /\ Own(x) # <<>> => Last(Walk(f, E(x).cluster)) = EOC
            /\ \A y \in LiveSlots(r) \ {x} : Range(Own(x)) \cap Range(Own(y)) = {}

\* Neither what the kernel sees nor what is on the disk has a live entry with a
\* free, shared or missing cluster, whatever transfer fails and whenever the power
\* goes: unlink and rmdir remove the entry before they free the chain, and a new
\* entry is written after its chain.  Excepted are the places where the code does
\* not do so.  The types hold.
LiveEntriesOwnClusters ==
    /\ TypeOK
    /\ "chains" \notin exposed => OwnsChains(fatRam, rootRam) /\ OwnsChains(fat[1], root)

\* Without faults nothing leaks: between operations every cluster in use belongs
\* to a live entry, and the two tables are equal.
NothingLeaks ==
    faults = 0 /\ op = Idle =>
        /\ fat[1] = fat[2]
        /\ {c \in Clusters : GetEntry(fatRam, c) # FREE} =
             UNION {Range(Chain(fatRam, DirOf(rootRam, x[1])[x[2]].cluster)) : x \in LiveSlots(rootRam)}

\* What an operation has reported done is what the kernel sees, and what is
\* on the disk unless a transfer failed since the loader ran: then no restart
\* undoes it.  This survives every fault outside the root directory and the
\* rewriting of a file.
DoneIsDurable ==
    last # NoResult /\ exposed = {} =>
        /\ Content(fatRam, rootRam, last.path) = last.want
        /\ ~dirty => Content(fat[1], root, last.path) = last.want

\* The volume as the callers see it: the file being rewritten changes when its
\* entry does.
Vol == IF faults > 0 THEN Unknown
       ELSE [p \in Paths |-> IF Rewriting /\ p = op.path /\ ~(Ready("final") \/ Ready("empty"))
                             THEN op.was ELSE Content(fatRam, rootRam, p)]

Volume == INSTANCE Fat12Volume WITH vol <- Vol

\* Without faults the sector-wise operations implement the volume that changes in
\* one step.
ImplementsVolume == Volume!Spec

\* What an operation has reported done is on the disk: "Commit every write syscall
\* to the physical FAT12 device immediately" (fat12_write), "FAT12 commits writes
\* immediately" (sys_sync).
CommittedAtOnce == last # NoResult => Content(fat[1], root, last.path) = last.want
=============================================================================
