-------------------------------- MODULE Ramfs --------------------------------
(***************************************************************************)
(* The RAM file system, src/src/kernel/core/fs/ramfs_core.c: a tree of     *)
(* nodes in a fixed array, with the bytes of the files in a few data slots.*)
(*                                                                         *)
(* A path is the directory its last segment is looked up in and that       *)
(* segment; every live directory is some path's.  Names are compared as    *)
(* the code does: case aside, and a stored 8.3 alias such as AB~1 also     *)
(* answers to longer names with its stem.  A file is opened to a node id,  *)
(* which is all that the caller keeps.  RAMFS is the root only when no boot *)
(* medium could be mounted: no program can be loaded then, and the kernel  *)
(* shell's directory is the driver's.                                      *)
(***************************************************************************)
EXTENDS Integers, Sequences, FiniteSets, FiniteSetsExt, SequencesExt

CONSTANTS
    NodeCap,   \* FS_MAX_NODES
    ChildCap,  \* FS_MAX_CHILDREN
    SlotCap,   \* RAMFS_DATA_SLOT_CAP
    SlotSize,  \* RAMFS_DATA_SLOT_SIZE
    Names,     \* the names asked for
    Aliases    \* <<stored, requested>>: stored is an alias that answers to requested

ASSUME RamfsAssumption ==
    /\ NodeCap \in Nat \ {0} /\ ChildCap \in Nat /\ SlotCap \in Nat /\ SlotSize \in Nat
    /\ Aliases \subseteq Names \X Names

VARIABLES
    node,     \* g_nodes
    slotUsed, \* the data slots in use
    slotData, \* their bytes; 0 or 1
    cwd,      \* g_cwd
    handles   \* the node ids that opens have returned and closes not taken back

vars == <<node, slotUsed, slotData, cwd, handles>>

Ids == 0 .. NodeCap - 1
Slots == 0 .. SlotCap - 1
NoSlot == -1
NoParent == -1
Root == 0

Unused == [used |-> FALSE, type |-> "file", name |-> "", parent |-> NoParent,
           children |-> <<>>, slot |-> NoSlot, size |-> 0]
ZeroData == [i \in 0 .. SlotSize - 1 |-> 0]

\* ramfs_core_reset_empty.
Init ==
    /\ node = [i \in Ids |-> IF i = Root THEN [Unused EXCEPT !.used = TRUE, !.type = "dir"]
                             ELSE Unused]
    /\ slotUsed = {} /\ slotData = [s \in Slots |-> ZeroData]
    /\ cwd = Root
    /\ handles = {}
-----------------------------------------------------------------------------
Dirs == {i \in Ids : node[i].used /\ node[i].type = "dir"}
FreeNodes == {i \in Ids : ~node[i].used}
FreeSlots == Slots \ slotUsed

\* fs_name_eq; Names has one spelling of each name, whatever its case.
NameEq(stored, requested) == stored = requested \/ <<stored, requested>> \in Aliases

\* Mutant: the newest match is taken.
FindChildLast(d, name) ==
    LET S == {k \in DOMAIN node[d].children : NameEq(node[node[d].children[k]].name, name)}
    IN  IF S = {} THEN {} ELSE {node[d].children[Max(S)]}

\* fs_find_child: the first child that answers to the name, if there is one.
FindChild(d, name) ==
    LET S == {k \in DOMAIN node[d].children : NameEq(node[node[d].children[k]].name, name)}
    IN  IF S = {} THEN {} ELSE {node[d].children[Min(S)]}

\* fs_create_node gets as far as attaching the node: a failed attempt gives the
\* node back.
CanCreate(d, name) ==
    FindChild(d, name) = {} /\ FreeNodes # {} /\ Len(node[d].children) < ChildCap

\* The tree with the new node n of the given type under d.
Created(d, name, type, n) ==
    [node EXCEPT ![n] = [Unused EXCEPT !.used = TRUE, !.type = type, !.name = name, !.parent = d],
                 ![d].children = Append(@, n)]

MakeDir(d, name) ==
    /\ CanCreate(d, name)
    /\ node' = Created(d, name, "dir", Min(FreeNodes))
    /\ UNCHANGED <<slotUsed, slotData, cwd, handles>>

\* ramfs_core_open of a file that exists.
OpenExisting(d, name) ==
    /\ \E n \in FindChild(d, name) :
          node[n].type = "file" /\ handles' = handles \cup {n}
    /\ UNCHANGED <<node, slotUsed, slotData, cwd>>

\* ... with O_CREAT of one that does not.
OpenCreate(d, name) ==
    /\ CanCreate(d, name)
    /\ node' = Created(d, name, "file", Min(FreeNodes))
    /\ handles' = handles \cup {Min(FreeNodes)}
    /\ UNCHANGED <<slotUsed, slotData, cwd>>

\* ... with O_CREAT and O_TRUNC but not for writing: the open fails and the
\* file has been created.
OpenCreateFails(d, name) ==
    /\ CanCreate(d, name)
    /\ node' = Created(d, name, "file", Min(FreeNodes))
    /\ UNCHANGED <<slotUsed, slotData, cwd, handles>>

\* Mutant: a truncated file keeps its data slot.
OpenTruncKeepsSlot(d, name) ==
    /\ \E n \in FindChild(d, name) :
          /\ node[n].type = "file"
          /\ node' = [node EXCEPT ![n].size = 0]
          /\ handles' = handles \cup {n}
    /\ UNCHANGED <<slotUsed, slotData, cwd>>

\* ramfs_free_data_slot of the slots in S.
FreeSlot(S) ==
    /\ slotUsed' = slotUsed \ S
    /\ slotData' = [s \in Slots |-> IF s \in S THEN ZeroData ELSE slotData[s]]

\* ... with O_TRUNC, for writing.
OpenTrunc(d, name) ==
    /\ \E n \in FindChild(d, name) :
          /\ node[n].type = "file"
          /\ FreeSlot({node[n].slot})
          /\ node' = [node EXCEPT ![n].slot = NoSlot, ![n].size = 0]
          /\ handles' = handles \cup {n}
    /\ UNCHANGED cwd

\* The whole write lies inside the slot.
Fits(offset, count) == offset <= SlotSize /\ count <= SlotSize - offset

\* ramfs_core_write of the byte 1 into count places from offset on; the id is
\* whatever an earlier open returned.
Write(n, offset, count) ==
    /\ n \in handles /\ node[n].used /\ node[n].type = "file"
    /\ count > 0 /\ Fits(offset, count)
    /\ node[n].slot # NoSlot \/ FreeSlots # {}
    /\ LET fresh == node[n].slot = NoSlot
           s == IF fresh THEN Min(FreeSlots) ELSE node[n].slot
           old == IF fresh THEN ZeroData ELSE slotData[s]
       IN  /\ slotUsed' = slotUsed \cup {s}
           /\ slotData' = [slotData EXCEPT ![s] =
                              [i \in DOMAIN old |-> IF i \in offset .. offset + count - 1
                                                    THEN 1 ELSE old[i]]]
           /\ node' = [node EXCEPT ![n].slot = s, ![n].size = Max({@, offset + count})]
    /\ UNCHANGED <<cwd, handles>>

\* ramfs_core_close keeps no account of opens.
Close(n) ==
    /\ n \in handles
    /\ handles' = handles \ {n}
    /\ UNCHANGED <<node, slotUsed, slotData, cwd>>

ChangeDir(d) ==
    /\ d \in Dirs
    /\ cwd' = d
    /\ UNCHANGED <<node, slotUsed, slotData, handles>>

\* Node n taken off its parent's list and cleared.
Detached(n) ==
    [node EXCEPT ![n] = Unused, ![node[n].parent].children = SelectSeq(@, LAMBDA c : c # n)]

\* Mutant: the file's data slot is not given back.
UnlinkKeepsSlot(d, name) ==
    /\ \E n \in FindChild(d, name) :
          /\ node[n].type = "file"
          /\ node' = Detached(n)
    /\ UNCHANGED <<slotUsed, slotData, cwd, handles>>

\* ramfs_core_unlink, whether or not the file is open.
Unlink(d, name) ==
    /\ \E n \in FindChild(d, name) :
          /\ node[n].type = "file"
          /\ FreeSlot({node[n].slot})
          /\ node' = Detached(n)
    /\ UNCHANGED <<cwd, handles>>

\* Mutant: a directory that is not empty, or the current one, can go.
Removable(n) == n # Root /\ node[n].type = "dir"

\* ramfs_core_rmdir does not refuse.
RmdirAllowed(n) ==
    n # Root /\ n # cwd /\ node[n].type = "dir" /\ node[n].children = <<>>

Rmdir(d, name) ==
    /\ \E n \in FindChild(d, name) :
          /\ RmdirAllowed(n)
          /\ node' = Detached(n)
    /\ UNCHANGED <<slotUsed, slotData, cwd, handles>>

Next ==
    \/ \E d \in Dirs, name \in Names :
          \/ MakeDir(d, name)
          \/ OpenExisting(d, name) \/ OpenCreate(d, name) \/ OpenCreateFails(d, name)
          \/ OpenTrunc(d, name)
          \/ Unlink(d, name) \/ Rmdir(d, name)
    \/ \E n \in Ids : Close(n) \/ \E o, c \in 0 .. SlotSize : Write(n, o, c)
    \/ \E d \in Ids : ChangeDir(d)

Spec == Init /\ [][Next]_vars
-----------------------------------------------------------------------------
Live == {i \in Ids : node[i].used}

\* Type correctness of the node array, the slots and the ids held.
TypeOK ==
    /\ node \in [Ids -> [used : BOOLEAN, type : {"file", "dir"}, name : Names \cup {""},
                         parent : Ids \cup {NoParent}, children : Seq(Ids),
                         slot : Slots \cup {NoSlot}, size : 0 .. SlotSize]]
    /\ slotUsed \subseteq Slots /\ slotData \in [Slots -> [0 .. SlotSize - 1 -> {0, 1}]]
    /\ cwd \in Ids /\ handles \subseteq Ids

\* The nodes in use form one tree: every node but the root is on its parent's
\* list once and on no other, lists hold only nodes in use, files have no
\* children, a node is never its own ancestor, and the current directory is a
\* directory of the tree.  The types hold.
TreeOK ==
    /\ TypeOK
    /\ cwd \in Dirs
    /\ \A i \in Live \ {Root} :
          /\ node[i].parent \in Dirs
          /\ {<<p, k>> \in Ids \X (1 .. ChildCap) :
                  k \in DOMAIN node[p].children /\ node[p].children[k] = i}
             \in {{<<node[i].parent, k>>} : k \in 1 .. ChildCap}
    /\ \A i \in Ids : /\ Range(node[i].children) \subseteq Live \ {Root}
                      /\ node[i].children # <<>> => i \in Dirs
    /\ \A S \in SUBSET (Live \ {Root}) :
          S # {} => \E i \in S : node[i].parent \notin S

\* Every file and directory is found under its own name: no create, whatever
\* was removed before, puts an entry behind one whose alias answers to it.
FoundByName ==
    \A i \in Live \ {Root} : FindChild(node[i].parent, node[i].name) = {i}

\* A data slot is in use exactly when one file has it, and a file with bytes
\* has one: no slot leaks or is shared through unlink, truncation and reuse.
SlotsExact ==
    /\ \A s \in Slots : s \in slotUsed <=> Cardinality({i \in Live : node[i].slot = s}) = 1
    /\ \A i, j \in Live : (node[i].slot = node[j].slot /\ node[i].slot # NoSlot) => i = j
    /\ \A i \in Live : node[i].size > 0 => node[i].slot # NoSlot

\* The bytes of a slot past the end of its file are zero, so that a write
\* beyond the end leaves a gap of zeros and never old data.
GapsAreZero ==
    \A i \in Live : node[i].slot # NoSlot =>
        \A k \in node[i].size .. SlotSize - 1 : slotData[node[i].slot][k] = 0
=============================================================================
