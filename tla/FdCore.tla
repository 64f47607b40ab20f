-------------------------------- MODULE FdCore --------------------------------
(***************************************************************************)
(* The descriptor layer of the kernel, src/src/kernel/core/posix/fd_core.c. *)
(*                                                                         *)
(* Every process owns a table of POSIX_FD_CAP entries; an entry names one  *)
(* of the POSIX_OFD_CAP open-file descriptions, which are shared through   *)
(* dup, dup2 and the table copy of a spawn and are reference counted.  The *)
(* last release of a file's description hands its node back to the VFS.    *)
(* The operations here take the table's owner p; ProcessCore runs them for *)
(* the current process.                                                    *)
(*                                                                         *)
(* Offsets, flags and the bytes moved by read and write are left out: no   *)
(* operation of this module depends on them.  An operation that returns an *)
(* error before it changes anything is a stuttering step and has no action.*)
(***************************************************************************)
EXTENDS Integers, FiniteSets, FiniteSetsExt

CONSTANTS
    ProcMax,  \* PROCESS_MAX, the number of tables
    FdCap,    \* POSIX_FD_CAP
    OfdCap,   \* POSIX_OFD_CAP
    StdCount, \* standard streams of a new table (3: stdin, stdout, stderr)
    Nodes     \* the node ids a VFS open can return

\* The table has room for the standard streams and the descriptions back them.
ASSUME StdAssumption == StdCount \in Nat
ASSUME FdCapAssumption == FdCap \in Nat /\ FdCap >= StdCount
ASSUME OfdCapAssumption == OfdCap \in Nat /\ OfdCap >= StdCount
ASSUME ProcMaxAssumption == ProcMax \in Nat \ {0}

Procs == 0 .. ProcMax - 1
FDs  == 0 .. FdCap - 1
OFDs == 0 .. OfdCap - 1

NoDesc == -1       \* an entry whose used flag is clear
NoNode == "none"   \* the node_id of a terminal's or an unused description

ASSUME NoNodeAssumption == NoNode \notin Nodes

VARIABLES
    entries,     \* entries[p][fd]: description named by fd of p, or NoDesc
    inited,      \* inited[p]: the table's initialized flag
    desc,        \* g_descriptions
    opens        \* opens[n]: successful VFS opens of n minus VFS closes of n

fdVars == <<entries, inited, desc, opens>>

\* FD_KIND_TTY_IN and FD_KIND_TTY_OUT are released alike.
Kinds == {"unused", "tty", "vfs"}
Description == [used : BOOLEAN, refs : Nat, kind : Kinds, node : Nodes \cup {NoNode}]

NoEntries == [fd \in FDs |-> NoDesc]
ZeroDesc == [used |-> FALSE, refs |-> 0, kind |-> "unused", node |-> NoNode]
NewDesc(k, n) == [used |-> TRUE, refs |-> 1, kind |-> k, node |-> n]

Used(p) == {fd \in FDs : entries[p][fd] # NoDesc}
FreeFds(p) == FDs \ Used(p)
FreeDescs == {d \in OFDs : ~desc[d].used}

\* fd_description finds a description: the entry is used and what it names is.
Valid(p, fd) == entries[p][fd] # NoDesc /\ desc[entries[p][fd]].used

(***************************************************************************)
(* fd_release_entry for every entry of p in S at once, in closed form: k   *)
(* entries naming d take k references off it, and the description that     *)
(* loses its last one is closed in the VFS and zeroed.                     *)
(***************************************************************************)
Naming(p, S, d) == {fd \in S : entries[p][fd] = d}

RefsAfter(p, S, d) ==
    LET k == Cardinality(Naming(p, S, d))
    IN  IF k > desc[d].refs THEN 0 ELSE desc[d].refs - k

\* Mutant: a release frees the description whether or not others still name it.
FreedByAnyRelease(p, S) == {d \in OFDs : desc[d].used /\ Naming(p, S, d) # {}}

LastRelease(p, S) ==
    {d \in OFDs : /\ desc[d].used
                  /\ Naming(p, S, d) # {}
                  /\ RefsAfter(p, S, d) = 0}

DescAfterRelease(p, S) ==
    [d \in OFDs |-> IF d \in LastRelease(p, S)
                    THEN ZeroDesc
                    ELSE IF desc[d].used
                         THEN [desc[d] EXCEPT !.refs = RefsAfter(p, S, d)]
                         ELSE desc[d]]

\* Mutant: every release closes the node, not only the last one.
OpensAfterEveryRelease(p, S) ==
    [n \in Nodes |->
        opens[n] - Cardinality({fd \in S : /\ desc[entries[p][fd]].kind = "vfs"
                                           /\ desc[entries[p][fd]].node = n})]

OpensAfterRelease(p, S) ==
    [n \in Nodes |->
        opens[n] - Cardinality({d \in LastRelease(p, S) :
                                   desc[d].kind = "vfs" /\ desc[d].node = n})]

EntriesAfterRelease(p, S) ==
    [fd \in FDs |-> IF fd \in S THEN NoDesc ELSE entries[p][fd]]
-----------------------------------------------------------------------------
\* The boot-time fd_core_table_init of process p's table: the standard streams
\* take the lowest descriptions, one each.
TableInit(p) ==
    /\ entries = [q \in Procs |->
                    [fd \in FDs |-> IF q = p /\ fd < StdCount THEN fd ELSE NoDesc]]
    /\ inited = [q \in Procs |-> q = p]
    /\ desc = [d \in OFDs |-> IF d < StdCount THEN NewDesc("tty", NoNode) ELSE ZeroDesc]
    /\ opens = [n \in Nodes |-> 0]

\* fd_core_open, with fs_core_open returning node n.  The VFS open comes first;
\* when the table or the descriptions are full, or fs_core_size fails for an
\* O_APPEND open, the node is closed again and nothing else has changed.
Open(p, n) ==
    /\ FreeFds(p) # {} /\ FreeDescs # {}
    /\ LET d == Min(FreeDescs)
       IN  /\ entries' = [entries EXCEPT ![p][Min(FreeFds(p))] = d]
           /\ desc' = [desc EXCEPT ![d] = NewDesc("vfs", n)]
    /\ opens' = [opens EXCEPT ![n] = @ + 1]
    /\ UNCHANGED inited

\* fd_core_close.
Close(p, fd) ==
    /\ Valid(p, fd)
    /\ entries' = [entries EXCEPT ![p] = EntriesAfterRelease(p, {fd})]
    /\ desc' = DescAfterRelease(p, {fd})
    /\ opens' = OpensAfterRelease(p, {fd})
    /\ UNCHANGED inited

\* fd_core_dup.
Dup(p, oldfd) ==
    /\ Valid(p, oldfd) /\ FreeFds(p) # {}
    /\ entries' = [entries EXCEPT ![p][Min(FreeFds(p))] = entries[p][oldfd]]
    /\ desc' = [desc EXCEPT ![entries[p][oldfd]].refs = @ + 1]
    /\ UNCHANGED <<inited, opens>>

\* fd_core_dup2 of two different descriptors: a used newfd is released first.
Dup2(p, oldfd, newfd) ==
    /\ Valid(p, oldfd) /\ oldfd # newfd
    /\ LET S == {newfd} \cap Used(p)
       IN  /\ entries' = [entries EXCEPT ![p] =
                            [EntriesAfterRelease(p, S) EXCEPT
                                ![newfd] = entries[p][oldfd]]]
           /\ desc' = [DescAfterRelease(p, S) EXCEPT
                            ![entries[p][oldfd]].refs = @ + 1]
           /\ opens' = OpensAfterRelease(p, S)
    /\ UNCHANGED inited

\* The path of fd_core_dup2 on which the VFS close of newfd's last reference
\* reports an error (ramfs_core_close does for a file unlinked while open):
\* newfd has been released and oldfd is not copied.
Dup2CloseFails(p, oldfd, newfd) ==
    /\ Valid(p, oldfd) /\ oldfd # newfd
    /\ \E d \in LastRelease(p, {newfd}) : desc[d].kind = "vfs"
    /\ entries' = [entries EXCEPT ![p] = EntriesAfterRelease(p, {newfd})]
    /\ desc' = DescAfterRelease(p, {newfd})
    /\ opens' = OpensAfterRelease(p, {newfd})
    /\ UNCHANGED inited

\* fd_core_table_clone succeeds: the source is initialised and none of its
\* entries names an unused description.
Clonable(p) == inited[p] /\ \A fd \in Used(p) : desc[entries[p][fd]].used

\* Mutant: one reference per description, however many entries name it.
CloneCountsOnce(child, parent) ==
    /\ entries' = [entries EXCEPT ![child] = entries[parent]]
    /\ inited' = [inited EXCEPT ![child] = TRUE]
    /\ desc' = [d \in OFDs |->
                  IF Naming(parent, FDs, d) # {}
                  THEN [desc[d] EXCEPT !.refs = @ + 1] ELSE desc[d]]
    /\ UNCHANGED opens

\* fd_core_table_clone(child, parent): one more reference for every copied entry.
Clone(child, parent) ==
    /\ entries' = [entries EXCEPT ![child] = entries[parent]]
    /\ inited' = [inited EXCEPT ![child] = TRUE]
    /\ desc' = [d \in OFDs |->
                  [desc[d] EXCEPT !.refs =
                      @ + Cardinality(Naming(parent, FDs, d))]]
    /\ UNCHANGED opens

\* fd_core_table_destroy: release every used entry, then reset the table.
TableDestroy(p) ==
    /\ entries' = [entries EXCEPT ![p] = NoEntries]
    /\ inited' = [inited EXCEPT ![p] = FALSE]
    /\ desc' = DescAfterRelease(p, Used(p))
    /\ opens' = OpensAfterRelease(p, Used(p))
=============================================================================
