--------------------------------- MODULE Vfs ---------------------------------
(***************************************************************************)
(* Names in the virtual file system (src/src/kernel/core/fs/fs_core.c):    *)
(* how a path that a program gives becomes the path a driver sees, what    *)
(* symbolic links add, and the current directories of the processes and of *)
(* the driver.  The root is a floppy (FAT12, writable) or a CD (ISO 9660); *)
(* /dev and /proc (pseudo_core.c) are mounted over both.  What files hold  *)
(* is in Fat12Files and Fat12Disk.                                         *)
(*                                                                         *)
(* A path is the sequence of its names, the root is <<>>.  Inside the two  *)
(* normalising functions it is the string the code edits, with one token   *)
(* for a name and one for a slash.                                         *)
(***************************************************************************)
EXTENDS Naturals, Sequences, SequencesExt, FiniteSetsExt

CONSTANTS
    Fold,      \* Fold[n]: the directory's form of a spelled name
    TreePaths, \* the folded paths the model looks at
    RawPaths,  \* path arguments: [abs, comps], comps may have "." and ".."
    Target,    \* Target[t]: the path argument that link text t is
    IsoTree,   \* what is on the CD
    LinkDepth, \* FS_SYMLINK_MAX_DEPTH
    MaxDepth   \* bound on nested processes

Targets == DOMAIN Target
PseudoDirs == {<<"dev">>, <<"proc">>}

ASSUME VfsAssumption ==
    /\ LinkDepth \in Nat \ {0} /\ MaxDepth \in Nat \ {0}
    /\ Targets \cap {"none", "file", "dir"} = {}

VARIABLES
    medium,    \* g_media_kind
    tree,      \* "none", "file", "dir" or a link text, by folded path
    cwds,      \* cwd of the chain of processes, the running one last
    driverCwd, \* g_fat12_cwd or g_iso_cwd
    respelled  \* the driver's directory was removed under another spelling

vars == <<medium, tree, cwds, driverCwd, respelled>>

Init ==
    /\ medium \in {"fat12", "iso9660"}
    /\ tree = IF medium = "fat12" THEN [p \in TreePaths |-> "none"] ELSE IsoTree
    /\ cwds = <<<<>>>> /\ driverCwd = <<>> /\ respelled = FALSE
-----------------------------------------------------------------------------
(* Normalising a path. *)

\* A path as a string: "/" for the root.
Text(p) == IF p = <<>> THEN <<"/">> ELSE [k \in 1 .. 2 * Len(p) |-> IF k % 2 = 1 THEN "/" ELSE p[k \div 2]]
\* The names of a string.
NamesOf(t) == SelectSeq(t, LAMBDA x : x # "/")

\* t up to the last slash, all of it when there is none behind the first token.
ToSlash(t) == SubSeq(t, 1, Max({0} \cup {k \in DOMAIN t : t[k] = "/"}))

\* Mutant: the slash before the removed name stays.
BackToSlash(t) == ToSlash(t)

\* ".." in fs_core_normalize_path.
Back(t) ==
    LET u == IF Len(t) > 1 THEN ToSlash(t) ELSE t IN IF Len(u) > 1 THEN Front(u) ELSE u

\* A name in fs_core_normalize_path.
Push(t, n) == IF t = <<"/">> THEN Append(t, n) ELSE t \o <<"/", n>>

\* ".." and a name in fat12_normalize_path and iso_normalize_path.
DriverBack(t) == LET u == ToSlash(t) IN IF Len(u) > 1 THEN Front(u) ELSE u
DriverPush(t, n) == IF t = <<>> \/ Last(t) # "/" THEN t \o <<"/", n>> ELSE Append(t, n)

\* One pass of the loop over the components, in either.
Component(t, n) ==
    CASE n = "." -> t [] n = ".." -> Back(t) [] OTHER -> Push(t, n)
DriverComponent(t, n) ==
    CASE n = "." -> t [] n = ".." -> DriverBack(t) [] OTHER -> DriverPush(t, n)

\* The string fs_core_normalize_path writes for argument r in directory cwd.
NormalText(cwd, r) ==
    LET t == FoldLeft(Component, IF r.abs THEN <<>> ELSE Text(cwd), r.comps)
    IN  IF t = <<>> THEN <<"/">> ELSE t

\* The same for the driver's own normalisation of an absolute path.
DriverText(p) ==
    LET t == FoldLeft(DriverComponent, <<>>, p) IN IF t = <<>> THEN <<"/">> ELSE t

Normalize(cwd, r) == NamesOf(NormalText(cwd, r))

\* The full path the running process means.
Full(r) == Normalize(Last(cwds), r)
-----------------------------------------------------------------------------
(* Looking names up. *)

\* pseudo_fs_is_path: these names are not folded.
IsPseudo(p) == p # <<>> /\ <<p[1]>> \in PseudoDirs

FoldPath(p) == [k \in 1 .. Len(p) |-> Fold[p[k]]]

\* What the root driver finds at p (fat12_resolve_path_info, iso_resolve_path).
Kind(p) == IF p = <<>> THEN "dir" ELSE IF FoldPath(p) \in TreePaths THEN tree[FoldPath(p)] ELSE "none"

\* fs_parent_path, fat12_split_create_path.
Parent(p) == IF p = <<>> THEN p ELSE Front(p)

\* Mutant: relative links are taken from the process's directory.
HopFromCwd(p) == LET r == Target[Kind(p)] IN Normalize(IF r.abs THEN <<>> ELSE Last(cwds), r)

\* Where a link points: from its own directory (fs_raw_readlink, and the body of the
\* loop in fs_resolve_final_symlink).
Hop(p) == LET r == Target[Kind(p)] IN Normalize(IF r.abs THEN <<>> ELSE Parent(p), r)

\* The path after at most k links.
After(p, k) ==
    LET f[j \in 0 .. k] == IF j = 0 THEN p ELSE IF Kind(f[j - 1]) \in Targets THEN Hop(f[j - 1]) ELSE f[j - 1]
    IN  f[k]

\* fs_resolve_final_symlink: in a set, empty when it gives up.  Round LinkDepth of
\* the loop is the last that may find an end.
Resolve(p) == LET q == After(p, LinkDepth - 1) IN IF Kind(q) \in Targets THEN {} ELSE {q}
-----------------------------------------------------------------------------
(* Operations of the running process.  Those that only look (stat, read_file,
   list_dir, readlink, open without CREAT) change nothing here. *)

\* fs_core_change_dir: a pseudo directory is unknown to the driver.
ChangeDir(r) ==
    \E q \in Resolve(Full(r)) :
        /\ \/ IsPseudo(q) /\ q \in PseudoDirs /\ UNCHANGED driverCwd
           \/ ~IsPseudo(q) /\ Kind(q) = "dir" /\ driverCwd' = NamesOf(DriverText(q))
        /\ cwds' = [cwds EXCEPT ![Len(cwds)] = q]
        /\ respelled' = (respelled /\ IsPseudo(q))
        /\ UNCHANGED <<medium, tree>>

\* A place where the driver can make an entry.
Creatable(p) == medium = "fat12" /\ FoldPath(p) \in TreePaths /\ Kind(Parent(p)) = "dir"

Put(p, kind) ==
    /\ tree' = [tree EXCEPT ![FoldPath(p)] = kind]
    /\ UNCHANGED <<medium, cwds, driverCwd>>

\* fs_core_make_dir.
MakeDir(r) ==
    LET p == Full(r)
    IN  ~IsPseudo(p) /\ Creatable(p) /\ Kind(p) = "none" /\ Put(p, "dir") /\ UNCHANGED respelled

\* fs_core_open with CREAT and TRUNC: no link is followed, a link becomes a file.
OpenCreate(r) ==
    LET p == Full(r)
    IN  /\ ~IsPseudo(p) /\ Creatable(p) /\ Kind(p) \in {"none"} \cup Targets
        /\ Put(p, "file") /\ UNCHANGED respelled

\* fs_core_symlink: no check for pseudo directories; when the text does not fit on the
\* disk an empty file stays behind.
Symlink(t, r) ==
    LET p == Full(r)
    IN  /\ Creatable(p) /\ Kind(p) # "dir"
        /\ \E kind \in {t, "file"} : Put(p, kind)
        /\ UNCHANGED respelled

\* fs_core_unlink: the link, not what it points to.
Unlink(r) ==
    LET p == Full(r)
    IN  /\ ~IsPseudo(p) /\ medium = "fat12" /\ Kind(p) \notin {"none", "dir"}
        /\ Put(p, "none") /\ UNCHANGED respelled

Empty(p) == \A q \in TreePaths : Len(q) > Len(p) /\ SubSeq(q, 1, Len(p)) = FoldPath(p) => tree[q] = "none"

\* Mutant: the current directory may go.
RmdirAny(r) ==
    LET p == Full(r)
    IN  /\ p # <<>> /\ ~IsPseudo(p) /\ medium = "fat12" /\ Kind(p) = "dir" /\ Empty(p)
        /\ Put(p, "none") /\ UNCHANGED respelled

\* fs_core_rmdir and fat12_rmdir, which refuses the driver's directory by its spelling;
\* the CD's driver has none.
Rmdir(r) ==
    LET p == Full(r)
    IN  /\ p # <<>> /\ ~IsPseudo(p) /\ medium = "fat12" /\ p # driverCwd /\ Kind(p) = "dir" /\ Empty(p)
        /\ Put(p, "none")
        /\ respelled' = (respelled \/ FoldPath(p) = FoldPath(driverCwd))

\* A program starts in its parent's directory (process_core_spawn) ...
Spawn == Len(cwds) < MaxDepth /\ cwds' = Append(cwds, Last(cwds)) /\ UNCHANGED <<medium, tree, driverCwd, respelled>>

\* ... and the parent goes on in its own.
Exit == Len(cwds) > 1 /\ cwds' = Front(cwds) /\ UNCHANGED <<medium, tree, driverCwd, respelled>>

Next ==
    \/ \E r \in RawPaths :
          ChangeDir(r) \/ MakeDir(r) \/ OpenCreate(r) \/ Unlink(r) \/ Rmdir(r) \/ \E t \in Targets : Symlink(t, r)
    \/ Spawn \/ Exit

Spec == Init /\ [][Next]_vars
-----------------------------------------------------------------------------
(* Properties. *)

\* Types; there is always a running process.
TypeOK ==
    /\ tree \in [TreePaths -> {"none", "file", "dir"} \cup Targets]
    /\ Len(cwds) \in 1 .. MaxDepth
    /\ \A i \in DOMAIN cwds : Range(cwds[i]) \subseteq DOMAIN Fold
    /\ Range(driverCwd) \subseteq DOMAIN Fold /\ respelled \in BOOLEAN

\* What the components r mean from directory p, name by name.
Meaning(p, comps) ==
    LET w[k \in 0 .. Len(comps)] ==
            IF k = 0 THEN p
            ELSE CASE comps[k] = "." -> w[k - 1] [] comps[k] = ".." -> Parent(w[k - 1])
                   [] OTHER -> Append(w[k - 1], comps[k])
    IN  w[Len(comps)]

\* The string fs_core_normalize_path edits in place is that of the path the components
\* mean, from the directory of any process: it begins with a slash, ends with none
\* unless it is the root, and ".." stops at the root.  The driver's own
\* normalisation, which sees it next, leaves it as it is.
NormalForm ==
    \A i \in DOMAIN cwds, r \in RawPaths :
        LET t == NormalText(cwds[i], r)
        IN  /\ t = Text(Meaning(IF r.abs THEN <<>> ELSE cwds[i], r.comps))
            /\ DriverText(NamesOf(t)) = t

\* fs_resolve_final_symlink finds the end of every chain of fewer than LinkDepth links,
\* each taken from the directory of the link itself, and gives up on all others, the
\* circular ones among them.
LinksResolve ==
    \A r \in RawPaths :
        LET from(q) == LET t == Target[Kind(q)] IN Meaning(IF t.abs THEN <<>> ELSE Parent(q), t.comps)
            chain[k \in 1 .. LinkDepth] ==
                IF k = 1 THEN Full(r) ELSE IF Kind(chain[k - 1]) \in Targets THEN from(chain[k - 1]) ELSE chain[k - 1]
        IN  Resolve(Full(r)) = {chain[k] : k \in {j \in 1 .. LinkDepth : Kind(chain[j]) \notin Targets}}

\* The directory the driver is in exists, unless it was removed under a spelling that
\* differs from the one it was entered by, whichever processes entered it and left;
\* and every name lies in a directory, whatever is created, replaced and removed.
\* The types hold.
DriverCwdLive ==
    /\ TypeOK
    /\ ~respelled => Kind(driverCwd) = "dir"
    /\ \A p \in TreePaths : tree[p] # "none" => p = <<p[1]>> \/ tree[Front(p)] = "dir"
=============================================================================
