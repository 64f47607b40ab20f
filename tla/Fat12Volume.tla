----------------------------- MODULE Fat12Volume -----------------------------
(***************************************************************************)
(* What a FAT12 volume promises to its callers when no transfer fails: a   *)
(* tree of files and directories that every operation changes in one step. *)
(***************************************************************************)
EXTENDS Naturals, Sequences

CONSTANTS
    Paths,     \* sequences of one or two names
    Contents,  \* what a file may hold
    NoFile,    \* nothing of that path
    Directory, \* a directory of that path
    Unknown    \* the volume after a failed transfer

VARIABLE vol

Parent(p) == SubSeq(p, 1, Len(p) - 1)
IsRoot(p) == Len(p) = 0
Reachable(p) == IsRoot(Parent(p)) \/ vol[Parent(p)] = Directory
Empty(p) == \A q \in Paths : Parent(q) = p => vol[q] = NoFile

Init == vol = [p \in Paths |-> NoFile]

\* A file gets new contents, or is made.  Without room the old contents are lost.
Put(p, s) == Reachable(p) /\ vol[p] # Directory /\ vol' = [vol EXCEPT ![p] = s]

MakeDir(p) == Reachable(p) /\ vol[p] = NoFile /\ vol' = [vol EXCEPT ![p] = Directory]

Remove(p) ==
    /\ Reachable(p)
    /\ vol[p] \in Contents \/ (vol[p] = Directory /\ Empty(p))
    /\ vol' = [vol EXCEPT ![p] = NoFile]

Fail == vol' = Unknown

Next ==
    /\ vol # Unknown
    /\ \/ \E p \in Paths : MakeDir(p) \/ Remove(p) \/ \E s \in Contents : Put(p, s)
       \/ Fail

Spec == Init /\ [][Next]_vol
=============================================================================
