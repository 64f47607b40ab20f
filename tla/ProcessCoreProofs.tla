-------------------------- MODULE ProcessCoreProofs --------------------------
(***************************************************************************)
(* Proofs about ProcessCore, for every size of the process table, the      *)
(* descriptor tables and the description table, and any set of VFS nodes.  *)
(***************************************************************************)
EXTENDS ProcessCore, FiniteSetTheorems, WellFoundedInduction, TLAPS

(***************************************************************************)
(* Reference counts of an arbitrary pair of entry tables e and             *)
(* descriptions ds, so that dup2, a release followed by a new reference,   *)
(* is two applications of a lemma.                                         *)
(***************************************************************************)
EntryTables == [Procs -> [FDs -> OFDs \cup {NoDesc}]]

Refs(e, d) == {pf \in Procs \X FDs : e[pf[1]][pf[2]] = d}

Exact(e, ds) ==
    \A d \in OFDs : /\ ds[d].refs = Cardinality(Refs(e, d))
                    /\ ds[d].used <=> Refs(e, d) # {}

HoldingIn(ds, n) == {d \in OFDs : ds[d].kind = "vfs" /\ ds[d].node = n}

Balanced(ds, o) == \A n \in Nodes : o[n] = Cardinality(HoldingIn(ds, n))

\* The entries that name a description form a finite set.
LEMMA RefsFinite ==
    ASSUME NEW e, NEW d
    PROVE  /\ IsFiniteSet(Refs(e, d))
           /\ Cardinality(Refs(e, d)) \in Nat
<1>1. IsFiniteSet(Procs) /\ IsFiniteSet(FDs)
  BY FS_Interval, ProcMaxAssumption, FdCapAssumption DEF Procs, FDs
<1>2. IsFiniteSet(Procs \X FDs)
  BY <1>1, FS_Product
<1>3. Refs(e, d) \in SUBSET (Procs \X FDs)
  BY DEF Refs
<1> QED
  BY <1>2, <1>3, FS_Subset, FS_CardinalityType

\* The lowest element of a non-empty set of naturals is one of its elements:
\* the linear searches of the kernel's tables return a free slot.
LEMMA MinMember ==
    ASSUME NEW S \in SUBSET Nat, S # {}
    PROVE  Min(S) \in S
<1> DEFINE R == {ss \in Nat \X Nat : ss[1] < ss[2]}
<1>1. IsWellFoundedOn(R, Nat)
  BY NatLessThanWellFounded DEF OpToRel
<1> HIDE DEF R
<1>2. PICK x \in S : \A y \in S : ~ (<<y, x>> \in R)
  BY <1>1, WFMin
<1>3. \A y \in S : x <= y
  <2>1. SUFFICES ASSUME NEW y \in S, y < x PROVE FALSE
    OBVIOUS
  <2>2. <<y, x>> \in R
    BY <2>1 DEF R
  <2> QED
    BY <1>2, <2>2
<1> QED
  BY <1>3 DEF Min

\* Storing a free entry that names a description counted once more, or a new
\* one, keeps the counts exact (fd_core_dup, fd_core_open).
LEMMA AddReference ==
    ASSUME NEW e \in EntryTables, NEW ds \in [OFDs -> Description], Exact(e, ds),
           NEW p \in Procs, NEW fd \in FDs, e[p][fd] = NoDesc,
           NEW d \in OFDs, NEW v \in Description,
           v.used, v.refs = ds[d].refs + 1
    PROVE  Exact([e EXCEPT ![p][fd] = d], [ds EXCEPT ![d] = v])
<1> DEFINE e2 == [e EXCEPT ![p][fd] = d]
           ds2 == [ds EXCEPT ![d] = v]
<1>0. d # NoDesc
  BY OfdCapAssumption DEF OFDs, NoDesc
<1>1. Refs(e2, d) = Refs(e, d) \cup {<<p, fd>>}
  BY DEF Refs, EntryTables
<1>2. <<p, fd>> \notin Refs(e, d)
  BY <1>0 DEF Refs
<1>3. Cardinality(Refs(e2, d)) = Cardinality(Refs(e, d)) + 1
  BY <1>1, <1>2, RefsFinite, FS_AddElement
<1>4. \A c \in OFDs \ {d} : Refs(e2, c) = Refs(e, c)
  <2>1. SUFFICES ASSUME NEW c \in OFDs \ {d} PROVE Refs(e2, c) = Refs(e, c)
    OBVIOUS
  <2>2. c # NoDesc
    BY OfdCapAssumption DEF OFDs, NoDesc
  <2>3. \A q \in Procs, f \in FDs : e2[q][f] = c <=> e[q][f] = c
    BY <2>2 DEF EntryTables
  <2> QED
    BY <2>3 DEF Refs
<1>5. SUFFICES ASSUME NEW c \in OFDs
               PROVE  /\ ds2[c].refs = Cardinality(Refs(e2, c))
                      /\ ds2[c].used <=> Refs(e2, c) # {}
  BY DEF Exact
<1>6. CASE c = d
  BY <1>6, <1>1, <1>3 DEF Exact
<1>7. CASE c # d
  BY <1>7, <1>4 DEF Exact
<1> QED
  BY <1>6, <1>7

\* The entries of S that name d form a finite set.
LEMMA NamingFinite ==
    ASSUME NEW p, NEW S \in SUBSET FDs, NEW d
    PROVE  /\ IsFiniteSet(Naming(p, S, d))
           /\ Cardinality(Naming(p, S, d)) \in Nat
           /\ Cardinality(Naming(p, S, d)) = 0 <=> Naming(p, S, d) = {}
<1>1. IsFiniteSet(FDs)
  BY FS_Interval, FdCapAssumption DEF FDs
<1>2. Naming(p, S, d) \in SUBSET FDs
  BY DEF Naming
<1> QED
  BY <1>1, <1>2, FS_Subset, FS_CardinalityType, FS_EmptySet

\* A column of k entries of one table has k elements.
LEMMA ColumnCardinality ==
    ASSUME NEW p, NEW N, IsFiniteSet(N)
    PROVE  /\ IsFiniteSet({p} \X N)
           /\ Cardinality({p} \X N) = Cardinality(N)
<1>1. IsFiniteSet({p}) /\ Cardinality({p}) = 1
  BY FS_Singleton
<1>2. Cardinality(N) \in Nat
  BY FS_CardinalityType
<1> QED
  BY <1>1, <1>2, FS_Product

ReleasedEntries(p, S) == [entries EXCEPT ![p] = EntriesAfterRelease(p, S)]

\* Releasing any set of entries of one table keeps the counts exact
\* (fd_core_close, the release in fd_core_dup2, fd_core_table_destroy).
LEMMA ReleaseExact ==
    ASSUME entries \in EntryTables, desc \in [OFDs -> Description],
           Exact(entries, desc), NEW p \in Procs, NEW S \in SUBSET FDs
    PROVE  /\ Exact(ReleasedEntries(p, S), DescAfterRelease(p, S))
           /\ ReleasedEntries(p, S) \in EntryTables
           /\ DescAfterRelease(p, S) \in [OFDs -> Description]
<1> DEFINE e2 == ReleasedEntries(p, S)
           ds2 == DescAfterRelease(p, S)
<1>1. e2 \in EntryTables
  BY DEF EntryTables, ReleasedEntries, EntriesAfterRelease
<1>2. SUFFICES ASSUME NEW d \in OFDs
               PROVE  /\ ds2[d] \in Description
                      /\ ds2[d].refs = Cardinality(Refs(e2, d))
                      /\ ds2[d].used <=> Refs(e2, d) # {}
  BY <1>1 DEF Exact, DescAfterRelease
<1> DEFINE N == Naming(p, S, d)
           k == Cardinality(N)
<1>3. d # NoDesc
  BY OfdCapAssumption DEF OFDs, NoDesc
<1>4. Refs(e2, d) = Refs(entries, d) \ ({p} \X N)
  <2>1. \A q \in Procs, f \in FDs :
           e2[q][f] = d <=> entries[q][f] = d /\ <<q, f>> \notin {p} \X N
    BY <1>3 DEF EntryTables, ReleasedEntries, EntriesAfterRelease, Naming
  <2> QED
    BY <2>1 DEF Refs
<1>5. {p} \X N \subseteq Refs(entries, d)
  BY DEF Refs, Naming
<1>6. Cardinality(Refs(e2, d)) = desc[d].refs - k
  <2>1. Refs(entries, d) \cap ({p} \X N) = {p} \X N
    BY <1>5
  <2>2. Cardinality({p} \X N) = k
    BY NamingFinite, ColumnCardinality
  <2>3. Cardinality(Refs(entries, d) \ ({p} \X N)) =
        Cardinality(Refs(entries, d)) - Cardinality({p} \X N)
    <3> DEFINE A == Refs(entries, d)
               B == {p} \X N
    <3>1. IsFiniteSet(A)
      BY RefsFinite
    <3> HIDE DEF A, B
    <3>2. Cardinality(A \ B) = Cardinality(A) - Cardinality(A \cap B)
      BY <3>1, FS_Difference
    <3> QED
      BY <3>2, <2>1 DEF A, B
  <2>4. desc[d].refs = Cardinality(Refs(entries, d))
    BY DEF Exact
  <2> QED
    BY <1>4, <2>2, <2>3, <2>4
<1>7. k \in Nat /\ k <= desc[d].refs
  BY <1>6, RefsFinite, NamingFinite DEF Description
<1>8. RefsAfter(p, S, d) = desc[d].refs - k
  BY <1>7 DEF RefsAfter, Description
<1>9. Refs(e2, d) = {} <=> RefsAfter(p, S, d) = 0
  BY <1>6, <1>8, RefsFinite, FS_EmptySet
<1>10. k = 0 <=> N = {}
  BY NamingFinite
<1>11. CASE ~desc[d].used
  <2>1. ds2[d] = desc[d]
    BY <1>11 DEF DescAfterRelease, LastRelease
  <2>2. Refs(entries, d) = {}
    BY <1>11 DEF Exact
  <2>3. Refs(e2, d) = {}
    BY <1>4, <2>2
  <2> QED
    BY <1>11, <2>1, <2>2, <2>3 DEF Exact
<1>12. CASE desc[d].used /\ d \in LastRelease(p, S)
  <2>1. ds2[d] = ZeroDesc
    BY <1>12 DEF DescAfterRelease
  <2>2. RefsAfter(p, S, d) = 0
    BY <1>12 DEF LastRelease
  <2> QED
    BY <2>1, <2>2, <1>6, <1>8, <1>9 DEF ZeroDesc, Description, Kinds
<1>13. CASE desc[d].used /\ d \notin LastRelease(p, S)
  <2>1. ds2[d] = [desc[d] EXCEPT !.refs = RefsAfter(p, S, d)]
    BY <1>13 DEF DescAfterRelease
  <2>2. RefsAfter(p, S, d) # 0
    <3>1. N # {} => RefsAfter(p, S, d) # 0
      BY <1>13 DEF LastRelease
    <3>2. N = {} => RefsAfter(p, S, d) = desc[d].refs
      BY <1>8, <1>10, <1>7 DEF Description
    <3>3. desc[d].refs # 0
      BY <1>13, RefsFinite, FS_EmptySet DEF Exact
    <3> QED
      BY <3>1, <3>2, <3>3
  <2>3. RefsAfter(p, S, d) \in Nat
    BY <1>7, <1>8 DEF Description
  <2> QED
    BY <2>1, <2>2, <2>3, <1>13, <1>6, <1>8, <1>9 DEF Description
<1> QED
  BY <1>11, <1>12, <1>13

ClonedDesc(parent) ==
    [d \in OFDs |->
        [desc[d] EXCEPT !.refs = @ + Cardinality(Naming(parent, FDs, d))]]

\* Copying a table into an empty one keeps the counts exact
\* (fd_core_table_clone).
LEMMA CloneExact ==
    ASSUME entries \in EntryTables, desc \in [OFDs -> Description],
           Exact(entries, desc), NEW parent \in Procs, NEW child \in Procs,
           entries[child] = NoEntries
    PROVE  /\ Exact([entries EXCEPT ![child] = entries[parent]], ClonedDesc(parent))
           /\ [entries EXCEPT ![child] = entries[parent]] \in EntryTables
           /\ ClonedDesc(parent) \in [OFDs -> Description]
<1> DEFINE e2 == [entries EXCEPT ![child] = entries[parent]]
           ds2 == ClonedDesc(parent)
<1>1. e2 \in EntryTables
  BY DEF EntryTables
<1>2. SUFFICES ASSUME NEW d \in OFDs
               PROVE  /\ ds2[d] \in Description
                      /\ ds2[d].refs = Cardinality(Refs(e2, d))
                      /\ ds2[d].used <=> Refs(e2, d) # {}
  BY <1>1 DEF Exact, ClonedDesc
<1> DEFINE N == Naming(parent, FDs, d)
           k == Cardinality(N)
           A == Refs(entries, d)
           B == {child} \X N
<1>3. d # NoDesc
  BY OfdCapAssumption DEF OFDs, NoDesc
<1>4. Refs(e2, d) = A \cup B
  <2>1. \A q \in Procs, f \in FDs :
           e2[q][f] = d <=> entries[q][f] = d \/ <<q, f>> \in {child} \X N
    BY <1>3 DEF EntryTables, Naming, NoEntries
  <2>2. {child} \X N \subseteq Procs \X FDs
    BY DEF Naming
  <2> QED
    BY <2>1, <2>2 DEF Refs
<1>5. A \cap B = {}
  BY <1>3 DEF Refs, NoEntries, Naming
<1>6. /\ IsFiniteSet(N) /\ IsFiniteSet(A) /\ IsFiniteSet(B)
      /\ Cardinality(B) = k /\ k \in Nat /\ Cardinality(A) \in Nat
  BY NamingFinite, ColumnCardinality, RefsFinite
<1>7. /\ ds2[d].used = desc[d].used
      /\ ds2[d].refs = desc[d].refs + k
      /\ ds2[d] \in Description
  BY <1>6 DEF ClonedDesc, Description
<1>8. desc[d].refs = Cardinality(A) /\ (desc[d].used <=> A # {})
  BY DEF Exact
<1>9. N # {} => A # {}
  <2>1. SUFFICES ASSUME NEW f \in N PROVE <<parent, f>> \in A
    OBVIOUS
  <2> QED
    BY DEF Refs, Naming
<1>10. N = {} => B = {}
  OBVIOUS
<1> HIDE DEF A, B, N, k, ds2
<1>11. Cardinality(A \cup B) = Cardinality(A) + k
  <2>1. Cardinality(A \cap B) = 0
    BY <1>5, FS_EmptySet
  <2>2. Cardinality(A \cup B) = Cardinality(A) + Cardinality(B) - Cardinality(A \cap B)
    BY <1>6, FS_Union
  <2> QED
    BY <2>1, <2>2, <1>6
<1>12. ds2[d].refs = Cardinality(Refs(e2, d))
  BY <1>4, <1>7, <1>8, <1>11
<1>13. A \cup B # {} <=> A # {}
  BY <1>9, <1>10
<1> QED
  BY <1>4, <1>7, <1>8, <1>12, <1>13

\* The descriptions that hold a node form a finite set.
LEMMA HoldingFinite ==
    ASSUME NEW ds, NEW n
    PROVE  IsFiniteSet(HoldingIn(ds, n)) /\ Cardinality(HoldingIn(ds, n)) \in Nat
<1>1. IsFiniteSet(OFDs)
  BY FS_Interval, OfdCapAssumption DEF OFDs
<1>2. HoldingIn(ds, n) \in SUBSET OFDs
  BY DEF HoldingIn
<1> QED
  BY <1>1, <1>2, FS_Subset, FS_CardinalityType

\* Releasing any set of entries closes exactly the nodes no description holds
\* any more.
LEMMA ReleaseBalanced ==
    ASSUME desc \in [OFDs -> Description], Balanced(desc, opens),
           NEW p \in Procs, NEW S \in SUBSET FDs
    PROVE  /\ Balanced(DescAfterRelease(p, S), OpensAfterRelease(p, S))
           /\ OpensAfterRelease(p, S) \in [Nodes -> Int]
<1> DEFINE ds2 == DescAfterRelease(p, S)
           o2 == OpensAfterRelease(p, S)
<1>1. SUFFICES ASSUME NEW n \in Nodes
               PROVE  o2[n] = Cardinality(HoldingIn(ds2, n)) /\ o2[n] \in Int
  BY DEF Balanced, OpensAfterRelease
<1> DEFINE H == HoldingIn(desc, n)
           C == {d \in LastRelease(p, S) : desc[d].kind = "vfs" /\ desc[d].node = n}
<1>2. HoldingIn(ds2, n) = H \ C
  <2>1. \A d \in OFDs : /\ d \in LastRelease(p, S) => ds2[d].kind = "unused"
                        /\ d \notin LastRelease(p, S) =>
                             /\ ds2[d].kind = desc[d].kind
                             /\ ds2[d].node = desc[d].node
    BY DEF DescAfterRelease, ZeroDesc, Description
  <2> QED
    BY <2>1 DEF HoldingIn
<1>3. H \cap C = C
  BY DEF HoldingIn, LastRelease
<1>4. IsFiniteSet(H) /\ Cardinality(H) \in Nat
  BY HoldingFinite
<1>5. opens[n] = Cardinality(H)
  BY DEF Balanced
<1>6. o2[n] = opens[n] - Cardinality(C)
  BY DEF OpensAfterRelease
<1> HIDE DEF H, C, ds2, o2
<1>7. Cardinality(H \ C) = Cardinality(H) - Cardinality(C)
  BY <1>3, <1>4, FS_Difference
<1>8. Cardinality(H \ C) \in Nat
  BY <1>4, FS_Difference, FS_CardinalityType
<1> QED
  BY <1>2, <1>5, <1>6, <1>7, <1>8
-----------------------------------------------------------------------------
(***************************************************************************)
(* The descriptor layer's part of the inductive invariant and its          *)
(* preservation by every operation of FdCore.                              *)
(***************************************************************************)
FdInv ==
    /\ entries \in EntryTables
    /\ desc \in [OFDs -> Description]
    /\ opens \in [Nodes -> Int]
    /\ Exact(entries, desc)
    /\ Balanced(desc, opens)
    /\ \A d \in OFDs : ~desc[d].used => desc[d] = ZeroDesc

\* A free entry, or a free description, that the linear search finds.
LEMMA FreeFd ==
    ASSUME NEW p \in Procs, FreeFds(p) # {}
    PROVE  Min(FreeFds(p)) \in FDs /\ entries[p][Min(FreeFds(p))] = NoDesc
<1>1. FreeFds(p) \in SUBSET Nat
  BY FdCapAssumption DEF FreeFds, FDs
<1>2. Min(FreeFds(p)) \in FreeFds(p)
  BY <1>1, MinMember
<1> QED
  BY <1>2 DEF FreeFds, Used

\* fd_alloc_description returns a description that was not in use.
LEMMA FreeDesc ==
    ASSUME FreeDescs # {}
    PROVE  Min(FreeDescs) \in OFDs /\ ~desc[Min(FreeDescs)].used
<1>1. FreeDescs \in SUBSET Nat
  BY OfdCapAssumption DEF FreeDescs, OFDs
<1>2. Min(FreeDescs) \in FreeDescs
  BY <1>1, MinMember
<1> QED
  BY <1>2 DEF FreeDescs

\* fd_core_open keeps the descriptor invariant.
LEMMA OpenFdInv ==
    ASSUME FdInv, NEW p \in Procs, NEW n \in Nodes, Open(p, n)
    PROVE  FdInv'
<1> DEFINE fd == Min(FreeFds(p))
           d == Min(FreeDescs)
           v == NewDesc("vfs", n)
<1>1. fd \in FDs /\ entries[p][fd] = NoDesc /\ d \in OFDs /\ ~desc[d].used
  BY FreeFd, FreeDesc DEF Open
<1>2. /\ entries' = [entries EXCEPT ![p][fd] = d]
      /\ desc' = [desc EXCEPT ![d] = v]
      /\ opens' = [opens EXCEPT ![n] = @ + 1]
  BY DEF Open
<1>3. desc[d] = ZeroDesc
  BY <1>1 DEF FdInv
<1>4. v \in Description /\ v.used /\ v.refs = 1 /\ v.kind = "vfs" /\ v.node = n
  BY DEF NewDesc, Description, Kinds
<1> HIDE DEF fd, d, v
<1>5. Exact(entries', desc')
  <2>1. v.refs = desc[d].refs + 1
    BY <1>3, <1>4 DEF ZeroDesc
  <2>2. Exact([entries EXCEPT ![p][fd] = d], [desc EXCEPT ![d] = v])
    BY <1>1, <1>4, <2>1, AddReference DEF FdInv
  <2> QED
    BY <1>2, <2>2
<1>6. /\ entries' \in EntryTables
      /\ desc' \in [OFDs -> Description]
      /\ opens' \in [Nodes -> Int]
  BY <1>1, <1>2, <1>4 DEF FdInv, EntryTables
<1>7. \A c \in OFDs : ~desc'[c].used => desc'[c] = ZeroDesc
  BY <1>2, <1>4 DEF FdInv
<1>8. Balanced(desc', opens')
  <2>1. SUFFICES ASSUME NEW m \in Nodes
                 PROVE  opens'[m] = Cardinality(HoldingIn(desc', m))
    BY DEF Balanced
  <2>2. CASE m = n
    <3>1. HoldingIn(desc', m) = HoldingIn(desc, m) \cup {d}
      BY <1>1, <1>2, <1>4, <2>2 DEF HoldingIn, FdInv
    <3>2. d \notin HoldingIn(desc, m)
      BY <1>3 DEF HoldingIn, ZeroDesc
    <3>3. Cardinality(HoldingIn(desc, m) \cup {d}) = Cardinality(HoldingIn(desc, m)) + 1
      BY <3>2, HoldingFinite, FS_AddElement
    <3> QED
      BY <3>1, <3>3, <1>2, <2>2 DEF FdInv, Balanced
  <2>3. CASE m # n
    <3>1. HoldingIn(desc', m) = HoldingIn(desc, m)
      BY <1>1, <1>2, <1>3, <1>4, <2>3, NoNodeAssumption DEF HoldingIn, ZeroDesc, FdInv
    <3> QED
      BY <3>1, <1>2, <2>3 DEF FdInv, Balanced
  <2> QED
    BY <2>2, <2>3
<1> QED
  BY <1>5, <1>6, <1>7, <1>8 DEF FdInv

\* A release of entries, with the VFS closes it makes, keeps the descriptor
\* invariant.
LEMMA ReleaseFdInv ==
    ASSUME FdInv, NEW p \in Procs, NEW S \in SUBSET FDs,
           entries' = ReleasedEntries(p, S), desc' = DescAfterRelease(p, S),
           opens' = OpensAfterRelease(p, S)
    PROVE  FdInv'
<1>1. /\ Exact(entries', desc')
      /\ entries' \in EntryTables
      /\ desc' \in [OFDs -> Description]
  BY ReleaseExact DEF FdInv
<1>2. Balanced(desc', opens') /\ opens' \in [Nodes -> Int]
  BY ReleaseBalanced DEF FdInv
<1>3. \A d \in OFDs : ~desc'[d].used => desc'[d] = ZeroDesc
  BY DEF FdInv, DescAfterRelease, Description
<1> QED
  BY <1>1, <1>2, <1>3 DEF FdInv

\* fd_core_close keeps the descriptor layer's invariant.
LEMMA CloseFdInv ==
    ASSUME FdInv, NEW p \in Procs, NEW fd \in FDs, Close(p, fd)
    PROVE  FdInv'
BY ReleaseFdInv DEF Close, ReleasedEntries

\* So does an fd_core_dup2 whose close of newfd reports an error.
LEMMA Dup2CloseFailsFdInv ==
    ASSUME FdInv, NEW p \in Procs, NEW oldfd \in FDs, NEW newfd \in FDs,
           Dup2CloseFails(p, oldfd, newfd)
    PROVE  FdInv'
BY ReleaseFdInv DEF Dup2CloseFails, ReleasedEntries

\* So does fd_core_table_destroy, which releases every entry of a table.
LEMMA TableDestroyFdInv ==
    ASSUME FdInv, NEW p \in Procs, TableDestroy(p)
    PROVE  FdInv'
<1>1. Used(p) \in SUBSET FDs
  BY DEF Used
<1>2. EntriesAfterRelease(p, Used(p)) = NoEntries
  BY DEF EntriesAfterRelease, NoEntries, Used
<1> QED
  BY <1>1, <1>2, ReleaseFdInv DEF TableDestroy, ReleasedEntries

\* One more reference to a description in use touches no node.
LEMMA CountedRefs ==
    ASSUME NEW ds \in [OFDs -> Description], NEW d \in OFDs, ds[d].used
    PROVE  LET v == [ds[d] EXCEPT !.refs = @ + 1]
           IN  /\ [ds EXCEPT ![d].refs = @ + 1] = [ds EXCEPT ![d] = v]
               /\ v \in Description /\ v.used /\ v.refs = ds[d].refs + 1
               /\ v.kind = ds[d].kind /\ v.node = ds[d].node
BY DEF Description

\* fd_core_dup adds one entry and one reference.
LEMMA DupFdInv ==
    ASSUME FdInv, NEW p \in Procs, NEW oldfd \in FDs, Dup(p, oldfd)
    PROVE  FdInv'
<1> DEFINE fd == Min(FreeFds(p))
           d == entries[p][oldfd]
           v == [desc[d] EXCEPT !.refs = @ + 1]
<1>1. fd \in FDs /\ entries[p][fd] = NoDesc
  BY FreeFd DEF Dup
<1>2. d \in OFDs /\ desc[d].used
  BY DEF Dup, Valid, FdInv, EntryTables
<1>3. /\ entries' = [entries EXCEPT ![p][fd] = d]
      /\ desc' = [desc EXCEPT ![d].refs = @ + 1]
      /\ opens' = opens
  BY DEF Dup
<1>4. /\ [desc EXCEPT ![d].refs = @ + 1] = [desc EXCEPT ![d] = v]
      /\ v \in Description /\ v.used /\ v.refs = desc[d].refs + 1
      /\ v.kind = desc[d].kind /\ v.node = desc[d].node
  BY <1>2, CountedRefs DEF FdInv
<1> HIDE DEF fd, d, v
<1>5. desc' = [desc EXCEPT ![d] = v]
  BY <1>3, <1>4
<1>6. Exact([entries EXCEPT ![p][fd] = d], [desc EXCEPT ![d] = v])
  BY <1>1, <1>2, <1>4, AddReference DEF FdInv
<1>7. /\ entries' \in EntryTables
      /\ desc' \in [OFDs -> Description]
  BY <1>1, <1>2, <1>3, <1>4, <1>5 DEF FdInv, EntryTables
<1>8. \A c \in OFDs : ~desc'[c].used => desc'[c] = ZeroDesc
  BY <1>4, <1>5 DEF FdInv
<1>9. Balanced(desc', opens')
  <2>1. \A m \in Nodes : HoldingIn(desc', m) = HoldingIn(desc, m)
    BY <1>2, <1>4, <1>5 DEF HoldingIn, FdInv
  <2> QED
    BY <2>1, <1>3 DEF FdInv, Balanced
<1> QED
  BY <1>3, <1>5, <1>6, <1>7, <1>8, <1>9 DEF FdInv

\* fd_core_dup2 is a release of newfd followed by a new reference.
LEMMA Dup2FdInv ==
    ASSUME FdInv, NEW p \in Procs, NEW oldfd \in FDs, NEW newfd \in FDs,
           Dup2(p, oldfd, newfd)
    PROVE  FdInv'
<1> DEFINE S == {newfd} \cap Used(p)
           e1 == ReleasedEntries(p, S)
           ds1 == DescAfterRelease(p, S)
           d == entries[p][oldfd]
           v == [ds1[d] EXCEPT !.refs = @ + 1]
<1>1. S \in SUBSET FDs
  OBVIOUS
<1>2. /\ Exact(e1, ds1)
      /\ e1 \in EntryTables
      /\ ds1 \in [OFDs -> Description]
  BY <1>1, ReleaseExact DEF FdInv
<1>3. d \in OFDs /\ oldfd # newfd
  BY DEF Dup2, Valid, FdInv, EntryTables
<1>4. e1[p][newfd] = NoDesc /\ e1[p][oldfd] = d
  BY <1>3 DEF ReleasedEntries, EntriesAfterRelease, Used, FdInv, EntryTables
<1>5. ds1[d].used
  <2>1. <<p, oldfd>> \in Refs(e1, d)
    BY <1>4 DEF Refs
  <2> QED
    BY <2>1, <1>2, <1>3 DEF Exact
<1>6. /\ entries' = [e1 EXCEPT ![p][newfd] = d]
      /\ desc' = [ds1 EXCEPT ![d].refs = @ + 1]
      /\ opens' = OpensAfterRelease(p, S)
  BY DEF Dup2, ReleasedEntries, FdInv, EntryTables
<1>7. /\ [ds1 EXCEPT ![d].refs = @ + 1] = [ds1 EXCEPT ![d] = v]
      /\ v \in Description /\ v.used /\ v.refs = ds1[d].refs + 1
      /\ v.kind = ds1[d].kind /\ v.node = ds1[d].node
  BY <1>2, <1>3, <1>5, CountedRefs
<1>8. \A c \in OFDs : ~ds1[c].used => ds1[c] = ZeroDesc
  BY DEF FdInv, DescAfterRelease, Description
<1>9. Balanced(ds1, opens') /\ opens' \in [Nodes -> Int]
  BY <1>1, <1>6, ReleaseBalanced DEF FdInv
<1> HIDE DEF S, e1, ds1, d, v
<1>10. desc' = [ds1 EXCEPT ![d] = v]
  BY <1>6, <1>7
<1>11. Exact([e1 EXCEPT ![p][newfd] = d], [ds1 EXCEPT ![d] = v])
  BY <1>2, <1>3, <1>4, <1>7, AddReference
<1>12. /\ entries' \in EntryTables
       /\ desc' \in [OFDs -> Description]
  BY <1>2, <1>3, <1>6, <1>7, <1>10 DEF EntryTables
<1>13. \A c \in OFDs : ~desc'[c].used => desc'[c] = ZeroDesc
  BY <1>2, <1>7, <1>8, <1>10
<1>14. Balanced(desc', opens')
  <2>1. \A m \in Nodes : HoldingIn(desc', m) = HoldingIn(ds1, m)
    BY <1>2, <1>3, <1>7, <1>10 DEF HoldingIn
  <2> QED
    BY <2>1, <1>9 DEF Balanced
<1> QED
  BY <1>6, <1>9, <1>10, <1>11, <1>12, <1>13, <1>14 DEF FdInv

\* fd_core_table_clone adds as many references as it copies entries.
LEMMA CloneFdInv ==
    ASSUME FdInv, NEW child \in Procs, NEW parent \in Procs,
           entries[child] = NoEntries, Clone(child, parent)
    PROVE  FdInv'
<1>1. /\ entries' = [entries EXCEPT ![child] = entries[parent]]
      /\ desc' = ClonedDesc(parent)
      /\ opens' = opens
  BY DEF Clone, ClonedDesc
<1>2. /\ Exact(entries', desc')
      /\ entries' \in EntryTables
      /\ desc' \in [OFDs -> Description]
  BY <1>1, CloneExact DEF FdInv
<1>3. \A d \in OFDs : desc'[d].used = desc[d].used /\ desc'[d].kind = desc[d].kind
                      /\ desc'[d].node = desc[d].node
  BY <1>1 DEF ClonedDesc, FdInv, Description
<1>4. \A m \in Nodes : HoldingIn(desc', m) = HoldingIn(desc, m)
  BY <1>3 DEF HoldingIn
<1>5. Balanced(desc', opens')
  BY <1>1, <1>4 DEF Balanced, FdInv
<1>6. ASSUME NEW d \in OFDs, ~desc'[d].used PROVE desc'[d] = ZeroDesc
  <2>1. Refs(entries', d) = {}
    BY <1>2, <1>6 DEF Exact
  <2>2. desc'[d].refs = 0
    BY <2>1, <1>2, FS_EmptySet DEF Exact
  <2>3. desc[d] = ZeroDesc
    BY <1>3, <1>6 DEF FdInv
  <2> QED
    BY <1>2, <1>3, <1>6, <2>2, <2>3 DEF Description, ZeroDesc
<1> QED
  BY <1>1, <1>2, <1>5, <1>6 DEF FdInv
-----------------------------------------------------------------------------
(***************************************************************************)
(* The process layer's part: the exec chain, with the contexts saved in    *)
(* its frames and every pid below g_next_pid, which makes the parent that  *)
(* process_find_pid finds on an exit the one that called exec.             *)
(***************************************************************************)
StackAt(k) == IF k = 0 THEN 0 ELSE k - 1

FramesOK ==
    \A i \in 1 .. depth :
        /\ frames[i].oldSavedEsp = i - 1
        /\ frames[i].oldEsp0 = StackAt(i - 1)
        /\ frames[i].stack = IF i = 1 THEN BootStack ELSE StackAt(i - 1)
        /\ frames[i].region = "shell" => i = 1
        /\ proc[Level(i)].ppid = proc[Level(i - 1)].pid

ChainInv ==
    /\ proc \in [Procs -> [pid : Nat, ppid : Nat,
                           state : {"unused", "running", "zombie"}]]
    /\ inited \in [Procs -> BOOLEAN]
    /\ nextPid \in Nat /\ image \in [Regions -> Nat]
    /\ depth \in 0 .. DepthMax
    /\ frames \in Seq(Frame) /\ Len(frames) = depth
    /\ savedEsp = depth /\ esp0 = StackAt(depth)
    /\ current = Level(depth)
    /\ FramesOK
    /\ \A i, j \in 0 .. depth : Level(i) = Level(j) => i = j
    /\ \A p \in Procs : /\ proc[p].state # "zombie"
                        /\ proc[p].state = "running" <=> \E i \in 0 .. depth : p = Level(i)
                        /\ proc[p].state = "running" => proc[p].pid < nextPid
    /\ \A p, q \in Procs \ FreeSlots : proc[p].pid = proc[q].pid => p = q
    /\ ShellImageIntact

IInv == FdInv /\ TablesMatchProcesses /\ ChainInv

\* Every level of the exec chain is a slot of the process table.
LEMMA LevelInProcs ==
    ASSUME frames \in Seq(Frame), Len(frames) = depth, NEW i \in 0 .. depth
    PROVE  Level(i) \in Procs
<1>1. CASE i = 0
  BY <1>1, ProcMaxAssumption DEF Level, Procs
<1>2. CASE i # 0
  <2>1. i \in 1 .. Len(frames)
    BY <1>2
  <2>2. frames[i] \in Frame
    BY <2>1
  <2> QED
    BY <1>2, <2>2 DEF Level, Frame
<1> QED
  BY <1>1, <1>2

\* The inductive invariant holds at boot, after process_core_init.
LEMMA InitIInv == ASSUME Init PROVE IInv
<1> USE DEF Init, TableInit
<1>1. /\ entries \in EntryTables
      /\ desc \in [OFDs -> Description]
      /\ opens \in [Nodes -> Int]
  BY FdCapAssumption, OfdCapAssumption, StdAssumption
     DEF EntryTables, FDs, OFDs, NoDesc, Description, Kinds, NewDesc, ZeroDesc
<1>2. Exact(entries, desc)
  <2>1. SUFFICES ASSUME NEW d \in OFDs
                 PROVE  /\ desc[d].refs = Cardinality(Refs(entries, d))
                        /\ desc[d].used <=> Refs(entries, d) # {}
    BY DEF Exact
  <2>2. CASE d < StdCount
    <3>1. Refs(entries, d) = {<<0, d>>}
      BY <2>2, FdCapAssumption, OfdCapAssumption, StdAssumption, ProcMaxAssumption
         DEF Refs, OFDs, FDs, NoDesc, Procs
    <3>2. Cardinality(Refs(entries, d)) = 1
      BY <3>1, FS_Singleton
    <3> QED
      BY <3>1, <3>2, <2>2 DEF NewDesc
  <2>3. CASE ~(d < StdCount)
    <3>1. Refs(entries, d) = {}
      BY <2>3, FdCapAssumption, OfdCapAssumption, StdAssumption, ProcMaxAssumption
         DEF Refs, OFDs, FDs, NoDesc, Procs
    <3>2. Cardinality(Refs(entries, d)) = 0
      BY <3>1, FS_EmptySet
    <3> QED
      BY <3>1, <3>2, <2>3 DEF ZeroDesc
  <2> QED
    BY <2>2, <2>3
<1>3. Balanced(desc, opens)
  <2>1. \A n \in Nodes : HoldingIn(desc, n) = {}
    BY DEF HoldingIn, NewDesc, ZeroDesc
  <2> QED
    BY <2>1, FS_EmptySet DEF Balanced
<1>4. FdInv
  BY <1>1, <1>2, <1>3 DEF FdInv, NewDesc
<1>5. TablesMatchProcesses
  BY DEF TablesMatchProcesses, FreeSlots, ClearProcess, NoEntries
<1>6. ChainInv
  BY DepthAssumption, ProcMaxAssumption
     DEF ChainInv, FramesOK, Level, FreeSlots, ClearProcess, NoPid, Regions,
         StackAt, ShellImageIntact, Procs
<1> QED
  BY <1>4, <1>5, <1>6 DEF IInv

\* A descriptor call of the current process keeps the process layer's part.
LEMMA FdStepIInv ==
    ASSUME IInv, FdInv', UNCHANGED <<procVars, execVars, inited>>,
           \A p \in Procs \ {current} : entries'[p] = entries[p]
    PROVE  IInv'
<1>1. ChainInv'
  BY DEF IInv, ChainInv, FramesOK, Level, FreeSlots, ShellImageIntact, procVars, execVars
<1>2. current \in Procs /\ current \notin FreeSlots
  <2>1. depth \in 0 .. depth /\ current = Level(depth)
    BY DEF IInv, ChainInv
  <2>2. current \in Procs
    BY <2>1, LevelInProcs DEF IInv, ChainInv
  <2> QED
    BY <2>1, <2>2 DEF IInv, ChainInv, FreeSlots
<1>3. TablesMatchProcesses'
  BY <1>2 DEF IInv, TablesMatchProcesses, FreeSlots, procVars, execVars
<1> QED
  BY <1>1, <1>3 DEF IInv

\* A spawn with the entry into ring 3 keeps the invariant.
LEMMA ExecIInv ==
    ASSUME IInv, NEW r \in Regions, Exec(r)
    PROVE  IInv'
<1> DEFINE child == Min(FreeSlots)
           f == [child |-> child, region |-> r,
                 stack |-> IF depth = 0 THEN BootStack ELSE esp0,
                 oldEsp0 |-> esp0, oldSavedEsp |-> savedEsp]
<1>1. child \in FreeSlots /\ child \in Procs
  <2>1. FreeSlots \in SUBSET Nat
    BY ProcMaxAssumption DEF FreeSlots, Procs
  <2>2. child \in FreeSlots
    BY <2>1, MinMember DEF Exec
  <2> QED
    BY <2>2 DEF FreeSlots
<1>2. current \in Procs /\ current \notin FreeSlots
  <2>1. depth \in 0 .. depth /\ current = Level(depth)
    BY DEF IInv, ChainInv
  <2>2. current \in Procs
    BY <2>1, LevelInProcs DEF IInv, ChainInv
  <2> QED
    BY <2>1, <2>2 DEF IInv, ChainInv, FreeSlots
<1>3. /\ depth < DepthMax /\ (r = "shell" => depth = 0)
      /\ proc' = [proc EXCEPT ![child] = [pid |-> nextPid, ppid |-> proc[current].pid,
                                          state |-> "running"]]
      /\ nextPid' = nextPid + 1
      /\ Clone(child, current)
      /\ current' = child
      /\ frames' = Append(frames, f)
      /\ savedEsp' = Len(frames) + 1
      /\ esp0' = depth
      /\ depth' = depth + 1
      /\ image' = [image EXCEPT ![r] = nextPid]
  BY DEF Exec, SpawnExec, Admitted, KernelStack
<1>4. FdInv'
  BY <1>1, <1>2, <1>3, CloneFdInv DEF IInv, TablesMatchProcesses
<1>5. TablesMatchProcesses'
  <2>1. FreeSlots' = FreeSlots \ {child}
    BY <1>1, <1>3 DEF FreeSlots, IInv, ChainInv
  <2>2. \A p \in Procs \ {child} : inited'[p] = inited[p] /\ entries'[p] = entries[p]
    BY <1>3 DEF Clone, IInv, ChainInv, FdInv, EntryTables
  <2>3. inited'[child]
    BY <1>1, <1>3 DEF Clone, IInv, ChainInv
  <2> QED
    BY <1>1, <2>1, <2>2, <2>3 DEF IInv, TablesMatchProcesses
<1>6. f \in Frame
  BY <1>1, <1>3, DepthAssumption DEF Frame, IInv, ChainInv, StackAt
<1> HIDE DEF f, child
<1>7. /\ frames' \in Seq(Frame) /\ Len(frames') = depth'
      /\ \A i \in 1 .. depth : frames'[i] = frames[i]
      /\ frames'[depth'] = f
      /\ depth' \in 0 .. DepthMax
  BY <1>3, <1>6, DepthAssumption DEF IInv, ChainInv
<1>8. f.child = child /\ f.region = r /\ f.oldEsp0 = esp0 /\ f.oldSavedEsp = savedEsp
      /\ f.stack = IF depth = 0 THEN BootStack ELSE esp0
  BY DEF f
<1>9. /\ \A i \in 0 .. depth : Level(i)' = Level(i) /\ Level(i) \in Procs /\ Level(i) # child
      /\ Level(depth)' = child
      /\ \A i : i = depth' => Level(i)' = child
  <2>1. \A i \in 0 .. depth : Level(i)' = Level(i)
    BY <1>7 DEF Level
  <2>2. \A i \in 0 .. depth : Level(i) \in Procs
    BY LevelInProcs DEF IInv, ChainInv
  <2>3. \A i \in 0 .. depth : Level(i) # child
    BY <2>2, <1>1 DEF IInv, ChainInv, FreeSlots
  <2>4. depth' # 0 /\ frames'[depth'].child = child
    BY <1>3, <1>7, <1>8 DEF IInv, ChainInv
  <2>5. Level(depth)' = child /\ \A i : i = depth' => Level(i)' = child
    BY <2>4 DEF Level
  <2> QED
    BY <2>1, <2>2, <2>3, <2>5
<1>10. FramesOK'
  <2>1. SUFFICES ASSUME NEW i \in 1 .. depth + 1
                 PROVE  /\ frames'[i].oldSavedEsp = i - 1
                        /\ frames'[i].oldEsp0 = StackAt(i - 1)
                        /\ frames'[i].stack = IF i = 1 THEN BootStack ELSE StackAt(i - 1)
                        /\ frames'[i].region = "shell" => i = 1
                        /\ proc'[Level(i)'].ppid = proc'[Level(i - 1)'].pid
    BY <1>3 DEF FramesOK
  <2>2. CASE i = depth + 1
    <3>1. frames'[i] = f /\ i - 1 = depth
      BY <2>2, <1>3, <1>7 DEF IInv, ChainInv
    <3>2. Level(i)' = child /\ Level(i - 1)' = current /\ current # child
      BY <2>2, <1>3, <1>9, <3>1 DEF IInv, ChainInv
    <3>3. proc'[child].ppid = proc[current].pid /\ proc'[current] = proc[current]
      BY <1>1, <1>2, <1>3, <3>2 DEF IInv, ChainInv
    <3> QED
      BY <1>3, <1>8, <3>1, <3>2, <3>3, <2>2 DEF IInv, ChainInv, StackAt
  <2>3. CASE i # depth + 1
    <3>1. i \in 1 .. depth /\ i \in 0 .. depth /\ i - 1 \in 0 .. depth
      BY <2>3 DEF IInv, ChainInv
    <3>2. frames'[i] = frames[i]
      BY <3>1, <1>7
    <3>3. /\ Level(i)' = Level(i) /\ Level(i - 1)' = Level(i - 1)
          /\ proc'[Level(i)] = proc[Level(i)] /\ proc'[Level(i - 1)] = proc[Level(i - 1)]
      BY <3>1, <1>9, <1>3 DEF IInv, ChainInv
    <3> QED
      BY <3>1, <3>2, <3>3 DEF IInv, ChainInv, FramesOK
  <2> QED
    BY <2>2, <2>3
<1>11. \A i, j \in 0 .. depth' : Level(i)' = Level(j)' => i = j
  <2>1. \A i \in 0 .. depth' : i \in 0 .. depth \/ i = depth'
    BY <1>3 DEF IInv, ChainInv
  <2> QED
    BY <2>1, <1>9 DEF IInv, ChainInv
<1>12. /\ proc' \in [Procs -> [pid : Nat, ppid : Nat,
                               state : {"unused", "running", "zombie"}]]
       /\ inited' \in [Procs -> BOOLEAN]
       /\ nextPid' \in Nat /\ image' \in [Regions -> Nat]
  BY <1>1, <1>2, <1>3 DEF IInv, ChainInv, Clone
<1>13. ASSUME NEW p \in Procs
       PROVE  /\ proc'[p].state # "zombie"
              /\ proc'[p].state = "running" <=> \E i \in 0 .. depth' : p = Level(i)'
              /\ proc'[p].state = "running" => proc'[p].pid < nextPid'
  <2>1. CASE p = child
    <3>1. depth' \in 0 .. depth'
      BY <1>3 DEF IInv, ChainInv
    <3> QED
      BY <2>1, <3>1, <1>1, <1>3, <1>9 DEF IInv, ChainInv
  <2>2. CASE p # child
    <3>1. proc'[p] = proc[p]
      BY <2>2, <1>3 DEF IInv, ChainInv
    <3>2. (\E i \in 0 .. depth' : p = Level(i)') <=> \E i \in 0 .. depth : p = Level(i)
      <4>1. \A i \in 0 .. depth' : i \in 0 .. depth \/ i = depth'
        BY <1>3 DEF IInv, ChainInv
      <4>2. \A i \in 0 .. depth : i \in 0 .. depth'
        BY <1>3 DEF IInv, ChainInv
      <4> QED
        BY <4>1, <4>2, <1>9, <2>2
    <3> QED
      BY <3>1, <3>2, <1>3 DEF IInv, ChainInv
  <2> QED
    BY <2>1, <2>2
<1>14. \A p, q \in Procs \ FreeSlots' : proc'[p].pid = proc'[q].pid => p = q
  <2>1. \A p \in Procs \ FreeSlots' : p = child \/ (p \in Procs \ FreeSlots
                                                   /\ p # child /\ proc'[p] = proc[p])
    BY <1>1, <1>3 DEF IInv, ChainInv, FreeSlots
  <2>2. proc'[child].pid = nextPid
    BY <1>1, <1>3 DEF IInv, ChainInv
  <2>3. \A p \in Procs \ FreeSlots : proc[p].pid < nextPid /\ proc[p].pid \in Nat
    BY DEF IInv, ChainInv, FreeSlots
  <2>4. \A p, q \in Procs \ FreeSlots : proc[p].pid = proc[q].pid => p = q
    BY DEF IInv, ChainInv
  <2>5. nextPid \in Nat
    BY DEF IInv, ChainInv
  <2> QED
    BY <2>1, <2>2, <2>3, <2>4, <2>5
<1>15. ShellImageIntact'
  <2>1. SUFFICES ASSUME NEW i \in 1 .. depth', frames'[i].region = "shell"
                 PROVE  image'["shell"] = proc'[frames'[i].child].pid
    BY DEF ShellImageIntact
  <2>2. i = 1
    BY <1>10, <2>1 DEF FramesOK
  <2>3. CASE depth = 0
    <3>1. frames'[i] = f
      BY <2>2, <2>3, <1>3, <1>7
    <3>2. proc'[child].pid = nextPid
      BY <1>1, <1>3 DEF IInv, ChainInv
    <3> QED
      BY <3>1, <3>2, <2>1, <1>3, <1>8 DEF IInv, ChainInv, Regions
  <2>4. CASE depth # 0
    <3>1. i \in 1 .. depth /\ frames'[i] = frames[i]
      BY <2>2, <2>4, <1>7 DEF IInv, ChainInv
    <3>2. frames[i].child = Level(i) /\ Level(i) # child /\ Level(i) \in Procs
      BY <3>1, <2>2, <1>9 DEF Level
    <3>3. image'["shell"] = image["shell"] /\ proc'[Level(i)] = proc[Level(i)]
      BY <2>4, <1>3, <3>2 DEF IInv, ChainInv, Regions
    <3> QED
      BY <3>1, <3>2, <3>3, <2>1 DEF IInv, ChainInv, ShellImageIntact
  <2> QED
    BY <2>3, <2>4
<1>16. savedEsp' = depth' /\ esp0' = StackAt(depth') /\ current' = Level(depth)'
  BY <1>3, <1>9 DEF IInv, ChainInv, StackAt
<1> QED
  BY <1>4, <1>5, <1>7, <1>10, <1>11, <1>12, <1>13, <1>14, <1>15, <1>16 DEF IInv, ChainInv

\* An exec that fails after the load began keeps the invariant: it is admitted
\* into the shell region only when no program runs.
LEMMA ExecFailsIInv ==
    ASSUME IInv, NEW r \in Regions, ExecFails(r)
    PROVE  IInv'
<1>1. /\ UNCHANGED <<entries, inited, desc, opens, proc, current, nextPid,
                     depth, esp0, savedEsp, frames>>
      /\ image' = [image EXCEPT ![r] = NoPid]
      /\ r = "shell" => depth = 0
  BY DEF ExecFails, Admitted, fdVars, procVars
<1>2. FdInv' /\ TablesMatchProcesses'
  BY <1>1 DEF IInv, FdInv, TablesMatchProcesses, FreeSlots
<1>3. ShellImageIntact'
  <2>1. SUFFICES ASSUME NEW i \in 1 .. depth, frames[i].region = "shell"
                 PROVE  image'["shell"] = proc[frames[i].child].pid
    BY <1>1 DEF ShellImageIntact
  <2>2. depth # 0
    OBVIOUS
  <2>3. image'["shell"] = image["shell"]
    BY <2>2, <1>1 DEF IInv, ChainInv, Regions
  <2> QED
    BY <2>1, <2>3 DEF IInv, ChainInv, ShellImageIntact
<1>4. image' \in [Regions -> Nat]
  BY <1>1 DEF IInv, ChainInv, NoPid
<1>5. FramesOK'
  BY <1>1 DEF IInv, ChainInv, FramesOK, Level
<1>6. ChainInv'
  BY <1>1, <1>3, <1>4, <1>5 DEF IInv, ChainInv, Level, FreeSlots
<1> QED
  BY <1>2, <1>6 DEF IInv

\* On an exit, process_find_pid finds the process one level up, and only it.
LEMMA ExitFindsParent ==
    ASSUME IInv, depth > 0
    PROVE  /\ ExitCurrent = Level(depth - 1)
           /\ current = frames[depth].child /\ current \in Procs
           /\ Level(depth - 1) \in Procs /\ Level(depth - 1) # current
<1>1. /\ depth \in 0 .. depth /\ depth - 1 \in 0 .. depth /\ depth \in 1 .. depth
      /\ depth # depth - 1
  BY DEF IInv, ChainInv
<1>2. current = Level(depth) /\ current = frames[depth].child
  BY <1>1 DEF IInv, ChainInv, Level
<1>3. current \in Procs /\ Level(depth - 1) \in Procs
  <2>1. frames \in Seq(Frame) /\ Len(frames) = depth
    BY DEF IInv, ChainInv
  <2> QED
    BY <1>1, <1>2, <2>1, LevelInProcs
<1>4. Level(depth - 1) # current
  BY <1>1, <1>2 DEF IInv, ChainInv
<1>5. proc[current].ppid = proc[Level(depth - 1)].pid
  BY <1>1, <1>2 DEF IInv, ChainInv, FramesOK
<1>6. \A p \in Procs : /\ ExitTable[p].pid = proc[p].pid
                       /\ ExitTable[p].state = "unused" <=> p \in FreeSlots
  <2>1. proc[current].state = "running"
    BY <1>1, <1>2, <1>3 DEF IInv, ChainInv
  <2>2. proc \in [Procs -> [pid : Nat, ppid : Nat,
                            state : {"unused", "running", "zombie"}]]
    BY DEF IInv, ChainInv
  <2> QED
    BY <1>3, <2>1, <2>2 DEF ExitTable, FreeSlots
<1>7. Level(depth - 1) \in Procs \ FreeSlots
  BY <1>1, <1>3 DEF IInv, ChainInv, FreeSlots
<1>8. FindPid(ExitTable, proc[current].ppid) = {Level(depth - 1)}
  BY <1>5, <1>6, <1>7 DEF FindPid, IInv, ChainInv
<1>9. Min({Level(depth - 1)}) = Level(depth - 1)
  BY <1>3, MinMember, ProcMaxAssumption DEF Procs
<1> QED
  BY <1>2, <1>3, <1>4, <1>8, <1>9 DEF ExitCurrent

\* An exit with the rest of the exec it returns into keeps the invariant.
LEMMA ExitIInv ==
    ASSUME IInv, Exit
    PROVE  IInv'
<1> DEFINE c == current
<1>1. /\ depth > 0 /\ depth \in Nat /\ depth \in 1 .. depth
      /\ c = frames[depth].child /\ c \in Procs
      /\ ExitCurrent = Level(depth - 1)
      /\ Level(depth - 1) # c
  BY ExitFindsParent DEF Exit, IInv, ChainInv
<1>2. ExitTable[c].state = "zombie"
  BY <1>1 DEF ExitTable, IInv, ChainInv
<1>3. /\ TableDestroy(c)
      /\ proc' = [ExitTable EXCEPT ![c] = ClearProcess]
      /\ esp0' = frames[depth].oldEsp0
      /\ savedEsp' = frames[depth].oldSavedEsp
      /\ frames' = SubSeq(frames, 1, depth - 1)
      /\ depth' = depth - 1
      /\ current' = Level(depth - 1)
      /\ UNCHANGED <<nextPid, image>>
  BY <1>1, <1>2 DEF Exit, Reap, RestoredEsp, IInv, ChainInv
<1>4. FdInv'
  BY <1>1, <1>3, TableDestroyFdInv DEF IInv
<1>5. /\ proc'[c] = ClearProcess
      /\ \A p \in Procs \ {c} : proc'[p] = proc[p]
      /\ proc' \in [Procs -> [pid : Nat, ppid : Nat,
                              state : {"unused", "running", "zombie"}]]
  BY <1>1, <1>3 DEF ExitTable, ClearProcess, NoPid, IInv, ChainInv
<1>6. FreeSlots' = FreeSlots \cup {c}
  BY <1>1, <1>5 DEF FreeSlots, ClearProcess
<1>7. TablesMatchProcesses'
  <2>1. /\ entries'[c] = NoEntries /\ inited'[c] = FALSE
        /\ \A p \in Procs \ {c} : entries'[p] = entries[p] /\ inited'[p] = inited[p]
    BY <1>1, <1>3 DEF TableDestroy, IInv, FdInv, EntryTables, ChainInv
  <2> QED
    BY <1>1, <1>6, <2>1 DEF IInv, TablesMatchProcesses
<1>8. /\ frames' \in Seq(Frame) /\ Len(frames') = depth'
      /\ \A i \in 1 .. depth' : frames'[i] = frames[i]
      /\ depth' \in 0 .. DepthMax
  <2>1. /\ frames \in Seq(Frame) /\ Len(frames) = depth
        /\ depth \in 0 .. DepthMax /\ depth - 1 \in 0 .. Len(frames)
    BY <1>1 DEF IInv, ChainInv
  <2>2. \A i \in 1 .. depth - 1 : i \in 1 .. Len(frames)
    BY <2>1
  <2>3. /\ SubSeq(frames, 1, depth - 1) \in Seq(Frame)
        /\ Len(SubSeq(frames, 1, depth - 1)) = depth - 1
        /\ \A i \in 1 .. depth - 1 : SubSeq(frames, 1, depth - 1)[i] = frames[i]
    BY <2>1, <2>2
  <2> QED
    BY <1>1, <1>3, <2>1, <2>3, DepthAssumption
<1>9. \A i \in 0 .. depth' :
         /\ i \in 0 .. depth /\ (i # 0 => i \in 1 .. depth /\ i - 1 \in 0 .. depth')
         /\ Level(i)' = Level(i) /\ Level(i) \in Procs /\ Level(i) # c
         /\ proc'[Level(i)] = proc[Level(i)]
  <2>1. ASSUME NEW i \in 0 .. depth' PROVE i \in 0 .. depth /\ i # depth
                       /\ (i # 0 => i \in 1 .. depth /\ i - 1 \in 0 .. depth')
    BY <1>1, <1>3
  <2>2. \A i \in 0 .. depth' : Level(i)' = Level(i)
    BY <1>8 DEF Level
  <2>3. \A i \in 0 .. depth' : Level(i) \in Procs
    BY <2>1, LevelInProcs DEF IInv, ChainInv
  <2>4. \A i \in 0 .. depth' : Level(i) # c
    <3>1. depth \in 0 .. depth /\ c = Level(depth)
      BY <1>1 DEF IInv, ChainInv
    <3>2. \A i, j \in 0 .. depth : Level(i) = Level(j) => i = j
      BY DEF IInv, ChainInv
    <3> QED
      BY <2>1, <3>1, <3>2
  <2> QED
    BY <2>1, <2>2, <2>3, <2>4, <1>5
<1>10. FramesOK'
  <2>1. SUFFICES ASSUME NEW i \in 1 .. depth'
                 PROVE  /\ frames'[i].oldSavedEsp = i - 1
                        /\ frames'[i].oldEsp0 = StackAt(i - 1)
                        /\ frames'[i].stack = IF i = 1 THEN BootStack ELSE StackAt(i - 1)
                        /\ frames'[i].region = "shell" => i = 1
                        /\ proc'[Level(i)'].ppid = proc'[Level(i - 1)'].pid
    BY DEF FramesOK
  <2>2. i \in 0 .. depth' /\ i \in 1 .. depth /\ i - 1 \in 0 .. depth'
    BY <1>1, <1>3
  <2>3. frames'[i] = frames[i]
    BY <1>8
  <2>4. /\ proc'[Level(i)'] = proc[Level(i)]
        /\ proc'[Level(i - 1)'] = proc[Level(i - 1)]
    BY <1>9, <2>2
  <2> QED
    BY <2>2, <2>3, <2>4 DEF IInv, ChainInv, FramesOK
<1>11. \A i, j \in 0 .. depth' : Level(i)' = Level(j)' => i = j
  BY <1>9 DEF IInv, ChainInv
<1>12. ASSUME NEW p \in Procs
       PROVE  /\ proc'[p].state # "zombie"
              /\ proc'[p].state = "running" <=> \E i \in 0 .. depth' : p = Level(i)'
              /\ proc'[p].state = "running" => proc'[p].pid < nextPid'
  <2>1. CASE p = c
    BY <2>1, <1>5, <1>9 DEF ClearProcess
  <2>2. CASE p # c
    <3>1. proc'[p] = proc[p]
      BY <2>2, <1>5
    <3>2. (\E i \in 0 .. depth' : p = Level(i)') <=> \E i \in 0 .. depth : p = Level(i)
      <4>1. \A i \in 0 .. depth : i \in 0 .. depth' \/ i = depth
        BY <1>1, <1>3
      <4>2. Level(depth) = c
        BY DEF IInv, ChainInv
      <4> QED
        BY <4>1, <4>2, <1>9, <2>2
    <3> QED
      BY <3>1, <3>2, <1>3 DEF IInv, ChainInv
  <2> QED
    BY <2>1, <2>2
<1>13. \A p, q \in Procs \ FreeSlots' : proc'[p].pid = proc'[q].pid => p = q
  BY <1>5, <1>6 DEF IInv, ChainInv
<1>14. ShellImageIntact'
  <2>1. SUFFICES ASSUME NEW i \in 1 .. depth', frames'[i].region = "shell"
                 PROVE  image'["shell"] = proc'[frames'[i].child].pid
    BY DEF ShellImageIntact
  <2>2. i \in 0 .. depth' /\ i \in 1 .. depth /\ i # 0
    BY <1>1, <1>3
  <2>3. frames'[i] = frames[i] /\ frames[i].child = Level(i)
    BY <1>8, <2>2 DEF Level
  <2> QED
    <3>1. image["shell"] = proc[frames[i].child].pid
      BY <2>1, <2>2, <2>3 DEF IInv, ChainInv, ShellImageIntact
    <3>2. proc'[Level(i)'] = proc[Level(i)] /\ Level(i)' = Level(i)
      BY <1>9, <2>2
    <3>3. image' = image
      BY <1>3
    <3> QED
      BY <2>3, <3>1, <3>2, <3>3
<1>15. savedEsp' = depth' /\ esp0' = StackAt(depth') /\ current' = Level(depth)'
  <2>1. Level(depth)' = Level(depth - 1)
    BY <1>1, <1>3, <1>8 DEF Level
  <2> QED
    <3>1. frames[depth].oldSavedEsp = depth - 1 /\ frames[depth].oldEsp0 = StackAt(depth - 1)
      BY <1>1 DEF IInv, ChainInv, FramesOK
    <3>2. savedEsp = depth
      BY DEF IInv, ChainInv
    <3> QED
      BY <2>1, <3>1, <3>2, <1>1, <1>3
<1>16. inited' \in [Procs -> BOOLEAN] /\ nextPid' \in Nat /\ image' \in [Regions -> Nat]
  BY <1>3 DEF TableDestroy, IInv, ChainInv
<1> QED
  BY <1>4, <1>5, <1>7, <1>8, <1>10, <1>11, <1>12, <1>13, <1>14, <1>15, <1>16
     DEF IInv, ChainInv
-----------------------------------------------------------------------------
\* The current process is in use.
LEMMA CurrentInProcs == ASSUME IInv PROVE current \in Procs
<1>1. depth \in 0 .. depth /\ frames \in Seq(Frame) /\ Len(frames) = depth
      /\ current = Level(depth)
  BY DEF IInv, ChainInv
<1> QED
  BY <1>1, LevelInProcs

\* Every step keeps the inductive invariant.
LEMMA NextIInv == ASSUME IInv, [Next]_vars PROVE IInv'
<1> USE CurrentInProcs
<1>1. CASE SysOpen
  <2>1. PICK n \in Nodes : Open(current, n) /\ UNCHANGED <<procVars, execVars>>
    BY <1>1 DEF SysOpen
  <2>2. FdInv'
    BY <2>1, OpenFdInv DEF IInv
  <2>3. \A p \in Procs \ {current} : entries'[p] = entries[p]
    BY <2>1 DEF Open, IInv, FdInv, EntryTables
  <2>4. UNCHANGED <<procVars, execVars, inited>>
    BY <2>1 DEF Open
  <2> QED
    BY <2>2, <2>3, <2>4, FdStepIInv
<1>2. CASE SysClose
  <2>1. PICK fd \in FDs : Close(current, fd) /\ UNCHANGED <<procVars, execVars>>
    BY <1>2 DEF SysClose
  <2>2. FdInv'
    BY <2>1, CloseFdInv DEF IInv
  <2>3. \A p \in Procs \ {current} : entries'[p] = entries[p]
    BY <2>1 DEF Close, IInv, FdInv, EntryTables
  <2>4. UNCHANGED <<procVars, execVars, inited>>
    BY <2>1 DEF Close
  <2> QED
    BY <2>2, <2>3, <2>4, FdStepIInv
<1>3. CASE SysDup
  <2>1. PICK fd \in FDs : Dup(current, fd) /\ UNCHANGED <<procVars, execVars>>
    BY <1>3 DEF SysDup
  <2>2. FdInv'
    BY <2>1, DupFdInv DEF IInv
  <2>3. \A p \in Procs \ {current} : entries'[p] = entries[p]
    BY <2>1 DEF Dup, IInv, FdInv, EntryTables
  <2>4. UNCHANGED <<procVars, execVars, inited>>
    BY <2>1 DEF Dup
  <2> QED
    BY <2>2, <2>3, <2>4, FdStepIInv
<1>4. CASE SysDup2
  <2>1. PICK oldfd \in FDs, newfd \in FDs :
           Dup2(current, oldfd, newfd) /\ UNCHANGED <<procVars, execVars>>
    BY <1>4 DEF SysDup2
  <2>2. FdInv'
    BY <2>1, Dup2FdInv DEF IInv
  <2>3. \A p \in Procs \ {current} : entries'[p] = entries[p]
    BY <2>1 DEF Dup2, IInv, FdInv, EntryTables
  <2>4. UNCHANGED <<procVars, execVars, inited>>
    BY <2>1 DEF Dup2
  <2> QED
    BY <2>2, <2>3, <2>4, FdStepIInv
<1>5. CASE SysDup2CloseFails
  <2>1. PICK oldfd \in FDs, newfd \in FDs :
           Dup2CloseFails(current, oldfd, newfd) /\ UNCHANGED <<procVars, execVars>>
    BY <1>5 DEF SysDup2CloseFails
  <2>2. FdInv'
    BY <2>1, Dup2CloseFailsFdInv DEF IInv
  <2>3. \A p \in Procs \ {current} : entries'[p] = entries[p]
    BY <2>1 DEF Dup2CloseFails, IInv, FdInv, EntryTables
  <2>4. UNCHANGED <<procVars, execVars, inited>>
    BY <2>1 DEF Dup2CloseFails
  <2> QED
    BY <2>2, <2>3, <2>4, FdStepIInv
<1>6. CASE \E r \in Regions : Exec(r)
  BY <1>6, ExecIInv
<1>7. CASE \E r \in Regions : ExecFails(r)
  BY <1>7, ExecFailsIInv
<1>8. CASE Exit
  BY <1>8, ExitIInv
<1>9. CASE UNCHANGED vars
  <2>1. /\ entries' = entries /\ inited' = inited /\ desc' = desc /\ opens' = opens
        /\ proc' = proc /\ current' = current /\ nextPid' = nextPid /\ depth' = depth
        /\ esp0' = esp0 /\ savedEsp' = savedEsp /\ frames' = frames /\ image' = image
    BY <1>9 DEF vars
  <2>2. FdInv'
    BY <2>1 DEF IInv, FdInv
  <2>3. \A p \in Procs : entries'[p] = entries[p]
    BY <2>1
  <2>4. UNCHANGED <<procVars, execVars, inited>>
    BY <2>1 DEF procVars, execVars
  <2> QED
    BY <2>2, <2>3, <2>4, FdStepIInv
<1> QED
  BY <1>1, <1>2, <1>3, <1>4, <1>5, <1>6, <1>7, <1>8, <1>9 DEF Next

\* The inductive invariant holds in every reachable state of the kernel.
LEMMA SpecIInv == Spec => []IInv
BY InitIInv, NextIInv, PTL DEF Spec

\* Type correctness of the process and descriptor tables.
THEOREM TypeCorrect == Spec => []TypeOK
<1>1. IInv => TypeOK
  <2>1. SUFFICES ASSUME IInv PROVE TypeOK
    OBVIOUS
  <2>2. esp0 \in 0 .. DepthMax /\ savedEsp \in 0 .. DepthMax
    BY <2>1, DepthAssumption DEF IInv, ChainInv, StackAt
  <2>3. current \in Procs
    BY <2>1, CurrentInProcs
  <2> QED
    BY <2>1, <2>2, <2>3 DEF IInv, FdInv, ChainInv, TypeOK, EntryTables
<1> QED
  BY <1>1, SpecIInv, PTL

\* Reference counting of open-file descriptions is exact for every table size:
\* none is freed while a descriptor of any process names it, none leaks.
THEOREM ReferenceCounting == Spec => []RefCountsExact
<1>1. IInv => RefCountsExact
  BY DEF IInv, FdInv, Exact, RefCountsExact, Refs, Referrers
<1> QED
  BY <1>1, SpecIInv, PTL

\* Every VFS open is matched by exactly one close, when its last descriptor goes.
THEOREM VfsOpensBalanced == Spec => []OpensBalanced
<1>1. IInv => OpensBalanced
  BY DEF IInv, FdInv, Balanced, OpensBalanced, HoldingIn, Holding
<1> QED
  BY <1>1, SpecIInv, PTL

\* The exec calls in progress form one chain of live processes ending in the
\* current one, whatever the depth limit: exit always resumes the newest exec,
\* in the parent that made it, and leaves nothing unreaped.
THEOREM ExecChainCorrect == Spec => []ExecChain
<1>1. IInv => ExecChain
  <2>1. SUFFICES ASSUME IInv PROVE ExecChain
    OBVIOUS
  <2>2. \A i \in 0 .. depth : Level(i) \in Procs
    BY <2>1, LevelInProcs DEF IInv, ChainInv
  <2>3. \A p \in Procs : proc[p].state = "running" <=> \E i \in 0 .. depth : p = Level(i)
    BY <2>1 DEF IInv, ChainInv
  <2>4. {p \in Procs : proc[p].state = "running"} = {Level(i) : i \in 0 .. depth}
    BY <2>2, <2>3
  <2> QED
    BY <2>1, <2>4 DEF IInv, ChainInv, FramesOK, ExecChain
<1> QED
  BY <1>1, SpecIInv, PTL

\* The kernel stack of the running program holds no frame of a pending exec.
THEOREM KernelStacksDisjoint == Spec => []KernelStackFree
<1>1. IInv => KernelStackFree
  <2>1. SUFFICES ASSUME IInv, depth > 0, NEW i \in 1 .. depth
                 PROVE  frames[i].stack # esp0
    BY DEF KernelStackFree
  <2> QED
    BY <2>1 DEF IInv, ChainInv, FramesOK, StackAt, BootStack
<1> QED
  BY <1>1, SpecIInv, PTL

\* No exec, completed or failed, overwrites the running persistent shell.
THEOREM ShellSurvives == Spec => []ShellImageIntact
<1>1. IInv => ShellImageIntact
  BY DEF IInv, ChainInv
<1> QED
  BY <1>1, SpecIInv, PTL

\* A slot of the process table owns descriptors exactly while it is in use.
THEOREM TablesFollowProcesses == Spec => []TablesMatchProcesses
<1>1. IInv => TablesMatchProcesses
  BY DEF IInv
<1> QED
  BY <1>1, SpecIInv, PTL
-----------------------------------------------------------------------------
\* A description some entry names after a step was not freed by the step, so a
\* release leaves its kind and node alone.
LEMMA ReleaseStable ==
    ASSUME FdInv, NEW q \in Procs, NEW S \in SUBSET FDs, NEW d \in OFDs,
           DescAfterRelease(q, S)[d].used
    PROVE  /\ DescAfterRelease(q, S)[d].kind = desc[d].kind
           /\ DescAfterRelease(q, S)[d].node = desc[d].node
BY DEF FdInv, DescAfterRelease, ZeroDesc, Description

\* A descriptor that survives a step names the same open file after it.
THEOREM DescriptorStability == Spec => DescriptorsStable
<1>1. ASSUME IInv, IInv', [Next]_vars, NEW p \in Procs, NEW fd \in FDs,
             entries[p][fd] # NoDesc, entries'[p][fd] = entries[p][fd]
      PROVE  /\ desc'[entries[p][fd]].kind = desc[entries[p][fd]].kind
             /\ desc'[entries[p][fd]].node = desc[entries[p][fd]].node
  <2> DEFINE d == entries[p][fd]
  <2>1. d \in OFDs /\ desc[d].used /\ desc'[d].used
    <3>1. d \in OFDs
      BY <1>1 DEF IInv, FdInv, EntryTables
    <3>2. <<p, fd>> \in Refs(entries, d) /\ <<p, fd>> \in Refs(entries', d)
      BY <1>1 DEF Refs
    <3> QED
      BY <1>1, <3>1, <3>2 DEF IInv, FdInv, Exact
  <2>2. current \in Procs /\ FdInv
    BY <1>1, CurrentInProcs DEF IInv
  <2> HIDE DEF d
  <2>3. CASE SysOpen
    <3>1. PICK n \in Nodes : Open(current, n)
      BY <2>3 DEF SysOpen
    <3>2. d # Min(FreeDescs)
      BY <2>1, <3>1, FreeDesc DEF Open
    <3> QED
      BY <2>1, <3>1, <3>2 DEF Open, d
  <2>4. CASE SysClose
    <3>1. PICK f \in FDs : desc' = DescAfterRelease(current, {f})
      BY <2>4 DEF SysClose, Close
    <3> QED
      BY <2>1, <2>2, <3>1, ReleaseStable DEF d
  <2>5. CASE SysDup
    BY <2>1, <2>2, <2>5 DEF SysDup, Dup, FdInv, Description, d
  <2>6. CASE SysDup2
    <3>1. PICK oldfd \in FDs, newfd \in FDs : Dup2(current, oldfd, newfd)
      BY <2>6 DEF SysDup2
    <3> DEFINE S == {newfd} \cap Used(current)
               ds1 == DescAfterRelease(current, S)
    <3>2. S \in SUBSET FDs /\ ds1 \in [OFDs -> Description]
      BY <2>2, ReleaseExact DEF FdInv
    <3>3. desc' = [ds1 EXCEPT ![entries[current][oldfd]].refs = @ + 1]
      BY <3>1 DEF Dup2
    <3> HIDE DEF ds1
    <3>4. ds1[d].used /\ desc'[d].kind = ds1[d].kind /\ desc'[d].node = ds1[d].node
      BY <2>1, <3>2, <3>3 DEF Description
    <3> QED
      BY <2>1, <2>2, <3>2, <3>4, ReleaseStable DEF d, ds1
  <2>7. CASE SysDup2CloseFails
    <3>1. PICK f \in FDs : desc' = DescAfterRelease(current, {f})
      BY <2>7 DEF SysDup2CloseFails, Dup2CloseFails
    <3> QED
      BY <2>1, <2>2, <3>1, ReleaseStable DEF d
  <2>8. CASE \E r \in Regions : Exec(r)
    BY <2>1, <2>2, <2>8 DEF Exec, SpawnExec, Clone, FdInv, Description, d
  <2>9. CASE \E r \in Regions : ExecFails(r)
    BY <2>9 DEF ExecFails, fdVars
  <2>10. CASE Exit
    <3>1. \/ \E q \in Procs : desc' = DescAfterRelease(q, Used(q))
          \/ desc' = desc
      <4> DEFINE f == frames[savedEsp]
      <4>1. Reap(f.child, ExitTable)
        BY <2>10 DEF Exit
      <4>2. f.child \in Procs
        <5>1. depth > 0
          BY <2>10 DEF Exit
        <5>2. savedEsp = depth
          BY <1>1 DEF IInv, ChainInv
        <5>3. frames[depth].child \in Procs
          BY <1>1, <5>1, ExitFindsParent
        <5> QED
          BY <5>2, <5>3
      <4> HIDE DEF f
      <4>3. CASE ExitTable[f.child].state = "zombie"
        <5>1. desc' = DescAfterRelease(f.child, Used(f.child))
          BY <4>1, <4>3 DEF Reap, TableDestroy
        <5> QED
          BY <4>2, <5>1
      <4>4. CASE ExitTable[f.child].state # "zombie"
        BY <4>1, <4>4 DEF Reap, fdVars
      <4> QED
        BY <4>3, <4>4
    <3>2. \A q \in Procs : Used(q) \in SUBSET FDs
      BY DEF Used
    <3> QED
      BY <2>1, <2>2, <3>1, <3>2, ReleaseStable DEF d
  <2>11. CASE UNCHANGED vars
    BY <2>11 DEF vars
  <2> QED
    BY <1>1, <2>3, <2>4, <2>5, <2>6, <2>7, <2>8, <2>9, <2>10, <2>11 DEF Next
<1> DEFINE A == \A p \in Procs : \A fd \in FDs :
                   (entries[p][fd] # NoDesc /\ entries'[p][fd] = entries[p][fd])
                   => LET d == entries[p][fd]
                      IN  desc'[d].kind = desc[d].kind /\ desc'[d].node = desc[d].node
<1>2. IInv /\ IInv' /\ [Next]_vars => [A]_vars
  BY <1>1
<1> HIDE DEF A
<1>3. Spec => [][A]_vars
  BY <1>2, SpecIInv, PTL DEF Spec
<1> QED
  BY <1>3 DEF DescriptorsStable, A

\* When a program exits, every other process keeps its descriptors, and exactly
\* the descriptions that another process still names stay in use.
THEOREM ExitReleasesItsOwn == Spec => ExitKeepsOthers
<1>1. ASSUME IInv, IInv', [Next]_vars, depth' < depth
      PROVE  /\ \A p \in Procs \ {current} : entries'[p] = entries[p]
             /\ \A d \in OFDs : desc'[d].used <=>
                   \E pf \in Referrers(d) : pf[1] # current
  <2>1. depth \in Nat
    BY <1>1 DEF IInv, ChainInv
  <2>2. Exit
    <3>1. ~(depth < depth) /\ ~(depth + 1 < depth)
      BY <2>1
    <3>2. ASSUME depth' = depth \/ depth' = depth + 1 PROVE FALSE
      BY <1>1, <3>1, <3>2
    <3>3. ~(SysOpen \/ SysClose \/ SysDup \/ SysDup2 \/ SysDup2CloseFails)
      BY <3>2 DEF SysOpen, SysClose, SysDup, SysDup2, SysDup2CloseFails, execVars
    <3>4. ~(\E r \in Regions : Exec(r) \/ ExecFails(r))
      BY <3>2 DEF Exec, ExecFails
    <3>5. ~UNCHANGED vars
      BY <3>2 DEF vars
    <3> QED
      BY <1>1, <3>3, <3>4, <3>5 DEF Next
  <2>3. /\ depth > 0 /\ savedEsp = depth /\ current \in Procs
        /\ current = frames[savedEsp].child
    BY <1>1, <2>2, ExitFindsParent DEF Exit, IInv, ChainInv
  <2>4. ExitTable[current].state = "zombie"
    BY <1>1, <2>3 DEF ExitTable, IInv, ChainInv
  <2>5. entries' = [entries EXCEPT ![current] = NoEntries]
    BY <2>2, <2>3, <2>4 DEF Exit, Reap, TableDestroy
  <2>6. entries \in EntryTables
    BY <1>1 DEF IInv, FdInv
  <2>7. ASSUME NEW d \in OFDs
        PROVE  desc'[d].used <=> \E pf \in Referrers(d) : pf[1] # current
    <3>1. d # NoDesc
      BY OfdCapAssumption DEF OFDs, NoDesc
    <3>2. desc'[d].used <=> Refs(entries', d) # {}
      BY <1>1 DEF IInv, FdInv, Exact
    <3>3. ASSUME NEW pf \in Procs \X FDs
          PROVE  pf \in Refs(entries', d) <=> pf \in Referrers(d) /\ pf[1] # current
      BY <2>3, <2>5, <2>6, <3>1 DEF Refs, Referrers, EntryTables, NoEntries
    <3>4. Refs(entries', d) \in SUBSET (Procs \X FDs) /\ Referrers(d) \in SUBSET (Procs \X FDs)
      BY DEF Refs, Referrers
    <3> QED
      BY <3>2, <3>3, <3>4
  <2> QED
    BY <2>3, <2>5, <2>6, <2>7 DEF EntryTables
<1> DEFINE A == depth' < depth =>
                   /\ \A p \in Procs \ {current} : entries'[p] = entries[p]
                   /\ \A d \in OFDs : desc'[d].used <=>
                         \E pf \in Referrers(d) : pf[1] # current
<1>2. IInv /\ IInv' /\ [Next]_vars => [A]_vars
  BY <1>1
<1> HIDE DEF A
<1>3. Spec => [][A]_vars
  BY <1>2, SpecIInv, PTL DEF Spec
<1> QED
  BY <1>3 DEF ExitKeepsOthers, A
=============================================================================
