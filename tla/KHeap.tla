-------------------------------- MODULE KHeap --------------------------------
(***************************************************************************)
(* The kernel memory manager, src/src/kernel/core/mm/mm_core.c: a bitmap   *)
(* of physical pages and, on top of it, a first-fit heap whose blocks form *)
(* one list, are split on allocation and coalesced with their list         *)
(* neighbours on release.                                                  *)
(*                                                                         *)
(* Memory is counted in units of sizeof(uintptr_t), to which kmalloc       *)
(* rounds every size; a block is its header followed by size units.        *)
(***************************************************************************)
EXTENDS Integers, Sequences, FiniteSets, FiniteSetsExt, SequencesExt

CONSTANTS
    PageSize,   \* MM_PAGE_SIZE in units
    PageCount,  \* MM_MAX_PAGES
    Header,     \* sizeof(heap_block_t) in units
    Sizes,      \* sizes, in units, that callers ask kmalloc for
    Usable,     \* <<start, end>> ranges the boot memory map calls usable
    Reserved    \* <<start, end>> ranges of the kernel image and boot data

ASSUME GeometryAssumption ==
    PageSize \in Nat \ {0} /\ PageCount \in Nat /\ Header \in Nat \ {0}
ASSUME SizesAssumption == Sizes \subseteq Nat \ {0}

VARIABLES
    pageUsed,   \* g_page_used: the pages whose flag is set
    usedPages,  \* g_used_pages
    heap,       \* the block list from g_heap_head to g_heap_tail
    heapTotal,  \* g_heap_total_bytes
    live,       \* what kmalloc's callers hold: pointer -> size asked for
    pagesOut    \* the pages mm_alloc_page's callers hold

vars == <<pageUsed, usedPages, heap, heapTotal, live, pagesOut>>

Pages == 0 .. PageCount - 1
Limit == PageSize * PageCount   \* paging_identity_limit

Round(n) == (n + PageSize - 1) \div PageSize   \* pages, rounding up

\* mm_mark_range_free: the pages that lie inside the range.
PagesInside(r) == {p \in Pages : Round(r[1]) <= p /\ p < r[2] \div PageSize}

\* mm_mark_range_used: the pages that the range touches.
PagesTouched(r) == {p \in Pages : r[1] \div PageSize <= p /\ p < Round(r[2])}

\* mm_core_init: all pages used, the usable ranges freed, the reserved marked.
InitPages ==
    (Pages \ UNION {PagesInside(r) : r \in Usable}) \cup UNION {PagesTouched(r) : r \in Reserved}

Init ==
    /\ pageUsed = InitPages
    /\ usedPages = Cardinality(pageUsed)
    /\ heap = <<>> /\ heapTotal = 0
    /\ live = <<>> /\ pagesOut = {}

-----------------------------------------------------------------------------
\* mm_alloc_pages looks for the first run of n unused pages.
Runs(n) == {s \in Pages : s + n <= PageCount /\ (s .. s + n - 1) \cap pageUsed = {}}

Block(a, n) == [addr |-> a, size |-> n, free |-> TRUE]
Follows(a, b) == a.addr + Header + a.size = b.addr   \* mm_blocks_adjacent

\* Mutant: the header of the absorbed block is not added.
MergeNextForgetsHeader(h, i) ==
    IF i < Len(h) /\ h[i + 1].free /\ Follows(h[i], h[i + 1])
    THEN [RemoveAt(h, i + 1) EXCEPT ![i].size = @ + h[i + 1].size]
    ELSE h

\* The first half of mm_coalesce_block: block i absorbs its successor.
MergeNext(h, i) ==
    IF i < Len(h) /\ h[i + 1].free /\ Follows(h[i], h[i + 1])
    THEN [RemoveAt(h, i + 1) EXCEPT ![i].size = @ + Header + h[i + 1].size]
    ELSE h

\* Mutant: a released block is merged with its successor only.
CoalesceForward(h, i) == MergeNext(h, i)

\* mm_coalesce_block of block i, the recursion unrolled: step k works on a
\* block k places before i as long as the predecessors are free and adjacent.
Coalesce(h, i) ==
    LET c[k \in 0 .. i - 1] ==
            IF k = 0 THEN [list |-> MergeNext(h, i), at |-> i]
            ELSE LET g == c[k - 1].list
                     j == c[k - 1].at
                 IN  IF j > 1 /\ g[j - 1].free /\ Follows(g[j - 1], g[j])
                     THEN [list |-> MergeNext(g, j - 1), at |-> j - 1]
                     ELSE c[k - 1]
    IN  c[i - 1].list

\* mm_grow_heap by a run of n pages at page s: the new list, and in it the
\* block that is returned, by address.
Grown(s, n) ==
    LET new  == Block(s * PageSize, n * PageSize - Header)
        last == Len(heap)
    IN  IF heap # <<>> /\ heap[last].free /\ Follows(heap[last], new)
        THEN [list |-> Coalesce(Append(heap, new), last), block |-> heap[last].addr]
        ELSE [list |-> Append(heap, new), block |-> new.addr]

\* mm_split_block: the tail of block i becomes a free block when it can hold a
\* header and one unit.
Split(h, i, n) ==
    LET b == h[i]
    IN  IF b.size < n + Header + 1 THEN h
        ELSE InsertAt([h EXCEPT ![i].size = n], i + 1,
                      Block(b.addr + Header + n, b.size - n - Header))

\* mm_find_free_block: the first block on the list that is free and fits.
Fitting(n) == {i \in DOMAIN heap : heap[i].free /\ heap[i].size >= n}

\* kmalloc_core once block i of list h has been found.
Take(h, i, n) ==
    /\ heap' = [Split(h, i, n) EXCEPT ![i].free = FALSE]
    /\ live' = [p \in DOMAIN live \cup {h[i].addr + Header} |->
                  IF p = h[i].addr + Header THEN n ELSE live[p]]

KmallocFits(n) ==
    /\ Fitting(n) # {}
    /\ Take(heap, Min(Fitting(n)), n)
    /\ UNCHANGED <<pageUsed, usedPages, heapTotal, pagesOut>>

\* kmalloc_core when no block fits.  With no run of pages it returns 0 and
\* nothing has changed.
KmallocGrows(n) ==
    LET pages == Round(n + Header)
    IN  /\ Fitting(n) = {} /\ Runs(pages) # {}
        /\ LET s == Min(Runs(pages))
               g == Grown(s, pages)
           IN  /\ Take(g.list, SelectInSeq(g.list, LAMBDA b : b.addr = g.block), n)
               /\ pageUsed' = pageUsed \cup (s .. s + pages - 1)
        /\ usedPages' = usedPages + pages
        /\ heapTotal' = heapTotal + pages * PageSize
        /\ UNCHANGED pagesOut

\* kfree_core of a pointer a caller holds.
Kfree(p) ==
    /\ p \in DOMAIN live
    /\ LET i == SelectInSeq(heap, LAMBDA b : b.addr = p - Header)
       IN  heap' = Coalesce([heap EXCEPT ![i].free = TRUE], i)
    /\ live' = [q \in DOMAIN live \ {p} |-> live[q]]
    /\ UNCHANGED <<pageUsed, usedPages, heapTotal, pagesOut>>

\* Mutant: the flags are not set.
AllocPageUnmarked ==
    /\ Runs(1) # {}
    /\ pagesOut' = pagesOut \cup {Min(Runs(1))}
    /\ UNCHANGED <<pageUsed, usedPages, heap, heapTotal, live>>

AllocPage ==
    /\ Runs(1) # {}
    /\ pageUsed' = pageUsed \cup {Min(Runs(1))}
    /\ usedPages' = usedPages + 1
    /\ pagesOut' = pagesOut \cup {Min(Runs(1))}
    /\ UNCHANGED <<heap, heapTotal, live>>

FreePage(p) ==
    /\ p \in pagesOut
    /\ pageUsed' = pageUsed \ {p}
    /\ usedPages' = usedPages - 1
    /\ pagesOut' = pagesOut \ {p}
    /\ UNCHANGED <<heap, heapTotal, live>>

Next ==
    \/ \E n \in Sizes : KmallocFits(n) \/ KmallocGrows(n)
    \/ \E p \in DOMAIN live : Kfree(p)
    \/ AllocPage
    \/ \E p \in Pages : FreePage(p)

Spec == Init /\ [][Next]_vars
-----------------------------------------------------------------------------
Whole(b) == b.addr .. b.addr + Header + b.size - 1
PageUnits(p) == p * PageSize .. (p + 1) * PageSize - 1
HeapPages == pageUsed \ (InitPages \cup pagesOut)

\* Type correctness; every block is large enough to be worth a header.
TypeOK ==
    /\ pageUsed \subseteq Pages /\ pagesOut \subseteq Pages
    /\ usedPages \in Nat /\ heapTotal \in Nat
    /\ heap \in Seq([addr : 0 .. Limit, size : Nat \ {0}, free : BOOLEAN])

\* The block list covers the pages the heap has taken exactly: no two blocks
\* overlap, and splitting, coalescing and growing neither lose nor invent a
\* unit of memory (mm_split_block, mm_coalesce_block, mm_grow_heap).  The
\* blocks in use are the ones callers hold, each as large as it was asked for,
\* and mm's page count is exact.  The types hold.
BlocksTile ==
    /\ TypeOK
    /\ \A i, j \in DOMAIN heap : i # j => Whole(heap[i]) \cap Whole(heap[j]) = {}
    /\ UNION {Whole(heap[i]) : i \in DOMAIN heap} = UNION {PageUnits(p) : p \in HeapPages}
    /\ heapTotal = PageSize * Cardinality(HeapPages) /\ usedPages = Cardinality(pageUsed)
    /\ {heap[i].addr + Header : i \in {j \in DOMAIN heap : ~heap[j].free}} = DOMAIN live
    /\ \A i \in DOMAIN heap : ~heap[i].free => heap[i].size >= live[heap[i].addr + Header]

\* No two neighbours on the list are both free and adjacent in memory: one pass
\* of mm_coalesce_block per kfree is enough, whatever the order of frees, and
\* the block that mm_grow_heap returns after coalescing is still on the list.
FullyCoalesced ==
    \A i \in 1 .. Len(heap) - 1 :
        ~(heap[i].free /\ heap[i + 1].free /\ Follows(heap[i], heap[i + 1]))

Held == {<<p, live[p]>> : p \in DOMAIN live} \cup {<<p * PageSize, PageSize>> : p \in pagesOut}
UsableUnits ==
    UNION {r[1] .. r[2] - 1 : r \in Usable} \ UNION {r[1] .. r[2] - 1 : r \in Reserved}

Promise == INSTANCE Allocator WITH Memory <- UsableUnits, held <- Held

\* kmalloc, kfree and the page calls implement the allocator clients expect:
\* what they hand out is usable, never overlaps the kernel image, boot data or
\* another client's memory, and is not touched until it is given back.
ImplementsAllocator == Promise!Spec
=============================================================================
