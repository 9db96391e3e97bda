--------------------------- MODULE FrameAllocator ---------------------------
(***************************************************************************)
(* The physical frame allocator (kernel/src/mm/physical.rs) and the heap   *)
(* that grows through physical memory beside it (kernel/src/mm/heap.rs).   *)
(* Addresses are page numbers.  The bitmap is the set of pages whose bit   *)
(* is 1.  FRAME_ALLOCATOR is behind a spin lock for the whole of each      *)
(* call, so a call is one action.                                          *)
(***************************************************************************)
EXTENDS Integers, FiniteSets

CONSTANTS
    MAX_PAGES,      \* pages the bitmap covers
    LOW_END,        \* first page above the low 1MB
    KERNEL_START,   \* first page of the kernel image
    KERNEL_END,     \* first page above the reserved kernel window (8MB)
    HEAP_START,     \* first page of the heap
    HEAP_SIZE,      \* pages of the initial heap
    MAX_HEAP_SIZE,  \* most pages the heap may have
    MAX_COUNT       \* bound: the longest run a caller asks for

ASSUME ConstantsAssumption ==
    /\ MAX_PAGES \in Nat \ {0}
    /\ LOW_END \in 0 .. MAX_PAGES
    /\ KERNEL_START \in 0 .. MAX_PAGES
    /\ KERNEL_END \in 0 .. MAX_PAGES
    /\ HEAP_START \in 0 .. MAX_PAGES
    /\ HEAP_SIZE \in Nat
    /\ MAX_HEAP_SIZE \in Nat
    /\ HEAP_SIZE <= MAX_HEAP_SIZE
    /\ MAX_COUNT \in Nat

VARIABLES
    allocated,      \* pages whose bit in FrameAllocator::bitmap is 1
    first_free,     \* the search hint
    total_pages,    \* one more than the highest page ever marked free
    free_pages,     \* the running count of free pages
    HEAP_END,       \* heap::HEAP_END
    held            \* ghost: the grants callers have and have not returned

frameVars == <<allocated, first_free, total_pages, free_pages, HEAP_END, held>>

Pages == 0 .. MAX_PAGES - 1

\* The pages of the range start .. start + count - 1.
PageRun(start, count) == start .. start + count - 1

Grant == [start : Pages, count : Nat \ {0}]

PagesOf(g) == PageRun(g.start, g.count)

FreePages == Pages \ allocated

-----------------------------------------------------------------------------
(* Boot.                                                                   *)

\* What init keeps back whatever the memory map says.
BootReserved ==
    (0 .. LOW_END - 1)
        \cup (IF KERNEL_START > 0 THEN KERNEL_START .. KERNEL_END - 1 ELSE {})
        \cup (HEAP_START .. HEAP_START + HEAP_SIZE - 1)

\* mark_free on every available page, mark_allocated on every reserved one,
\* then the hint and the counters.  The firmware's map is any set of pages.
InitFrom(avail) ==
    /\ allocated = Pages \ (avail \ BootReserved)
    /\ first_free \in 0 .. MAX_PAGES - 1
    /\ IF avail \ BootReserved = {}
       THEN first_free = 0
       ELSE /\ first_free \in avail \ BootReserved
            /\ \A p \in avail \ BootReserved : first_free <= p
    /\ total_pages \in 0 .. MAX_PAGES
    /\ \A p \in avail : p < total_pages
    /\ total_pages > 0 => total_pages - 1 \in avail
    /\ free_pages = Cardinality(avail \ BootReserved)

FramesInit ==
    /\ \E avail \in SUBSET Pages : InitFrom(avail)
    /\ HEAP_END = HEAP_START + HEAP_SIZE
    /\ held = {}

-----------------------------------------------------------------------------
(* Bit and counter updates.                                                *)

\* Mutant: the counter drops for a page that was allocated already.
MarkAllocatedOvercount(S) ==
    LET taken == Cardinality(S \cap Pages)
    IN  /\ allocated' = allocated \cup (S \cap Pages)
        /\ free_pages' = IF taken <= free_pages THEN free_pages - taken ELSE 0
        /\ UNCHANGED total_pages

\* mark_allocated on every page of S: only a page that was free counts, and
\* the counter stops at zero.
MarkAllocated(S) ==
    LET taken == Cardinality(S \cap FreePages)
    IN  /\ allocated' = allocated \cup (S \cap Pages)
        /\ free_pages' = IF taken <= free_pages THEN free_pages - taken ELSE 0
        /\ UNCHANGED total_pages

\* mark_free on every page of S: only a page that was allocated counts.
MarkFree(S) ==
    /\ allocated' = allocated \ S
    /\ free_pages' = free_pages + Cardinality(S \cap allocated)
    /\ total_pages' \in {total_pages} \cup {p + 1 : p \in S \cap allocated}
    /\ total_pages <= total_pages'
    /\ \A p \in S \cap allocated : p < total_pages'

-----------------------------------------------------------------------------
(* Allocation.                                                             *)

\* The position of page p in alloc's search: from the hint to the end of
\* memory, then from page 0 up to the hint.
SearchRank(p) == IF p >= first_free THEN p - first_free
                                    ELSE p - first_free + MAX_PAGES

\* alloc: the first free page in search order, or None when there is none.
Alloc ==
    IF FreePages = {}
    THEN UNCHANGED frameVars
    ELSE \E page \in FreePages :
            /\ \A q \in FreePages : SearchRank(page) <= SearchRank(q)
            /\ MarkAllocated({page})
            /\ first_free' = page + 1
            /\ held' = held \cup {[start |-> page, count |-> 1]}
            /\ UNCHANGED HEAP_END

\* Where the scan of alloc_contiguous can succeed: it starts at the hint,
\* starts over at every allocated page, and does not wrap around.
RunsFrom(low, count) ==
    {s \in Pages : s >= low /\ PageRun(s, count) \subseteq FreePages}

\* Mutant: the marking loop stops one page short.
AllocContiguousShort(count) ==
    \E s \in RunsFrom(first_free, count) :
        /\ count > 1
        /\ MarkAllocated(PageRun(s, count - 1))
        /\ held' = held \cup {[start |-> s, count |-> count]}
        /\ UNCHANGED <<first_free, HEAP_END>>

\* alloc_contiguous: None for zero pages, alloc for one, otherwise the lowest
\* run at or above the hint.  The hint itself does not move.
AllocContiguous(count) ==
    \/ /\ count = 0
       /\ UNCHANGED frameVars
    \/ /\ count = 1
       /\ Alloc
    \/ /\ count > 1
       /\ IF RunsFrom(first_free, count) = {}
          THEN UNCHANGED frameVars
          ELSE \E s \in RunsFrom(first_free, count) :
                  /\ \A r \in RunsFrom(first_free, count) : s <= r
                  /\ MarkAllocated(PageRun(s, count))
                  /\ held' = held \cup {[start |-> s, count |-> count]}
                  /\ UNCHANGED <<first_free, HEAP_END>>

-----------------------------------------------------------------------------
(* Release.  A caller returns a grant it has (virtual_mem::unmap_page       *)
(* returns the frame a page was mapped to).                                *)

\* free: a page that is free already is left alone.
Free(g) ==
    /\ g \in held
    /\ g.count = 1
    /\ held' = held \ {g}
    /\ UNCHANGED HEAP_END
    /\ IF g.start \in allocated
       THEN /\ MarkFree({g.start})
            /\ first_free' = IF g.start < first_free THEN g.start ELSE first_free
       ELSE UNCHANGED <<allocated, free_pages, total_pages, first_free>>

\* Mutant: the hint is not lowered.
FreeContiguousNoHint(g) ==
    /\ g \in held
    /\ held' = held \ {g}
    /\ MarkFree(PagesOf(g))
    /\ UNCHANGED <<first_free, HEAP_END>>

\* free_contiguous.
FreeContiguous(g) ==
    /\ g \in held
    /\ held' = held \ {g}
    /\ MarkFree(PagesOf(g))
    /\ first_free' = IF g.start < first_free THEN g.start ELSE first_free
    /\ UNCHANGED HEAP_END

-----------------------------------------------------------------------------
(* Heap growth.                                                            *)

\* extend_heap(additional): refused above the maximum, otherwise
\* reserve_range marks the next pages allocated, whoever has them.
ExtendHeap(additional) ==
    IF HEAP_END - HEAP_START + additional > MAX_HEAP_SIZE
    THEN UNCHANGED frameVars
    ELSE /\ MarkAllocated(HEAP_END .. HEAP_END + additional - 1)
         /\ HEAP_END' = HEAP_END + additional
         /\ UNCHANGED <<first_free, held>>

FramesNext ==
    \/ Alloc
    \/ \E count \in 0 .. MAX_COUNT : AllocContiguous(count)
    \/ \E g \in held : Free(g) \/ FreeContiguous(g)
    \/ \E additional \in 0 .. MAX_COUNT : ExtendHeap(additional)

FramesSpec == FramesInit /\ [][FramesNext]_frameVars

-----------------------------------------------------------------------------
(* Properties.                                                             *)

\* Every field of the allocator keeps its range, the hint never passes one
\* beyond the last page, and the heap stays below its maximum size.
FramesTypeOK ==
    /\ allocated \subseteq Pages
    /\ first_free \in 0 .. MAX_PAGES
    /\ total_pages \in 0 .. MAX_PAGES
    /\ free_pages \in Nat
    /\ HEAP_END \in HEAP_START + HEAP_SIZE .. HEAP_START + MAX_HEAP_SIZE
    /\ held \subseteq Grant

\* free_pages, which is counted up and down by mark_free and mark_allocated
\* and never recounted, is the number of clear bits.  The guard of
\* mark_allocated against a negative counter is never needed.
FreeCountExact == free_pages = Cardinality(FreePages)

\* The hint loses nothing: a run of count free pages anywhere in memory means
\* the scan of alloc_contiguous, which starts at first_free and never wraps,
\* finds one, and alloc's second loop (below the hint) finds nothing.
SearchComplete ==
    \A count \in 1 .. MAX_PAGES :
        RunsFrom(0, count) # {} => RunsFrom(first_free, count) # {}

\* Two grants a caller still has never share a page, and no grant covers low
\* memory, the kernel image or the boot heap (the frames that "must never be
\* handed out for DMA buffers or page tables").
GrantsExclusive ==
    /\ \A g, h \in held : g # h => PagesOf(g) \cap PagesOf(h) = {}
    /\ \A g \in held : PagesOf(g) \cap BootReserved = {}

\* stats() and init() compute used = total_pages - free_pages in unsigned
\* arithmetic: it never goes below zero.
StatsNoUnderflow == free_pages <= total_pages
=============================================================================
