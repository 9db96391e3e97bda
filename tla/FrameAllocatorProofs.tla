------------------------ MODULE FrameAllocatorProofs ------------------------
(***************************************************************************)
(* The frame allocator's invariants for every size of memory, every        *)
(* firmware map and every sequence of calls.                               *)
(***************************************************************************)
EXTENDS FrameAllocator, FiniteSetTheorems, TLAPS

\* Nothing below the hint is free.
HintSound == \A p \in Pages : p < first_free => p \in allocated

\* A page a caller has is marked allocated.
HeldAllocated == \A g \in held : PagesOf(g) \subseteq allocated

\* A page that can still be handed out is below total_pages and is not one
\* of the frames kept back at boot.
FreeSound == \A p \in FreePages : p < total_pages /\ p \notin BootReserved

\* The inductive invariant: the properties together with what the next
\* allocation needs to keep them.
IInv ==
    /\ FramesTypeOK
    /\ FreeCountExact
    /\ HintSound
    /\ HeldAllocated
    /\ FreeSound
    /\ GrantsExclusive

-----------------------------------------------------------------------------
(* Finite sets of pages.                                                   *)

\* The set of pages is finite, and so is each of its subsets.
LEMMA PagesFinite ==
    /\ IsFiniteSet(Pages)
    /\ \A S \in SUBSET Pages : IsFiniteSet(S) /\ Cardinality(S) \in Nat
  <1>1. IsFiniteSet(Pages)
    BY ConstantsAssumption, FS_Interval DEF Pages
  <1>2. QED
    BY <1>1, FS_Subset, FS_CardinalityType

\* Marking a set of pages allocated removes exactly its free pages from the
\* free set and takes their number off the counter (mark_allocated).
LEMMA MarkAllocatedCounts ==
    ASSUME FramesTypeOK, FreeCountExact, NEW S, MarkAllocated(S)
    PROVE  /\ FreeCountExact'
           /\ FreePages' = FreePages \ S
           /\ free_pages' \in Nat
           /\ allocated' = allocated \cup (S \cap Pages)
           /\ total_pages' = total_pages
  <1> DEFINE taken == Cardinality(S \cap FreePages)
  <1>1. IsFiniteSet(FreePages) /\ Cardinality(FreePages) \in Nat
    BY PagesFinite DEF FreePages
  <1>2. S \cap FreePages = FreePages \cap S
    OBVIOUS
  <1>3. Cardinality(FreePages \ S) = Cardinality(FreePages) - taken
    BY <1>1, <1>2, FS_Difference
  <1>4. taken \in Nat /\ taken <= Cardinality(FreePages)
    BY <1>1, FS_Intersection, FS_CardinalityType
  <1>5. FreePages' = FreePages \ S
    BY DEF MarkAllocated, FreePages, Pages
  <1>6. free_pages' = free_pages - taken
    BY <1>4 DEF MarkAllocated, FreeCountExact
  <1>7. QED
    BY <1>1, <1>3, <1>4, <1>5, <1>6 DEF MarkAllocated, FreeCountExact

\* Marking a set of allocated pages free adds them to the free set and their
\* number to the counter (mark_free).
LEMMA MarkFreeCounts ==
    ASSUME FramesTypeOK, FreeCountExact, NEW S \in SUBSET allocated, MarkFree(S)
    PROVE  /\ FreeCountExact'
           /\ FreePages' = FreePages \cup S
           /\ free_pages' \in Nat
           /\ allocated' = allocated \ S
           /\ total_pages' \in 0 .. MAX_PAGES
           /\ total_pages <= total_pages'
           /\ \A p \in S : p < total_pages'
  <1>1. /\ IsFiniteSet(FreePages) /\ Cardinality(FreePages) \in Nat
        /\ IsFiniteSet(S) /\ Cardinality(S) \in Nat
    BY PagesFinite DEF FreePages, FramesTypeOK
  <1>2. FreePages \cap S = {} /\ S \cap allocated = S
    BY DEF FreePages
  <1>3. Cardinality(FreePages \cup S) = Cardinality(FreePages) + Cardinality(S)
    BY <1>1, <1>2, FS_Union, FS_EmptySet
  <1>4. FreePages' = FreePages \cup S
    BY DEF MarkFree, FreePages, FramesTypeOK, Pages
  <1>5. free_pages' = free_pages + Cardinality(S)
    BY <1>2 DEF MarkFree
  <1>6. total_pages' \in 0 .. MAX_PAGES
    <2>1. \A p \in S : p \in 0 .. MAX_PAGES - 1
      BY DEF FramesTypeOK, Pages
    <2>2. CASE total_pages' = total_pages
      BY <2>2 DEF FramesTypeOK
    <2>3. CASE \E p \in S : total_pages' = p + 1
      BY <2>1, <2>3, ConstantsAssumption
    <2>4. QED
      BY <1>2, <2>2, <2>3 DEF MarkFree
  <1>7. QED
    BY <1>1, <1>2, <1>3, <1>4, <1>5, <1>6 DEF MarkFree, FreeCountExact

-----------------------------------------------------------------------------
(* Granting and returning pages.                                           *)

\* Handing out a set of free pages as one new grant keeps the invariant, as
\* long as the hint does not pass a page that stays free.
LEMMA GrantPreserves ==
    ASSUME IInv, NEW g \in Grant, PagesOf(g) \subseteq FreePages,
           MarkAllocated(PagesOf(g)),
           held' = held \cup {g}, HEAP_END' = HEAP_END,
           first_free' \in 0 .. MAX_PAGES,
           \A p \in FreePages \ PagesOf(g) : first_free' <= p
    PROVE  IInv'
  <1> USE DEF IInv
  <1>1. /\ FreeCountExact'
        /\ FreePages' = FreePages \ PagesOf(g)
        /\ free_pages' \in Nat
        /\ allocated' = allocated \cup (PagesOf(g) \cap Pages)
        /\ total_pages' = total_pages
    BY MarkAllocatedCounts
  <1>2. PagesOf(g) \subseteq Pages
    BY DEF FreePages
  <1>3. FramesTypeOK'
    BY <1>1 DEF FramesTypeOK
  <1>4. HintSound'
    <2>1. \A p \in Pages : p \notin allocated' => first_free' <= p
      BY <1>1 DEF FreePages
    <2>2. \A p \in Pages : p \in Int
      BY DEF Pages
    <2>3. first_free' \in Int
      BY ConstantsAssumption
    <2>4. QED
      BY <2>1, <2>2, <2>3 DEF HintSound, Pages
  <1>5. HeldAllocated'
    BY <1>1, <1>2 DEF HeldAllocated, PagesOf, PageRun
  <1>6. FreeSound'
    BY <1>1 DEF FreeSound, BootReserved
  <1>7. GrantsExclusive'
    <2>1. \A h \in held : PagesOf(g) \cap PagesOf(h) = {}
      BY DEF HeldAllocated, FreePages
    <2>2. PagesOf(g) \cap BootReserved = {}
      BY DEF FreeSound
    <2>3. QED
      BY <2>1, <2>2 DEF GrantsExclusive, PagesOf, PageRun, BootReserved
  <1>8. QED
    BY <1>1, <1>3, <1>4, <1>5, <1>6, <1>7

\* Taking a grant back keeps the invariant when the hint moves down to the
\* grant's first page or was there already.
LEMMA ReturnPreserves ==
    ASSUME IInv, NEW g \in held, MarkFree(PagesOf(g)),
           held' = held \ {g}, HEAP_END' = HEAP_END,
           first_free' = IF g.start < first_free THEN g.start ELSE first_free
    PROVE  IInv'
  <1> USE DEF IInv
  <1>1. PagesOf(g) \subseteq allocated
    BY DEF HeldAllocated
  <1>2. /\ FreeCountExact'
        /\ FreePages' = FreePages \cup PagesOf(g)
        /\ free_pages' \in Nat
        /\ allocated' = allocated \ PagesOf(g)
        /\ total_pages' \in 0 .. MAX_PAGES
        /\ total_pages <= total_pages'
        /\ \A p \in PagesOf(g) : p < total_pages'
    BY <1>1, MarkFreeCounts
  <1>3. g.start \in Pages /\ g.count \in Nat \ {0}
    BY DEF FramesTypeOK, Grant
  <1>4. FramesTypeOK'
    <2>1. first_free' \in 0 .. MAX_PAGES
      BY <1>3, ConstantsAssumption DEF FramesTypeOK, Pages
    <2>2. QED
      BY <1>2, <2>1 DEF FramesTypeOK
  <1>5. HintSound'
    <2>1. \A p \in PagesOf(g) : g.start <= p
      BY <1>3 DEF PagesOf, PageRun, Pages
    <2>2. QED
      BY <1>2, <1>3, <2>1 DEF HintSound, FramesTypeOK, Pages
  <1>6. HeldAllocated'
    BY <1>2 DEF HeldAllocated, GrantsExclusive, PagesOf, PageRun
  <1>7. FreeSound'
    <2>1. PagesOf(g) \cap BootReserved = {}
      BY DEF GrantsExclusive
    <2>2. \A p \in FreePages : p < total_pages'
      BY <1>2 DEF FreeSound, FramesTypeOK, FreePages, Pages
    <2>3. QED
      BY <1>2, <2>1, <2>2 DEF FreeSound, BootReserved
  <1>8. GrantsExclusive'
    BY DEF GrantsExclusive, PagesOf, PageRun, BootReserved
  <1>9. QED
    BY <1>2, <1>4, <1>5, <1>6, <1>7, <1>8

-----------------------------------------------------------------------------
(* One lemma per operation.                                                *)

\* The state physical::init leaves satisfies the invariant.
LEMMA InitEstablishes == FramesInit => IInv
  <1> SUFFICES ASSUME FramesInit PROVE IInv
    OBVIOUS
  <1> PICK avail \in SUBSET Pages : InitFrom(avail)
    BY DEF FramesInit
  <1>1. FreePages = avail \ BootReserved
    BY DEF InitFrom, FreePages
  <1>2. free_pages \in Nat /\ FreeCountExact
    BY <1>1, PagesFinite DEF InitFrom, FreeCountExact
  <1>3. FramesTypeOK
    BY <1>2, ConstantsAssumption DEF FramesInit, InitFrom, FramesTypeOK, Pages
  <1>4. HintSound
    BY <1>1 DEF InitFrom, HintSound, FreePages, Pages
  <1>5. FreeSound
    BY <1>1 DEF InitFrom, FreeSound
  <1>6. HeldAllocated /\ GrantsExclusive
    BY DEF FramesInit, HeldAllocated, GrantsExclusive
  <1>7. QED
    BY <1>2, <1>3, <1>4, <1>5, <1>6 DEF IInv

\* A call that returns None or an error changes nothing.
LEMMA StutterPreserves == IInv /\ UNCHANGED frameVars => IInv'
  BY DEF IInv, frameVars, FramesTypeOK, FreeCountExact, HintSound, HeldAllocated,
         FreeSound, GrantsExclusive, FreePages, PagesOf, PageRun, BootReserved

\* alloc keeps the invariant: with nothing free below the hint, the first
\* free page in search order is the lowest free page.
LEMMA AllocPreserves == IInv /\ Alloc => IInv'
  <1> SUFFICES ASSUME IInv, Alloc PROVE IInv'
    OBVIOUS
  <1>1. CASE FreePages = {}
    BY <1>1, StutterPreserves DEF Alloc
  <1>2. CASE FreePages # {}
    <2> PICK page \in FreePages :
            /\ \A q \in FreePages : SearchRank(page) <= SearchRank(q)
            /\ MarkAllocated({page})
            /\ first_free' = page + 1
            /\ held' = held \cup {[start |-> page, count |-> 1]}
            /\ UNCHANGED HEAP_END
      BY <1>2 DEF Alloc
    <2> DEFINE g == [start |-> page, count |-> 1]
    <2>1. page \in Pages /\ page \in 0 .. MAX_PAGES - 1
      BY DEF FreePages, Pages
    <2>2. g \in Grant /\ PagesOf(g) = {page}
      BY <2>1 DEF Grant, PagesOf, PageRun
    <2>3. \A q \in FreePages : first_free <= q /\ q \in 0 .. MAX_PAGES - 1
      BY DEF IInv, HintSound, FreePages, Pages, FramesTypeOK
    <2>4. \A q \in FreePages : page <= q
      BY <2>3 DEF SearchRank, IInv, FramesTypeOK
    <2>5. \A p \in FreePages \ PagesOf(g) : first_free' <= p
      BY <2>1, <2>2, <2>3, <2>4
    <2>6. first_free' \in 0 .. MAX_PAGES
      BY <2>1, ConstantsAssumption
    <2>7. PagesOf(g) \subseteq FreePages /\ MarkAllocated(PagesOf(g))
      BY <2>2
    <2> HIDE DEF g
    <2>8. held' = held \cup {g}
      BY DEF g
    <2>9. QED
      BY <2>2, <2>5, <2>6, <2>7, <2>8, GrantPreserves
  <1>3. QED
    BY <1>1, <1>2

\* alloc_contiguous keeps the invariant: the hint stays where it is, below
\* every page that stays free.
LEMMA AllocContiguousPreserves ==
    ASSUME IInv, NEW count \in Nat, AllocContiguous(count)
    PROVE  IInv'
  <1>1. CASE count = 0
    BY <1>1, StutterPreserves DEF AllocContiguous
  <1>2. CASE count = 1
    BY <1>2, AllocPreserves DEF AllocContiguous
  <1>3. CASE count > 1 /\ RunsFrom(first_free, count) = {}
    BY <1>3, StutterPreserves DEF AllocContiguous
  <1>4. CASE count > 1 /\ RunsFrom(first_free, count) # {}
    <2> PICK s \in RunsFrom(first_free, count) :
            /\ MarkAllocated(PageRun(s, count))
            /\ held' = held \cup {[start |-> s, count |-> count]}
            /\ UNCHANGED <<first_free, HEAP_END>>
      BY <1>4 DEF AllocContiguous
    <2> DEFINE g == [start |-> s, count |-> count]
    <2>1. g \in Grant /\ PagesOf(g) = PageRun(s, count)
      BY <1>4 DEF Grant, PagesOf, RunsFrom
    <2>2. PagesOf(g) \subseteq FreePages
      BY <2>1 DEF RunsFrom
    <2>3. \A q \in FreePages : first_free <= q
      BY DEF IInv, HintSound, FreePages, Pages, FramesTypeOK
    <2>4. first_free' \in 0 .. MAX_PAGES
      BY DEF IInv, FramesTypeOK
    <2>5. MarkAllocated(PagesOf(g)) /\ held' = held \cup {g}
      BY <2>1
    <2> HIDE DEF g
    <2>6. QED
      BY <2>1, <2>2, <2>3, <2>4, <2>5, GrantPreserves
  <1>5. QED
    BY <1>1, <1>2, <1>3, <1>4

\* free keeps the invariant.
LEMMA FreePreserves ==
    ASSUME IInv, NEW g \in held, Free(g)
    PROVE  IInv'
  <1>1. g.start \in Nat /\ g.count = 1
    BY DEF IInv, FramesTypeOK, Grant, Pages, Free
  <1>2. PagesOf(g) = {g.start}
    BY <1>1 DEF PagesOf, PageRun
  <1>3. g.start \in allocated
    BY <1>2 DEF IInv, HeldAllocated
  <1>4. QED
    BY <1>2, <1>3, ReturnPreserves DEF Free

\* extend_heap keeps the invariant: it only takes pages away from the free
\* set.
LEMMA ExtendHeapPreserves ==
    ASSUME IInv, NEW additional \in Nat, ExtendHeap(additional)
    PROVE  IInv'
  <1>1. CASE HEAP_END - HEAP_START + additional > MAX_HEAP_SIZE
    BY <1>1, StutterPreserves DEF ExtendHeap
  <1>2. CASE ~(HEAP_END - HEAP_START + additional > MAX_HEAP_SIZE)
    <2> DEFINE S == HEAP_END .. HEAP_END + additional - 1
    <2>1. /\ MarkAllocated(S)
          /\ HEAP_END' = HEAP_END + additional
          /\ UNCHANGED <<first_free, held>>
      BY <1>2 DEF ExtendHeap
    <2> HIDE DEF S
    <2>2. /\ FreeCountExact'
          /\ FreePages' = FreePages \ S
          /\ free_pages' \in Nat
          /\ allocated' = allocated \cup (S \cap Pages)
          /\ total_pages' = total_pages
      BY <2>1, MarkAllocatedCounts DEF IInv
    <2>3. HEAP_END' \in HEAP_START + HEAP_SIZE .. HEAP_START + MAX_HEAP_SIZE
      BY <1>2, <2>1, ConstantsAssumption DEF IInv, FramesTypeOK
    <2>4. FramesTypeOK'
      BY <2>1, <2>2, <2>3 DEF IInv, FramesTypeOK
    <2>5. HintSound' /\ HeldAllocated'
      BY <2>1, <2>2 DEF IInv, HintSound, HeldAllocated, PagesOf, PageRun
    <2>6. FreeSound' /\ GrantsExclusive'
      BY <2>1, <2>2
      DEF IInv, FreeSound, GrantsExclusive, PagesOf, PageRun, BootReserved
    <2>7. QED
      BY <2>2, <2>4, <2>5, <2>6 DEF IInv
  <1>3. QED
    BY <1>1, <1>2

\* Every call keeps the invariant.
LEMMA NextPreserves == IInv /\ [FramesNext]_frameVars => IInv'
  <1> SUFFICES ASSUME IInv, [FramesNext]_frameVars PROVE IInv'
    OBVIOUS
  <1>1. CASE Alloc
    BY <1>1, AllocPreserves
  <1>2. ASSUME NEW count \in 0 .. MAX_COUNT, AllocContiguous(count)
        PROVE  IInv'
    BY <1>2, ConstantsAssumption, AllocContiguousPreserves
  <1>3. ASSUME NEW g \in held, Free(g)
        PROVE  IInv'
    BY <1>3, FreePreserves
  <1>4. ASSUME NEW g \in held, FreeContiguous(g)
        PROVE  IInv'
    BY <1>4, ReturnPreserves DEF FreeContiguous
  <1>5. ASSUME NEW additional \in 0 .. MAX_COUNT, ExtendHeap(additional)
        PROVE  IInv'
    BY <1>5, ConstantsAssumption, ExtendHeapPreserves
  <1>6. CASE UNCHANGED frameVars
    BY <1>6, StutterPreserves
  <1>7. QED
    BY <1>1, <1>2, <1>3, <1>4, <1>5, <1>6 DEF FramesNext

\* The inductive invariant holds in every reachable state.
THEOREM InductiveInvariant == FramesSpec => []IInv
  BY InitEstablishes, NextPreserves, PTL DEF FramesSpec

-----------------------------------------------------------------------------
(* The properties the runs check, for every instance.                      *)

\* The allocator's fields keep their ranges.
THEOREM TypeCorrect == FramesSpec => []FramesTypeOK
  <1>1. IInv => FramesTypeOK
    BY DEF IInv
  <1>2. QED
    BY <1>1, InductiveInvariant, PTL

\* The running free count is the number of clear bits (mark_allocated and
\* mark_free never lose count).
THEOREM FreeCountCorrect == FramesSpec => []FreeCountExact
  <1>1. IInv => FreeCountExact
    BY DEF IInv
  <1>2. QED
    BY <1>1, InductiveInvariant, PTL

\* No frame is handed out twice, and none of the boot-time reserved frames is
\* handed out at all, whatever is allocated, freed or reserved in whatever
\* order.
THEOREM GrantsCorrect == FramesSpec => []GrantsExclusive
  <1>1. IInv => GrantsExclusive
    BY DEF IInv
  <1>2. QED
    BY <1>1, InductiveInvariant, PTL

\* alloc_contiguous, scanning from the hint without wrapping, fails only if
\* memory has no run of that length.
THEOREM SearchCorrect == FramesSpec => []SearchComplete
  <1>1. IInv => SearchComplete
    <2> SUFFICES ASSUME IInv, NEW count \in 1 .. MAX_PAGES,
                        NEW s \in RunsFrom(0, count)
                 PROVE  s \in RunsFrom(first_free, count)
      BY DEF SearchComplete
    <2>1. s \in Pages /\ s \in FreePages
      BY ConstantsAssumption DEF RunsFrom, PageRun, Pages
    <2>2. first_free <= s
      BY <2>1 DEF IInv, HintSound, FreePages, Pages, FramesTypeOK
    <2>3. QED
      BY <2>1, <2>2 DEF RunsFrom
  <1>2. QED
    BY <1>1, InductiveInvariant, PTL

\* The unsigned subtraction total_pages - free_pages of stats() never
\* underflows.
THEOREM StatsCorrect == FramesSpec => []StatsNoUnderflow
  <1>1. IInv => StatsNoUnderflow
    <2> SUFFICES ASSUME IInv PROVE free_pages <= total_pages
      BY DEF StatsNoUnderflow
    <2>1. total_pages \in Nat
      BY ConstantsAssumption DEF IInv, FramesTypeOK
    <2>2. FreePages \in SUBSET (0 .. total_pages - 1)
      BY <2>1 DEF IInv, FreeSound, FreePages, Pages
    <2>3. /\ IsFiniteSet(0 .. total_pages - 1)
          /\ Cardinality(0 .. total_pages - 1) = total_pages
      BY <2>1, FS_Interval
    <2>4. Cardinality(FreePages) <= total_pages
      BY <2>2, <2>3, FS_Subset
    <2>5. QED
      BY <2>4 DEF IInv, FreeCountExact
  <1>2. QED
    BY <1>1, InductiveInvariant, PTL
=============================================================================
