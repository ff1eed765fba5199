----------------------------- MODULE PMMProofs -----------------------------
(***************************************************************************)
(* Proofs about PMM for every size of the bitmap, every memory map and     *)
(* every sequence of calls.                                                *)
(***************************************************************************)
EXTENDS PMM, FiniteSetTheorems, WellFoundedInduction, TLAPS

(* A set of frames is finite. *)
LEMMA FramesFinite ==
  ASSUME NEW S, S \subseteq Frames
  PROVE  IsFiniteSet(S) /\ Cardinality(S) \in Nat
<1>1. IsFiniteSet(Frames)
  BY FS_Interval, SizeAssumption DEF Frames
<1> QED
  BY <1>1, FS_Subset, FS_CardinalityType

(* A run that find_free_pages returns consists of free frames of the       *)
(* managed range.                                                          *)
LEMMA RunIsFree ==
  ASSUME TypeOK, NEW count \in 1 .. MaxPages, NEW s \in find_free_pages(count)
  PROVE  /\ s \in Nat /\ LowPages <= s /\ s + count <= total_pages
         /\ s .. s + count - 1 \subseteq Frames \ bitmap
         /\ Cardinality(s .. s + count - 1) = count
<1>1. s \in LowPages .. total_pages - count
  BY DEF find_free_pages, FreeRuns
<1>2. /\ s \in Nat
      /\ LowPages <= s
      /\ s + count <= total_pages
  BY <1>1, SizeAssumption DEF TypeOK
<1>3. s .. s + count - 1 \subseteq Frames \ bitmap
  BY DEF find_free_pages, FreeRuns
<1>4. Cardinality(s .. s + count - 1) = count
  BY <1>2, FS_Interval
<1> QED
  BY <1>2, <1>3, <1>4

(* pmm_init caps total_pages at MAX_PAGES. *)
LEMMA TotalPagesType ==
  ASSUME NEW mmap \in Mmaps
  PROVE  TotalPages(mmap) \in 0 .. MaxPages
<1>1. TotalMemory(mmap) \div PageSize \in Nat
  BY BootAssumption, SizeAssumption
<1> QED
  BY <1>1, SizeAssumption DEF TotalPages

(* TypeOK is an invariant: the counters of pmm.c stay in range under every *)
(* sequence of calls.                                                      *)
THEOREM TypeCorrect == Spec => []TypeOK
<1>1. Init => TypeOK
  <2> SUFFICES ASSUME NEW mmap \in Mmaps, NEW kernel_end \in KernelEnds,
                      pmm_init(mmap, kernel_end)
               PROVE  TypeOK
    BY DEF Init
  <2>1. /\ bitmap \subseteq Frames /\ held \subseteq Frames
        /\ usable \subseteq Frames /\ released \subseteq Frames
    BY DEF pmm_init, Reserved, ReallyAvailable
  <2>2. total_pages \in 0 .. MaxPages
    BY TotalPagesType DEF pmm_init
  <2>3. used_pages \in Nat
    BY <2>1, FramesFinite DEF pmm_init
  <2> QED
    BY <2>1, <2>2, <2>3 DEF TypeOK
<1>2. TypeOK /\ [Next]_vars => TypeOK'
  <2> SUFFICES ASSUME TypeOK, [Next]_vars
               PROVE  TypeOK'
    OBVIOUS
  <2>1. ASSUME NEW count \in 1 .. MaxPages, pmm_alloc_pages(count)
        PROVE  TypeOK'
    <3>1. CASE UNCHANGED vars
      BY <3>1 DEF TypeOK, vars
    <3>2. ASSUME NEW s \in find_free_pages(count),
                 bitmap' = bitmap \cup s .. s + count - 1,
                 used_pages' = used_pages + count,
                 held' = held \cup s .. s + count - 1,
                 UNCHANGED <<total_pages, usable, released>>
          PROVE  TypeOK'
      BY <3>2, RunIsFree DEF TypeOK
    <3> QED
      BY <2>1, <3>1, <3>2 DEF pmm_alloc_pages
  <2>2. ASSUME NEW frames, Clear(frames)
        PROVE  bitmap' \subseteq Frames /\ used_pages' \in Nat
    <3>1. Cardinality(bitmap \cap frames) \in Nat
      BY FramesFinite DEF TypeOK
    <3> QED
      BY <2>2, <3>1 DEF TypeOK, Clear
  <2>3. ASSUME NEW pfn \in Frames, NEW count \in 1 .. MaxPages, pmm_free_pages(pfn, count)
        PROVE  TypeOK'
    BY <2>2, <2>3 DEF TypeOK, pmm_free_pages, GiveUp
  <2>4. ASSUME NEW r \in MarkRegions, MarkUsed(r)
        PROVE  TypeOK'
    <3>1. Cardinality(Outward(r) \ bitmap) \in Nat
      BY FramesFinite DEF Outward
    <3> QED
      BY <2>4, <3>1 DEF TypeOK, MarkUsed, pmm_mark_region_used, Outward
  <2>5. ASSUME NEW r \in MarkRegions, MarkFree(r)
        PROVE  TypeOK'
    BY <2>2, <2>5 DEF TypeOK, MarkFree, pmm_mark_region_free, Inward, GiveUp
  <2>6. CASE UNCHANGED vars
    BY <2>6 DEF TypeOK, vars
  <2> QED
    BY <2>1, <2>3, <2>4, <2>5, <2>6 DEF Next
<1> QED
  BY <1>1, <1>2, PTL DEF Spec

-----------------------------------------------------------------------------
(* HeldFramesAreUsed is an invariant: alloc never hands out a held frame,  *)
(* and a free or mark releases the frames it names and no other.           *)
THEOREM HeldFramesStayUsed == Spec => []HeldFramesAreUsed
<1>1. Init => HeldFramesAreUsed
  BY DEF Init, pmm_init, HeldFramesAreUsed
<1>2. TypeOK /\ HeldFramesAreUsed /\ [Next]_vars => HeldFramesAreUsed'
  <2> SUFFICES ASSUME TypeOK, HeldFramesAreUsed, [Next]_vars
               PROVE  HeldFramesAreUsed'
    OBVIOUS
  <2>1. ASSUME NEW count \in 1 .. MaxPages, pmm_alloc_pages(count)
        PROVE  HeldFramesAreUsed'
    <3>1. CASE UNCHANGED vars
      BY <3>1 DEF HeldFramesAreUsed, vars
    <3>2. ASSUME NEW s \in find_free_pages(count),
                 bitmap' = bitmap \cup s .. s + count - 1,
                 held' = held \cup s .. s + count - 1,
                 UNCHANGED total_pages
          PROVE  HeldFramesAreUsed'
      <4>1. s \in Nat /\ LowPages <= s /\ s + count <= total_pages
        BY RunIsFree
      <4>2. \A p \in s .. s + count - 1 : LowPages <= p /\ p < total_pages
        BY <4>1, SizeAssumption DEF TypeOK
      <4> QED
        BY <3>2, <4>2 DEF HeldFramesAreUsed
    <3> QED
      BY <2>1, <3>1, <3>2 DEF pmm_alloc_pages
  <2>2. ASSUME NEW pfn \in Frames, NEW count \in 1 .. MaxPages, pmm_free_pages(pfn, count)
        PROVE  HeldFramesAreUsed'
    BY <2>2 DEF HeldFramesAreUsed, pmm_free_pages, Clear, GiveUp
  <2>3. ASSUME NEW r \in MarkRegions, MarkUsed(r)
        PROVE  HeldFramesAreUsed'
    BY <2>3 DEF HeldFramesAreUsed, MarkUsed, pmm_mark_region_used
  <2>4. ASSUME NEW r \in MarkRegions, MarkFree(r)
        PROVE  HeldFramesAreUsed'
    BY <2>4 DEF HeldFramesAreUsed, MarkFree, pmm_mark_region_free, Clear, GiveUp
  <2>5. CASE UNCHANGED vars
    BY <2>5 DEF HeldFramesAreUsed, vars
  <2> QED
    BY <2>1, <2>2, <2>3, <2>4, <2>5 DEF Next
<1> QED
  BY <1>1, <1>2, TypeCorrect, PTL DEF Spec

-----------------------------------------------------------------------------
(* The set bits that used_pages counts. *)
Counted == {p \in bitmap : p < total_pages}

(* The frames below total_pages split into the counted ones and the free   *)
(* ones, so an exact used_pages makes pmm_get_free_memory exact too.       *)
LEMMA FreeIsComplement ==
  ASSUME TypeOK, used_pages = Cardinality(Counted)
  PROVE  UsedAccounting
<1> DEFINE F == {p \in Frames \ bitmap : p < total_pages}
<1>1. Counted \subseteq Frames /\ F \subseteq Frames
  BY DEF TypeOK, Counted
<1>2. Counted \cup F = 0 .. total_pages - 1 /\ Counted \cap F = {}
  <2>1. \A p : p \in Frames /\ p < total_pages <=> p \in 0 .. total_pages - 1
    BY SizeAssumption DEF TypeOK, Frames
  <2> QED
    BY <2>1 DEF TypeOK, Counted
<1>3. Cardinality(0 .. total_pages - 1) = total_pages
  BY FS_Interval DEF TypeOK
<1>4. UsedAccounting <=> /\ used_pages = Cardinality(Counted)
                         /\ total_pages - used_pages = Cardinality(F)
  BY DEF UsedAccounting, pmm_get_used_memory, pmm_get_free_memory, Counted
<1> HIDE DEF F
<1>5. /\ IsFiniteSet(Counted) /\ Cardinality(Counted) \in Nat
      /\ IsFiniteSet(F) /\ Cardinality(F) \in Nat
  BY <1>1, FramesFinite
<1>6. total_pages = Cardinality(Counted) + Cardinality(F)
  <2>1. Cardinality(Counted \cup F) =
          Cardinality(Counted) + Cardinality(F) - Cardinality(Counted \cap F)
    BY <1>5, FS_Union
  <2>2. Cardinality(Counted \cap F) = 0
    BY <1>2, FS_EmptySet
  <2>3. Cardinality(Counted \cup F) = total_pages
    BY <1>2, <1>3
  <2> QED
    BY <2>1, <2>2, <2>3, <1>5
<1> QED
  BY <1>4, <1>5, <1>6 DEF TypeOK

(* Setting the bits of clear frames below total_pages. *)
LEMMA SetCounted ==
  ASSUME TypeOK, NEW S, S \subseteq Frames \ bitmap,
         \A p \in S : p < total_pages,
         used_pages = Cardinality(Counted),
         bitmap' = bitmap \cup S, UNCHANGED total_pages,
         used_pages' = used_pages + Cardinality(S)
  PROVE  (used_pages = Cardinality(Counted))'
<1>1. IsFiniteSet(Counted) /\ IsFiniteSet(S)
  BY FramesFinite DEF TypeOK, Counted
<1>2. Counted' = Counted \cup S /\ Counted \cap S = {}
  BY DEF Counted
<1>3. Cardinality(Counted') = Cardinality(Counted) + Cardinality(S)
  BY <1>1, <1>2, FS_Union, FS_EmptySet, FS_CardinalityType
<1> QED
  BY <1>3

(* Clearing bits below total_pages: used_pages is large enough for every   *)
(* decrement, so the test "if (used_pages > 0)" never hides a miscount.    *)
LEMMA ClearCounted ==
  ASSUME TypeOK, NEW S, \A p \in S : p \in bitmap => p < total_pages,
         used_pages = Cardinality(Counted),
         Clear(S), UNCHANGED total_pages
  PROVE  (used_pages = Cardinality(Counted))'
<1>1. IsFiniteSet(Counted)
  BY FramesFinite DEF TypeOK, Counted
<1>2. Counted' = Counted \ S /\ Counted \cap S = bitmap \cap S
  BY DEF Counted, Clear
<1>3. /\ Cardinality(Counted \ S) = Cardinality(Counted) - Cardinality(bitmap \cap S)
      /\ IsFiniteSet(Counted \ S)
  BY <1>1, <1>2, FS_Difference
<1>4. /\ Cardinality(Counted) \in Nat
      /\ Cardinality(Counted \ S) \in Nat
      /\ Cardinality(bitmap \cap S) \in Nat
  BY <1>1, <1>2, <1>3, FS_CardinalityType, FramesFinite DEF TypeOK
<1>5. used_pages >= Cardinality(bitmap \cap S)
  BY <1>3, <1>4
<1>6. used_pages' = used_pages - Cardinality(bitmap \cap S)
  BY <1>5 DEF Clear
<1> QED
  BY <1>2, <1>3, <1>6

(* UsedAccounting is an invariant as long as nobody marks a region beyond  *)
(* total_pages: used_pages, updated by increments in every operation, is   *)
(* exactly the number of used frames.                                      *)
THEOREM AccountingIsExact == ~MarksAboveTotal /\ Spec => []UsedAccounting
<1> SUFFICES ASSUME ~MarksAboveTotal
             PROVE  Spec => []UsedAccounting
  OBVIOUS
<1> DEFINE Exact == used_pages = Cardinality(Counted)
<1>1. Init => Exact
  BY DEF Init, pmm_init, Counted
<1>2. TypeOK /\ Exact /\ [Next]_vars => Exact'
  <2> SUFFICES ASSUME TypeOK, Exact, [Next]_vars
               PROVE  Exact'
    OBVIOUS
  <2>1. ASSUME NEW count \in 1 .. MaxPages, pmm_alloc_pages(count)
        PROVE  Exact'
    <3>1. CASE UNCHANGED vars
      BY <3>1 DEF Counted, vars
    <3>2. ASSUME NEW s \in find_free_pages(count),
                 bitmap' = bitmap \cup s .. s + count - 1,
                 used_pages' = used_pages + count,
                 UNCHANGED total_pages
          PROVE  Exact'
      <4>1. /\ s \in Nat /\ s + count <= total_pages
            /\ s .. s + count - 1 \subseteq Frames \ bitmap
            /\ Cardinality(s .. s + count - 1) = count
        BY RunIsFree
      <4>2. \A p \in s .. s + count - 1 : p < total_pages
        BY <4>1 DEF TypeOK
      <4> QED
        BY <3>2, <4>1, <4>2, SetCounted
    <3> QED
      BY <2>1, <3>1, <3>2 DEF pmm_alloc_pages
  <2>2. ASSUME NEW pfn \in Frames, NEW count \in 1 .. MaxPages, pmm_free_pages(pfn, count)
        PROVE  Exact'
    <3> DEFINE S == {p \in pfn .. pfn + count - 1 : p < total_pages}
    <3>1. Clear(S) /\ UNCHANGED total_pages
      BY <2>2 DEF pmm_free_pages
    <3> QED
      BY <3>1, ClearCounted
  <2>3. ASSUME NEW r \in MarkRegions, MarkUsed(r)
        PROVE  Exact'
    <3> DEFINE S == Outward(r) \ bitmap
    <3>1. \A p \in S : p < total_pages
      BY <2>3 DEF MarkUsed, MayMark
    <3>2. S \subseteq Frames \ bitmap
      BY DEF Outward
    <3>3. /\ bitmap' = bitmap \cup S
          /\ used_pages' = used_pages + Cardinality(S)
          /\ UNCHANGED total_pages
      BY <2>3 DEF MarkUsed, pmm_mark_region_used
    <3> QED
      BY <3>1, <3>2, <3>3, SetCounted
  <2>4. ASSUME NEW r \in MarkRegions, MarkFree(r)
        PROVE  Exact'
    <3>1. \A p \in Inward(r) : p < total_pages
      BY <2>4 DEF MarkFree, MayMark
    <3>2. Clear(Inward(r)) /\ UNCHANGED total_pages
      BY <2>4 DEF MarkFree, pmm_mark_region_free
    <3> QED
      BY <3>1, <3>2, ClearCounted
  <2>5. CASE UNCHANGED vars
    BY <2>5 DEF Counted, vars
  <2> QED
    BY <2>1, <2>2, <2>3, <2>4, <2>5 DEF Next
<1>3. TypeOK /\ Exact => UsedAccounting
  BY FreeIsComplement
<1> QED
  BY <1>1, <1>2, <1>3, TypeCorrect, PTL DEF Spec


-----------------------------------------------------------------------------
LEMMA Division ==
  ASSUME NEW a \in Nat
  PROVE  /\ a \div PageSize \in Nat /\ a % PageSize \in 0 .. PageSize - 1
         /\ a = PageSize * (a \div PageSize) + (a % PageSize)
<1>1. PageSize \in Nat /\ PageSize > 0
  BY SizeAssumption
<1>2. a % PageSize \in 0 .. PageSize - 1
  BY <1>1
<1>3. a = PageSize * (a \div PageSize) + (a % PageSize)
  BY <1>1
<1>4. a \div PageSize \in Int
  BY <1>1
<1>5. a \div PageSize >= 0
  BY <1>1
<1> QED
  BY <1>2, <1>3, <1>4, <1>5

(* PAGE_ALIGN_DOWN and PAGE_ALIGN_UP, then ADDR_TO_PFN. *)
LEMMA AlignDown ==
  ASSUME NEW a \in Nat
  PROVE  /\ PAGE_ALIGN_DOWN(a) = PageSize * (a \div PageSize)
         /\ ADDR_TO_PFN(PAGE_ALIGN_DOWN(a)) = a \div PageSize
<1>1. PAGE_ALIGN_DOWN(a) = PageSize * (a \div PageSize)
  BY Division, SizeAssumption DEF PAGE_ALIGN_DOWN
<1>2. ASSUME NEW q \in Nat PROVE (PageSize * q) \div PageSize = q
  BY SizeAssumption
<1> QED
  BY <1>1, <1>2, Division DEF ADDR_TO_PFN

LEMMA AlignUp ==
  ASSUME NEW a \in Nat, a + PageSize <= AddrSpace
  PROVE  /\ ADDR_TO_PFN(PAGE_ALIGN_UP(a)) = (a + PageSize - 1) \div PageSize
<1>1. a + PageSize - 1 \in Nat /\ a + PageSize - 1 < AddrSpace
  BY SizeAssumption
<1>2. (a + PageSize - 1) % AddrSpace = a + PageSize - 1
  BY <1>1, SizeAssumption
<1> QED
  BY <1>1, <1>2, AlignDown DEF PAGE_ALIGN_UP

(* A page at or above the aligned address starts at or above it. *)
LEMMA UpIsAbove ==
  ASSUME NEW a \in Nat, NEW p \in Nat
  PROVE  (a + PageSize - 1) \div PageSize <= p <=> a <= p * PageSize
<1> DEFINE b == a + PageSize - 1
           q == b \div PageSize
<1>1. b \in Nat /\ q \in Nat /\ b = PageSize * q + (b % PageSize) /\ b % PageSize \in 0 .. PageSize - 1
  BY Division, SizeAssumption
<1> HIDE DEF q
<1>2. a <= PageSize * q /\ PageSize * q < a + PageSize
  <2>1. PICK x \in Nat, y \in 0 .. PageSize - 1 : x = PageSize * q /\ y = b % PageSize
    BY <1>1, SizeAssumption
  <2>2. a + PageSize - 1 = x + y
    BY <1>1, <2>1
  <2>3. a <= x /\ x < a + PageSize
    BY <2>2, SizeAssumption
  <2> QED
    BY <2>1, <2>3
<1>3. q <= p => PageSize * q <= PageSize * p
  BY <1>1, SizeAssumption
<1>4. q >= p + 1 => PageSize * q >= PageSize * p + PageSize
  BY <1>1, SizeAssumption
<1> QED
  BY <1>1, <1>2, <1>3, <1>4, SizeAssumption DEF q

LEMMA DownIsBelow ==
  ASSUME NEW a \in Nat, NEW p \in Nat
  PROVE  p < a \div PageSize => (p + 1) * PageSize <= a
<1> DEFINE q == a \div PageSize
<1>1. q \in Nat /\ a = PageSize * q + (a % PageSize) /\ a % PageSize \in Nat
  BY Division, SizeAssumption
<1> HIDE DEF q
<1>2. q >= p + 1 => PageSize * q >= PageSize * (p + 1)
  BY <1>1, SizeAssumption
<1> QED
  BY <1>1, <1>2, SizeAssumption DEF q

(* A frame pmm_init clears for an entry lies inside the entry. *)
LEMMA ClearedIsInside ==
  ASSUME NEW r \in Region, r.base_addr + r.length <= AddrSpace,
         MaxPages * PageSize + PageSize <= AddrSpace, NEW p \in ClearedBy(r)
  PROVE  /\ r.available /\ r.base_addr <= p * PageSize
         /\ (p + 1) * PageSize <= r.base_addr + r.length
<1> DEFINE limit == MaxPages * PageSize
           sum == (Base(r) + Length(r)) % AddrSpace
           end == IF sum > limit THEN limit ELSE sum
<1>1. /\ r.available /\ p \in Frames /\ Base(r) < limit
      /\ ADDR_TO_PFN(PAGE_ALIGN_UP(Base(r))) <= p
      /\ p < ADDR_TO_PFN(PAGE_ALIGN_DOWN(end))
  BY DEF ClearedBy
<1>2. /\ PageSize \in Nat /\ PageSize > 0 /\ AddrSpace \in Nat /\ AddrSpace > 0
      /\ limit \in Nat /\ limit < AddrSpace /\ r.base_addr \in Nat /\ r.length \in Nat
  BY SizeAssumption DEF Region
<1>3. Base(r) \in Nat /\ Length(r) \in Nat /\ sum \in Nat
  BY <1>2 DEF Base, Length
<1>4. end \in Nat /\ end <= sum /\ p \in Nat
  BY <1>1, <1>2, <1>3, SizeAssumption DEF Frames
<1> HIDE DEF sum, end, limit
<1>5. Base(r) <= p * PageSize
  <2>1. Base(r) + PageSize <= AddrSpace
    BY <1>1, <1>2, <1>3 DEF limit
  <2> QED
    BY <1>1, <1>3, <1>4, <2>1, AlignUp, UpIsAbove
<1>6. (p + 1) * PageSize <= sum
  <2>1. (p + 1) * PageSize <= end
    BY <1>1, <1>4, AlignDown, DownIsBelow
  <2>2. (p + 1) * PageSize \in Nat
    BY <1>2, <1>4
  <2> QED
    BY <1>3, <1>4, <2>1, <2>2
<1>7. sum # 0
  <2>1. (p + 1) * PageSize > 0
    BY <1>2, <1>4
  <2> QED
    BY <1>2, <1>3, <1>4, <1>6, <2>1
<1>8. /\ r.base_addr < AddrSpace /\ r.length < AddrSpace
      /\ r.base_addr + r.length < AddrSpace
  <2>1. CASE r.base_addr = AddrSpace \/ r.length = AddrSpace
    <3>1. Base(r) = 0 /\ Length(r) = 0
      BY <1>2, <2>1 DEF Base, Length
    <3> QED
      BY <1>2, <1>7, <3>1 DEF sum
  <2>2. CASE r.base_addr < AddrSpace /\ r.length < AddrSpace /\ r.base_addr + r.length = AddrSpace
    <3>1. Base(r) = r.base_addr /\ Length(r) = r.length
      BY <1>2, <2>2 DEF Base, Length
    <3> QED
      BY <1>2, <1>7, <2>2, <3>1 DEF sum
  <2> QED
    BY <1>2, <2>1, <2>2
<1>9. Base(r) = r.base_addr /\ Length(r) = r.length
  BY <1>2, <1>8 DEF Base, Length
<1>10. sum = r.base_addr + r.length
  BY <1>2, <1>8, <1>9 DEF sum
<1> QED
  BY <1>1, <1>5, <1>6, <1>9, <1>10

(* NoForeignFrame is an invariant when the maps are regular, whatever the  *)
(* callers free.  It is inductive with the fact that every clear bit is    *)
(* that of a usable frame or of one that a caller has released.            *)
THEOREM OwnFramesOnly ==
  ASSUME RegularMaps
  PROVE  Spec => []NoForeignFrame
<1> DEFINE Known == usable \cup released
           FreeIsUsable == Frames \ bitmap \subseteq Known /\ held \subseteq Known
<1>1. Init => FreeIsUsable
  <2> SUFFICES ASSUME NEW mmap \in Mmaps, NEW kernel_end \in KernelEnds,
                      pmm_init(mmap, kernel_end), NEW p \in Frames \ bitmap
               PROVE  p \in usable
    BY DEF Init, pmm_init
  <2>1. p \notin Reserved(kernel_end) /\ \E i \in DOMAIN mmap : p \in ClearedBy(mmap[i])
    BY DEF pmm_init
  <2>2. p \in Nat /\ kernel_end \in Nat /\ kernel_end + PageSize <= AddrSpace
    BY SizeAssumption, BootAssumption DEF Frames, RegularMaps
  <2>3. p \notin Occupied(kernel_end)
    <3>1. ~(p < LowPages) /\ ~(p < ADDR_TO_PFN(PAGE_ALIGN_UP(kernel_end)))
      BY <2>1 DEF Reserved
    <3>2. ADDR_TO_PFN(PAGE_ALIGN_UP(kernel_end)) = (kernel_end + PageSize - 1) \div PageSize
      BY <2>2, AlignUp
    <3>3. (kernel_end + PageSize - 1) \div PageSize \in Int
      BY <2>2, SizeAssumption
    <3>4. kernel_end <= p * PageSize
      BY <2>2, <3>1, <3>2, <3>3, UpIsAbove
    <3>5. p * PageSize \in Nat
      BY <2>2, SizeAssumption
    <3> QED
      BY <2>2, <3>1, <3>4, <3>5 DEF Occupied
  <2>4. PICK i \in DOMAIN mmap : p \in ClearedBy(mmap[i])
    BY <2>1
  <2>5. /\ mmap[i] \in Region /\ mmap[i].base_addr + mmap[i].length <= AddrSpace
        /\ MaxPages * PageSize + PageSize <= AddrSpace
    BY BootAssumption DEF RegularMaps
  <2>6. /\ mmap[i].available /\ mmap[i].base_addr <= p * PageSize
        /\ (p + 1) * PageSize <= mmap[i].base_addr + mmap[i].length
    BY <2>4, <2>5, ClearedIsInside
  <2>7. \A j \in DOMAIN mmap : ~mmap[j].available => ~Touches(mmap[j], p)
    BY <2>6 DEF RegularMaps
  <2>8. p \in ReallyAvailable(mmap)
    BY <2>6, <2>7 DEF ReallyAvailable
  <2> QED
    BY <2>3, <2>8 DEF pmm_init
<1>2. TypeOK /\ FreeIsUsable /\ [Next]_vars => FreeIsUsable'
  <2> SUFFICES ASSUME TypeOK, FreeIsUsable, [Next]_vars PROVE FreeIsUsable'
    OBVIOUS
  <2>1. ASSUME NEW count \in 1 .. MaxPages, pmm_alloc_pages(count) PROVE FreeIsUsable'
    <3>1. \A s \in find_free_pages(count) : s .. s + count - 1 \subseteq Frames \ bitmap
      BY RunIsFree
    <3> QED
      BY <2>1, <3>1 DEF pmm_alloc_pages, vars
  <2>2. ASSUME NEW pfn \in Frames, NEW count \in 1 .. MaxPages, pmm_free_pages(pfn, count)
        PROVE  FreeIsUsable'
    BY <2>2 DEF pmm_free_pages, Clear, GiveUp
  <2>3. ASSUME NEW r \in MarkRegions, MarkUsed(r) PROVE FreeIsUsable'
    BY <2>3 DEF MarkUsed, pmm_mark_region_used
  <2>4. ASSUME NEW r \in MarkRegions, MarkFree(r) PROVE FreeIsUsable'
    BY <2>4 DEF MarkFree, pmm_mark_region_free, Clear, GiveUp
  <2>5. CASE UNCHANGED vars
    BY <2>5 DEF vars
  <2> QED
    BY <2>1, <2>2, <2>3, <2>4, <2>5 DEF Next
<1>3. FreeIsUsable => NoForeignFrame
  BY DEF NoForeignFrame
<1> QED
  BY <1>1, <1>2, <1>3, TypeCorrect, PTL DEF Spec

-----------------------------------------------------------------------------
(* The loop of find_free_pages. *)

(* Induction over the naturals, by a least counterexample. *)
LEMMA LeastNat ==
  ASSUME NEW T \in SUBSET Nat, T # {}
  PROVE  \E i \in T : \A j \in T : i <= j
<1> DEFINE R == {ss \in Nat \X Nat : ss[1] < ss[2]}
<1>1. IsWellFoundedOn(R, Nat)
  BY NatLessThanWellFounded DEF OpToRel
<1>2. \A a, b \in Nat : a < b => <<a, b>> \in R
  OBVIOUS
<1> HIDE DEF R
<1>3. PICK i \in T : \A j \in T : ~ (<<j, i>> \in R)
  BY <1>1, WFMin
<1>4. \A j \in T : ~ (j < i)
  BY <1>2, <1>3, Zenon
<1> QED
  BY <1>4

NoRun == [consecutive |-> 0, start |-> 0, found |-> FALSE]

(* f[i] is the state of the loop before frame i, for the frames up to n. *)
Scans(f, n, count) ==
  f = [i \in LowPages .. n |-> IF i = LowPages THEN NoRun ELSE ScanFrame(f[i - 1], i - 1, count)]

LEMMA ScanExists ==
  ASSUME NEW count
  PROVE  \E f : Scans(f, MaxPages, count)
<1> DEFINE Bad == {n \in Nat : n >= LowPages /\ ~\E f : Scans(f, n, count)}
<1>1. LowPages \in Nat /\ MaxPages \in Nat /\ LowPages <= MaxPages
  BY SizeAssumption
<1>2. ASSUME Bad # {} PROVE FALSE
  <2>1. PICK n \in Bad : \A m \in Bad : n <= m
    BY <1>2, LeastNat
  <2>2. CASE n = LowPages
    <3> DEFINE f == [i \in LowPages .. n |-> NoRun]
    <3>1. \A i \in LowPages .. n : i = LowPages
      BY <1>1, <2>2
    <3>2. Scans(f, n, count)
      BY <3>1 DEF Scans
    <3> QED
      BY <2>1, <3>2
  <2>3. CASE n # LowPages
    <3>1. n \in Nat /\ n - 1 \in Nat /\ n - 1 >= LowPages
      BY <1>1, <2>1, <2>3
    <3>2. PICK f : Scans(f, n - 1, count)
      <4>1. n - 1 \notin Bad
        BY <2>1, <3>1
      <4> QED
        BY <3>1, <4>1
    <3> DEFINE g == [i \in LowPages .. n |-> IF i = n THEN ScanFrame(f[n - 1], n - 1, count) ELSE f[i]]
    <3>3. ASSUME NEW i \in LowPages .. n
          PROVE  g[i] = IF i = LowPages THEN NoRun ELSE ScanFrame(g[i - 1], i - 1, count)
      <4>1. CASE i = n
        <5>1. g[i - 1] = f[n - 1] /\ g[i] = ScanFrame(f[n - 1], n - 1, count)
          BY <1>1, <3>1, <4>1
        <5> QED
          BY <2>3, <4>1, <5>1
      <4>2. CASE i # n
        <5>1. i \in LowPages .. n - 1
          BY <1>1, <3>1, <4>2
        <5>2. f[i] = IF i = LowPages THEN NoRun ELSE ScanFrame(f[i - 1], i - 1, count)
          BY <3>2, <5>1 DEF Scans
        <5>3. g[i] = f[i]
          BY <4>2
        <5>4. i # LowPages => g[i - 1] = f[i - 1]
          BY <1>1, <3>1, <5>1
        <5> QED
          BY <5>2, <5>3, <5>4
      <4> QED
        BY <4>1, <4>2
    <3>4. Scans(g, n, count)
      <4>1. g = [i \in LowPages .. n |-> g[i]]
        OBVIOUS
      <4> HIDE DEF g
      <4> QED
        BY <3>3, <4>1 DEF Scans
    <3> QED
      BY <2>1, <3>4
  <2> QED
    BY <2>2, <2>3
<1> QED
  BY <1>1, <1>2

(* What the loop returns, in terms of such an f. *)
LEMMA LoopIsScan ==
  ASSUME NEW count
  PROVE  \E f : /\ Scans(f, MaxPages, count)
                /\ FindFreePagesLoop(count) = IF f[MaxPages].found THEN {f[MaxPages].start} ELSE {}
<1> DEFINE f == CHOOSE scan : Scans(scan, MaxPages, count)
<1>1. Scans(f, MaxPages, count)
  BY ScanExists
<1>2. FindFreePagesLoop(count) = IF f[MaxPages].found THEN {f[MaxPages].start} ELSE {}
  BY DEF FindFreePagesLoop, Scans, NoRun
<1> QED
  BY <1>1, <1>2

(* The state s of the loop when the frames below m have been looked at:    *)
(* it has found the run, or counts the free frames just below m, and no    *)
(* run ends below m.                                                       *)
Progress(s, m, count) ==
  IF s.found
  THEN s.start \in find_free_pages(count)
  ELSE LET c == s.consecutive
       IN  /\ c \in 0 .. count - 1 /\ LowPages <= m - c
           /\ \A p \in m - c .. m - 1 : p \in Frames \ bitmap
           /\ c > 0 => s.start = m - c
           /\ m - c > LowPages => m - c - 1 \in bitmap
           /\ \A t \in FreeRuns(count) : t + count > m

LEMMA ProgressStep ==
  ASSUME TypeOK, NEW count \in 1 .. MaxPages, NEW m \in LowPages .. total_pages - 1,
         NEW s, Progress(s, m, count)
  PROVE  Progress(ScanFrame(s, m, count), m + 1, count)
<1>1. /\ LowPages \in Nat /\ total_pages \in Nat /\ m \in Nat /\ count \in Nat /\ m < total_pages
      /\ LowPages <= m /\ count >= 1 /\ m \in Frames /\ MaxPages \in Nat
  BY SizeAssumption DEF TypeOK, Frames
<1>2. \A t \in FreeRuns(count) : /\ t \in Nat /\ LowPages <= t /\ t + count <= total_pages
                                 /\ \A p \in t .. t + count - 1 : p \in Frames \ bitmap
  BY <1>1 DEF FreeRuns
<1>3. CASE s.found
  <2>1. ScanFrame(s, m, count) = s
    BY <1>3 DEF ScanFrame
  <2> QED
    BY <1>3, <2>1 DEF Progress
<1>4. CASE ~s.found
  <2>1. PICK c : c = s.consecutive
    OBVIOUS
  <2>2. /\ c \in 0 .. count - 1 /\ LowPages <= m - c
        /\ \A p \in m - c .. m - 1 : p \in Frames \ bitmap
        /\ c > 0 => s.start = m - c
        /\ m - c > LowPages => m - c - 1 \in bitmap
        /\ \A t \in FreeRuns(count) : t + count > m
    BY <1>4, <2>1 DEF Progress
  <2>3. CASE m \in bitmap
    <3>1. PICK r : r = ScanFrame(s, m, count)
      OBVIOUS
    <3>2. r = [consecutive |-> 0, start |-> s.start, found |-> FALSE]
      BY <1>1, <1>4, <2>3, <3>1 DEF ScanFrame
    <3>3. r.found = FALSE /\ r.consecutive = 0
      BY <3>2
    <3>4. ASSUME NEW t \in FreeRuns(count) PROVE t + count > m + 1
      BY <1>1, <1>2, <2>2, <2>3
    <3>5. Progress(r, m + 1, count)
      BY <1>1, <2>3, <3>3, <3>4 DEF Progress
    <3> QED
      BY <3>1, <3>5
  <2>4. CASE m \notin bitmap
    <3>1. PICK r : r = ScanFrame(s, m, count)
      OBVIOUS
    <3>2. r = [consecutive |-> c + 1, start |-> IF c = 0 THEN m ELSE s.start,
               found |-> c + 1 = count]
      BY <1>1, <1>4, <2>1, <2>4, <3>1 DEF ScanFrame
    <3>3. r.start = m - c /\ r.consecutive = c + 1 /\ (r.found <=> c + 1 = count)
      <4>1. r.start = m - c
        BY <1>1, <2>2, <3>2
      <4>2. r.consecutive = c + 1
        BY <3>2
      <4>3. r.found = (c + 1 = count)
        BY <3>2, Zenon
      <4> QED
        BY <4>1, <4>2, <4>3
    <3>4. \A p \in m - c .. m : p \in Frames \ bitmap
      BY <1>1, <2>2, <2>4
    <3>5. CASE c + 1 = count
      <4>1. m - c \in FreeRuns(count)
        BY <1>1, <2>2, <3>4, <3>5 DEF FreeRuns
      <4>2. ASSUME NEW t \in FreeRuns(count) PROVE m - c <= t
        BY <1>1, <1>2, <2>2, <3>5
      <4>3. m - c \in find_free_pages(count)
        BY <4>1, <4>2 DEF find_free_pages
      <4>4. Progress(r, m + 1, count)
        BY <3>3, <3>5, <4>3 DEF Progress
      <4> QED
        BY <3>1, <4>4
    <3>6. CASE c + 1 # count
      <4>1. ASSUME NEW t \in FreeRuns(count) PROVE t + count > m + 1
        <5>1. SUFFICES ASSUME t + count <= m + 1 PROVE FALSE
          BY <1>1, <1>2
        <5>2. t \in Nat /\ t + count = m + 1 /\ LowPages <= t /\ t < m - c
          BY <1>1, <1>2, <2>2, <3>6, <5>1
        <5>3. m - c - 1 \in bitmap /\ m - c - 1 \in t .. t + count - 1
          BY <1>1, <2>2, <5>2
        <5> QED
          BY <1>2, <5>3
      <4>2. c + 1 \in 0 .. count - 1 /\ (m + 1) - (c + 1) = m - c /\ (m + 1) - 1 = m
        BY <1>1, <2>2, <3>6
      <4>3. Progress(r, m + 1, count)
        BY <2>2, <3>3, <3>4, <3>6, <4>1, <4>2 DEF Progress
      <4> QED
        BY <3>1, <4>3
    <3> QED
      BY <3>5, <3>6
  <2> QED
    BY <2>3, <2>4
<1> QED
  BY <1>3, <1>4

(* The frames looked at before the turn of frame i. *)
Seen(i) == IF i <= total_pages THEN i ELSE total_pages

LEMMA ScanProgress ==
  ASSUME TypeOK, LowPages <= total_pages, NEW count \in 1 .. MaxPages,
         NEW f, Scans(f, MaxPages, count)
  PROVE  \A i \in LowPages .. MaxPages : Progress(f[i], Seen(i), count)
<1> DEFINE Bad == {i \in LowPages .. MaxPages : ~Progress(f[i], Seen(i), count)}
<1>1. LowPages \in Nat /\ MaxPages \in Nat /\ total_pages \in Nat /\ LowPages <= MaxPages /\ count \in Nat
  BY SizeAssumption DEF TypeOK
<1>2. \A i \in LowPages .. MaxPages :
        f[i] = IF i = LowPages THEN NoRun ELSE ScanFrame(f[i - 1], i - 1, count)
  BY DEF Scans
<1>3. ASSUME Bad # {} PROVE FALSE
  <2>1. PICK i \in Bad : \A j \in Bad : i <= j
    <3>1. Bad \in SUBSET Nat
      BY <1>1
    <3> QED
      BY <1>3, <3>1, LeastNat
  <2>2. i \in Nat /\ i \in LowPages .. MaxPages /\ ~Progress(f[i], Seen(i), count)
    BY <1>1, <2>1
  <2>3. CASE i = LowPages
    <3>1. Seen(i) = LowPages /\ f[i] = NoRun
      BY <1>2, <2>2, <2>3 DEF Seen
    <3>2. \A t \in FreeRuns(count) : t + count > LowPages
      BY <1>1 DEF FreeRuns
    <3>3. Progress(NoRun, LowPages, count)
      BY <1>1, <3>2 DEF Progress, NoRun
    <3> QED
      BY <2>2, <3>1, <3>3
  <2>4. CASE i # LowPages
    <3>1. i - 1 \in LowPages .. MaxPages /\ i - 1 \in Nat
      BY <1>1, <2>2, <2>4
    <3>2. Progress(f[i - 1], Seen(i - 1), count)
      BY <2>1, <2>2, <3>1
    <3>3. f[i] = ScanFrame(f[i - 1], i - 1, count)
      BY <1>2, <2>2, <2>4
    <3>4. CASE i - 1 < total_pages
      <4>1. Seen(i - 1) = i - 1 /\ Seen(i) = (i - 1) + 1 /\ i - 1 \in LowPages .. total_pages - 1
        BY <1>1, <2>2, <3>1, <3>4 DEF Seen
      <4>2. Progress(ScanFrame(f[i - 1], i - 1, count), (i - 1) + 1, count)
        BY <3>2, <4>1, ProgressStep
      <4> QED
        BY <2>2, <3>3, <4>1, <4>2
    <3>5. CASE ~(i - 1 < total_pages)
      <4>1. Seen(i) = Seen(i - 1)
        BY <1>1, <2>2, <3>1, <3>5 DEF Seen
      <4>2. ScanFrame(f[i - 1], i - 1, count) = f[i - 1]
        BY <1>1, <3>1, <3>5 DEF ScanFrame
      <4> QED
        BY <2>2, <3>2, <3>3, <4>1, <4>2
    <3> QED
      BY <3>4, <3>5
  <2> QED
    BY <2>3, <2>4
<1> QED
  BY <1>3

(* Below the first megabyte the loop looks at no frame. *)
LEMMA ScanNothing ==
  ASSUME TypeOK, ~(LowPages <= total_pages), NEW count, NEW f, Scans(f, MaxPages, count)
  PROVE  \A i \in LowPages .. MaxPages : f[i] = NoRun
<1> DEFINE Bad == {i \in LowPages .. MaxPages : f[i] # NoRun}
<1>1. LowPages \in Nat /\ MaxPages \in Nat /\ total_pages \in Nat
  BY SizeAssumption DEF TypeOK
<1>2. ASSUME Bad # {} PROVE FALSE
  <2>1. PICK i \in Bad : \A j \in Bad : i <= j
    <3>1. Bad \in SUBSET Nat
      BY <1>1
    <3> QED
      BY <1>2, <3>1, LeastNat
  <2>2. i \in Nat /\ i \in LowPages .. MaxPages /\ f[i] # NoRun
    BY <1>1, <2>1
  <2>3. i # LowPages /\ f[i] = ScanFrame(f[i - 1], i - 1, count)
    BY <2>2 DEF Scans
  <2>4. i - 1 \in LowPages .. MaxPages /\ i - 1 >= total_pages
    BY <1>1, <2>2, <2>3
  <2>5. f[i - 1] = NoRun
    BY <1>1, <2>1, <2>2, <2>4
  <2>6. ScanFrame(f[i - 1], i - 1, count) = f[i - 1]
    BY <2>4 DEF ScanFrame
  <2> QED
    BY <2>2, <2>3, <2>5, <2>6
<1> QED
  BY <1>2

(* FirstFit is an invariant: for every bitmap and every length, the loop   *)
(* returns the lowest run of free frames, and fails only if there is none. *)
THEOREM LoopIsFirstFit == Spec => []FirstFit
<1>1. TypeOK => FirstFit
  <2> SUFFICES ASSUME TypeOK, NEW count \in 1 .. MaxPages
               PROVE  FindFreePagesLoop(count) = find_free_pages(count)
    BY DEF FirstFit
  <2>1. PICK f : /\ Scans(f, MaxPages, count)
                 /\ FindFreePagesLoop(count) = IF f[MaxPages].found THEN {f[MaxPages].start} ELSE {}
    BY LoopIsScan
  <2>2. /\ LowPages \in Nat /\ MaxPages \in Nat /\ total_pages \in Nat /\ count \in Nat
        /\ total_pages <= MaxPages /\ MaxPages \in LowPages .. MaxPages
    BY SizeAssumption DEF TypeOK
  <2>3. \A t \in FreeRuns(count) : t \in Nat /\ LowPages <= t /\ t + count <= total_pages
    BY <2>2 DEF FreeRuns
  <2>4. CASE LowPages <= total_pages
    <3>1. Progress(f[MaxPages], total_pages, count)
      <4>1. Progress(f[MaxPages], Seen(MaxPages), count)
        BY <2>1, <2>2, <2>4, ScanProgress
      <4>2. Seen(MaxPages) = total_pages
        BY <2>2 DEF Seen
      <4> QED
        BY <4>1, <4>2
    <3>2. CASE f[MaxPages].found
      <4>1. f[MaxPages].start \in find_free_pages(count)
        BY <3>1, <3>2 DEF Progress
      <4>2. \A a, b \in find_free_pages(count) : a = b
        BY <2>3 DEF find_free_pages
      <4>3. find_free_pages(count) = {f[MaxPages].start}
        BY <4>1, <4>2
      <4> QED
        BY <2>1, <3>2, <4>3
    <3>3. CASE ~f[MaxPages].found
      <4>1. \A t \in FreeRuns(count) : t + count > total_pages
        BY <3>1, <3>3 DEF Progress
      <4>2. find_free_pages(count) = {}
        BY <2>2, <2>3, <4>1 DEF find_free_pages
      <4> QED
        BY <2>1, <3>3, <4>2
    <3> QED
      BY <3>2, <3>3
  <2>5. CASE ~(LowPages <= total_pages)
    <3>1. f[MaxPages] = NoRun
      BY <2>1, <2>2, <2>5, ScanNothing
    <3>2. FreeRuns(count) = {}
      BY <2>2, <2>3, <2>5
    <3>3. find_free_pages(count) = {}
      BY <3>2 DEF find_free_pages
    <3> QED
      BY <2>1, <3>1, <3>3 DEF NoRun
  <2> QED
    BY <2>4, <2>5
<1> QED
  BY <1>1, TypeCorrect, PTL
=============================================================================
