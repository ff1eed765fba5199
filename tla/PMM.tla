-------------------------------- MODULE PMM --------------------------------
(***************************************************************************)
(* The physical memory manager of SimpleOS (pmm.c, pmm.h): a bitmap with   *)
(* one bit per 4KB frame, a count of used frames, first-fit allocation     *)
(* from the 1MB mark upwards, and the construction of the bitmap from the  *)
(* multiboot memory map.                                                   *)
(*                                                                         *)
(* Frames are numbered from 0 (the source's pfn); the bitmap is the set of *)
(* the frames whose bit is 1.  Addresses are counted in units of which     *)
(* PageSize make a page, so that a region may start or end inside a page.  *)
(***************************************************************************)
EXTENDS Integers, FiniteSets, Functions

CONSTANTS
  MaxPages,        \* MAX_PAGES: frames the bitmap covers
  LowPages,        \* ADDR_TO_PFN(0x100000): frames of the first megabyte
  PageSize,        \* PAGE_SIZE, in address units
  AddrSpace,       \* 2^32, in address units: what a uint32_t address holds
  Mmaps,           \* the multiboot memory maps the kernel may boot with
  KernelEnds,      \* the values of kernel_end it may be linked with
  MarkRegions,     \* the <<base, length>> callers pass to pmm_mark_region_*
  MarksAboveTotal  \* may those regions reach beyond total_pages ?

(* An entry of the memory map; base_addr is a 64-bit field. *)
Region == [base_addr : Nat, length : Nat, available : BOOLEAN]

ASSUME SizeAssumption ==
  /\ MaxPages \in Nat
  /\ LowPages \in 1 .. MaxPages
  /\ PageSize \in Nat \ {0}
  /\ AddrSpace \in Nat \ {0}
  /\ MarksAboveTotal \in BOOLEAN

VARIABLES
  bitmap,       \* page_bitmap: the frames marked used
  total_pages,
  used_pages,
  held,         \* history: frames handed out and not yet given back
  usable,       \* history: frames that are nobody's when the kernel has booted
  released      \* history: frames freed by callers that nobody had been given

vars == <<bitmap, total_pages, used_pages, held, usable, released>>

Frames == 0 .. MaxPages - 1

-----------------------------------------------------------------------------
(* Addresses and frames (pmm.h). *)

PAGE_ALIGN_DOWN(addr) == addr - (addr % PageSize)
PAGE_ALIGN_UP(addr) == PAGE_ALIGN_DOWN((addr + PageSize - 1) % AddrSpace)
ADDR_TO_PFN(addr) == addr \div PageSize

(* The fields of an entry, truncated to 32 bits as pmm_init reads them. *)
Base(r) == r.base_addr % AddrSpace
Length(r) == r.length % AddrSpace

(* The frames pmm_init clears for an entry of type AVAILABLE: whole pages  *)
(* of the entry, below the maximum.  The end is computed in 32 bits.       *)
ClearedBy(r) ==
  LET limit == MaxPages * PageSize
      sum == (Base(r) + Length(r)) % AddrSpace
      end == IF sum > limit THEN limit ELSE sum
  IN  {p \in Frames :
         /\ r.available
         /\ Base(r) < limit
         /\ ADDR_TO_PFN(PAGE_ALIGN_UP(Base(r))) <= p
         /\ p < ADDR_TO_PFN(PAGE_ALIGN_DOWN(end))}

(* total_memory: the lengths of the AVAILABLE entries, added in 32 bits. *)
TotalMemory(mmap) ==
  FoldFunction(LAMBDA r, sum : IF r.available THEN (sum + Length(r)) % AddrSpace
                                              ELSE sum,
               0, mmap)

TotalPages(mmap) ==
  IF TotalMemory(mmap) \div PageSize > MaxPages
  THEN MaxPages
  ELSE TotalMemory(mmap) \div PageSize

(* Mutant: the page in which the kernel ends is not reserved. *)
ReservedDown(kernel_end) ==
  {p \in Frames : p < LowPages \/ p < ADDR_TO_PFN(PAGE_ALIGN_DOWN(kernel_end))}

(* The frames reserved after the map was read: the first megabyte and the  *)
(* kernel image, which starts there.                                       *)
Reserved(kernel_end) ==
  {p \in Frames : \/ p < LowPages
                  \/ p < ADDR_TO_PFN(PAGE_ALIGN_UP(kernel_end))}

ASSUME BootAssumption ==
  /\ \A mmap \in Mmaps : /\ \A i \in DOMAIN mmap : mmap[i] \in Region
                         /\ TotalMemory(mmap) \in Nat
  /\ KernelEnds \subseteq Nat
  /\ MarkRegions \subseteq Nat \X Nat

-----------------------------------------------------------------------------
(* What the multiboot map says, for the properties: a frame is available   *)
(* when an AVAILABLE entry holds all of it and no other entry touches it.  *)
Touches(r, p) ==
  /\ r.base_addr < (p + 1) * PageSize
  /\ p * PageSize < r.base_addr + r.length

ReallyAvailable(mmap) ==
  {p \in Frames :
     /\ \E i \in DOMAIN mmap :
          /\ mmap[i].available
          /\ mmap[i].base_addr <= p * PageSize
          /\ (p + 1) * PageSize <= mmap[i].base_addr + mmap[i].length
     /\ \A i \in DOMAIN mmap : ~mmap[i].available => ~Touches(mmap[i], p)}

(* The frames of the first megabyte and those that hold a byte below the   *)
(* end of the kernel.                                                      *)
Occupied(kernel_end) == {p \in Frames : p < LowPages \/ p * PageSize < kernel_end}

-----------------------------------------------------------------------------
(* pmm_init: everything is used, the available entries are cleared, the    *)
(* low megabyte and the kernel are set again, and the used frames below    *)
(* total_pages are counted.                                                *)
pmm_init(mmap, kernel_end) ==
  /\ bitmap = (Frames \ UNION {ClearedBy(mmap[i]) : i \in DOMAIN mmap})
                \cup Reserved(kernel_end)
  /\ total_pages = TotalPages(mmap)
  /\ used_pages = Cardinality({p \in bitmap : p < total_pages})
  /\ held = {} /\ released = {}
  /\ usable = ReallyAvailable(mmap) \ Occupied(kernel_end)

(* The starts of runs of count free frames at or above the first megabyte  *)
(* and below total_pages; bitmap_test says a frame out of range is used.   *)
FreeRuns(count) ==
  {s \in LowPages .. total_pages - count :
     \A p \in s .. s + count - 1 : p \in Frames \ bitmap}

(* What find_free_page and find_free_pages return: the first such run, as  *)
(* a set that is empty when they return 0xFFFFFFFF.                        *)
find_free_pages(count) ==
  {s \in FreeRuns(count) : \A t \in FreeRuns(count) : s <= t}

(* Mutant: the count of consecutive free frames survives a used frame. *)
FindFreePagesNoReset(count) ==
  LET free == {p \in LowPages .. total_pages - 1 : p \in Frames \ bitmap}
      nth == {p \in free : Cardinality({q \in free : q <= p}) = count}
  IN  {CHOOSE s \in free : \A t \in free : s <= t : p \in nth}

(* One turn of the loop of find_free_pages, at frame i: it counts          *)
(* consecutive free frames and forgets the count at a used one.            *)
ScanFrame(s, i, count) ==
  IF s.found \/ i >= total_pages
  THEN s
  ELSE IF i \in bitmap
       THEN [consecutive |-> 0, start |-> s.start, found |-> FALSE]
       ELSE [consecutive |-> s.consecutive + 1,
             start |-> IF s.consecutive = 0 THEN i ELSE s.start,
             found |-> s.consecutive + 1 = count]

(* The loop as it is written: one pass over the frames. *)
FindFreePagesLoop(count) ==
  LET scan[i \in LowPages .. MaxPages] ==      \* before the turn of frame i
        IF i = LowPages
        THEN [consecutive |-> 0, start |-> 0, found |-> FALSE]
        ELSE ScanFrame(scan[i - 1], i - 1, count)
  IN  IF scan[MaxPages].found THEN {scan[MaxPages].start} ELSE {}

(* Mutant: used_pages is incremented once per call, not once per frame. *)
AllocCountsOnce(count) ==
  \E s \in find_free_pages(count) :
    /\ bitmap' = bitmap \cup s .. s + count - 1
    /\ used_pages' = used_pages + 1
    /\ held' = held \cup s .. s + count - 1
    /\ UNCHANGED <<total_pages, usable, released>>

(* pmm_alloc_page and pmm_alloc_pages: count = 1 takes the single-page     *)
(* search, which is the same search with a run of one.                     *)
pmm_alloc_pages(count) ==
  \/ \E s \in find_free_pages(count) :
       LET run == s .. s + count - 1
       IN  /\ bitmap' = bitmap \cup run
           /\ used_pages' = used_pages + count
           /\ held' = held \cup run
           /\ UNCHANGED <<total_pages, usable, released>>
  \/ /\ find_free_pages(count) = {}         \* returns 0
     /\ UNCHANGED vars

(* Mutant: used_pages is decremented for every frame, free or not. *)
ClearUnguarded(frames) ==
  /\ bitmap' = bitmap \ frames
  /\ used_pages' = used_pages - Cardinality(frames)

(* The bits a free or mark-free of a set of frames clears, and the count   *)
(* it leaves: used_pages is decremented once per cleared bit, never below  *)
(* zero.                                                                   *)
Clear(frames) ==
  /\ bitmap' = bitmap \ frames
  /\ used_pages' = LET n == Cardinality(bitmap \cap frames)
                   IN  IF used_pages >= n THEN used_pages - n ELSE 0

(* Nobody holds the frames any more, and those that nobody had been given  *)
(* are remembered.                                                         *)
GiveUp(frames) ==
  /\ held' = held \ frames
  /\ released' = released \cup ((bitmap \cap frames) \ held)

(* Mutant: one frame too many is freed. *)
FreeOneMore(pfn, count) ==
  /\ Clear({p \in pfn .. pfn + count : p < total_pages})
  /\ GiveUp({p \in pfn .. pfn + count - 1 : p < total_pages})
  /\ UNCHANGED <<total_pages, usable>>

(* pmm_free_pages (pmm_free_page is count = 1): frames at or beyond        *)
(* total_pages and frames whose bit is already 0 are skipped.  Nothing     *)
(* else is tested: a caller may free what it was never given.              *)
pmm_free_pages(pfn, count) ==
  LET run == {p \in pfn .. pfn + count - 1 : p < total_pages}
  IN  Clear(run) /\ GiveUp(run) /\ UNCHANGED <<total_pages, usable>>

(* The frames a region names: rounded outwards when it is marked used and  *)
(* inwards when it is marked free; both are cut at MAX_PAGES only.         *)
Outward(r) ==
  {p \in Frames : /\ ADDR_TO_PFN(PAGE_ALIGN_DOWN(r[1])) <= p
                  /\ p < ADDR_TO_PFN(PAGE_ALIGN_UP((r[1] + r[2]) % AddrSpace))}
Inward(r) ==
  {p \in Frames : /\ ADDR_TO_PFN(PAGE_ALIGN_UP(r[1])) <= p
                  /\ p < ADDR_TO_PFN(PAGE_ALIGN_DOWN((r[1] + r[2]) % AddrSpace))}

pmm_mark_region_used(r) ==
  /\ bitmap' = bitmap \cup Outward(r)
  /\ used_pages' = used_pages + Cardinality(Outward(r) \ bitmap)
  /\ usable' = usable \ (Outward(r) \ held)
  /\ released' = released \ (Outward(r) \ held)
  /\ UNCHANGED <<total_pages, held>>

pmm_mark_region_free(r) ==
  Clear(Inward(r)) /\ GiveUp(Inward(r)) /\ UNCHANGED <<total_pages, usable>>

pmm_get_used_memory == used_pages
pmm_get_free_memory == total_pages - used_pages

-----------------------------------------------------------------------------
(* The callers free any frames, their own or not; the kernel marks no      *)
(* region, whoever does may go beyond total_pages or not.                  *)
MayMark(frames) == MarksAboveTotal \/ \A p \in frames : p < total_pages

Init == \E mmap \in Mmaps, kernel_end \in KernelEnds : pmm_init(mmap, kernel_end)

MarkUsed(r) ==
  /\ MayMark(Outward(r))
  /\ pmm_mark_region_used(r)

MarkFree(r) ==
  /\ MayMark(Inward(r))
  /\ pmm_mark_region_free(r)

Next ==
  \/ \E count \in 1 .. MaxPages : pmm_alloc_pages(count)
  \/ \E pfn \in Frames, count \in 1 .. MaxPages : pmm_free_pages(pfn, count)
  \/ \E r \in MarkRegions : MarkUsed(r) \/ MarkFree(r)

Spec == Init /\ [][Next]_vars

-----------------------------------------------------------------------------
(* The bitmap covers the frames below MAX_PAGES, total_pages never exceeds *)
(* it (pmm_init caps it), and the counters are natural numbers: no         *)
(* sequence of calls drives used_pages below zero.                         *)
TypeOK ==
  /\ bitmap \subseteq Frames
  /\ total_pages \in 0 .. MaxPages
  /\ used_pages \in Nat
  /\ held \subseteq Frames
  /\ usable \subseteq Frames /\ released \subseteq Frames

(* used_pages, which alloc, free and mark update by increments, is always  *)
(* the number of set bits below total_pages, so that the memory figures of *)
(* pmm_get_used_memory and pmm_get_free_memory are the real ones.          *)
UsedAccounting ==
  /\ pmm_get_used_memory = Cardinality({p \in bitmap : p < total_pages})
  /\ pmm_get_free_memory =
       Cardinality({p \in Frames \ bitmap : p < total_pages})

(* A frame that a caller holds stays marked used whatever the other        *)
(* callers allocate and free, and lies where pmm_free_page will accept it: *)
(* no frame has two owners and none is lost.                               *)
HeldFramesAreUsed ==
  \A p \in held : p \in bitmap /\ LowPages <= p /\ p < total_pages

(* Maps as the hardware has them: what the bitmap covers ends a page below *)
(* 2^32 at the latest, no entry or kernel goes round the address space,    *)
(* and no page of an available entry is touched by another kind of entry.  *)
(* pmm_init tests none of this.                                            *)
RegularMaps ==
  /\ MaxPages * PageSize + PageSize <= AddrSpace
  /\ \A k \in KernelEnds : k + PageSize <= AddrSpace
  /\ \A mmap \in Mmaps : \A i \in DOMAIN mmap :
       /\ mmap[i].base_addr + mmap[i].length <= AddrSpace
       /\ \A j \in DOMAIN mmap, p \in Frames :
            /\ mmap[i].available /\ ~mmap[j].available
            /\ mmap[i].base_addr <= p * PageSize
            /\ (p + 1) * PageSize <= mmap[i].base_addr + mmap[i].length
            => ~Touches(mmap[j], p)

(* Of itself the allocator gives no caller a frame of the first megabyte,  *)
(* of the kernel image, of a reserved entry of the memory map or of a page *)
(* that an available entry covers in part: when a caller has one, another  *)
(* call had freed it without having been given it, as process_create does  *)
(* with the kernel's frames (Vmm).                                         *)
NoForeignFrame == held \subseteq usable \cup released

(* The one-pass loop of find_free_pages finds a run exactly when there is  *)
(* one, and finds the lowest: in every state and for every length.         *)
FirstFit ==
  \A count \in 1 .. MaxPages : FindFreePagesLoop(count) = find_free_pages(count)

=============================================================================
