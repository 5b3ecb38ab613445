----------------------------- MODULE PageAllocator -----------------------------
(***************************************************************************)
(* Physical memory: the memory map built at boot (mm/mm.cpp), the page      *)
(* allocator (mm/page-allocator.cpp) with its first-fit algorithm           *)
(* (mm/simple-page-alloc.cpp), and its three clients: the kernel page       *)
(* tables (arch/x86/mm.cpp), the address spaces (mm/vma.cpp) and the kernel *)
(* heap, which maps and unmaps runs of pages (mm/dlmalloc.cpp).             *)
(*                                                                          *)
(* Memory is counted in page frames.  alloc_pages and free_pages run under  *)
(* a Mutex and are one step each.                                           *)
(***************************************************************************)
EXTENDS Integers, Sequences, FiniteSetsExt

CONSTANTS
  MaxPfn,      \* the descriptors the model can see, the ones past the array included
  MemoryMaps,  \* the memory maps the boot loader may pass
  MaxBlocks,   \* ARRAY_SIZE(_phys_mem_blocks): 16 in the code
  WrapPages,   \* nr_pages * _page_size wraps at this many pages: 2^20 in the code
  PgtPages,    \* the initial page table pages after page zero: 6 in the code
  PgdPerPage,  \* descriptors that fit a page: 4096 / 32 in the code
  ImageStart,  \* the frame of _IMAGE_START
  HeapStart,   \* the frame of _HEAP_START, where the descriptors are
  PgtBlock,    \* pages of the new page tables: 2^4 in the code
  Garbage,     \* what memory past the descriptors may hold
  Blocks,      \* the powers of two
  Requests,    \* the page counts that are asked for
  NoPage       \* a null descriptor

Types == {"INVALID", "RESERVED", "AVAILABLE", "ALLOCATED"}
Frames == 0 .. MaxPfn
Entries == [base : Frames, nr : 0 .. MaxPfn + 1, type : {"NORMAL", "UNUSABLE"}]

ASSUME MemoryAssumption ==
  /\ MaxPfn \in Nat /\ MaxBlocks \in Nat /\ PgtPages \in Nat
  /\ WrapPages \in Nat \ {0} /\ PgdPerPage \in Nat \ {0}
  /\ ImageStart \in Frames /\ HeapStart \in Frames
  /\ MemoryMaps \subseteq Seq(Entries)
  /\ Garbage \subseteq Types
  /\ NoPage \notin Int

\* The low memory, at address zero, does not fill the 32 bits.
ASSUME LowMemoryAssumption ==
  \A m \in MemoryMaps : \A i \in 1 .. Len(m) :
    m[i].base = 0 => m[i].nr < WrapPages

\* Every count that is asked for has a power of two above it.
ASSUME BlockAssumption ==
  /\ Blocks \subseteq Nat \ {0} /\ 1 \in Blocks /\ PgtBlock \in Blocks
  /\ Requests \subseteq Nat \ {0}
  /\ \A n \in Requests : \E m \in Blocks : n <= m

VARIABLES
  phase,    \* "boot", "up", "failed" (mm_init returned false) or "halted"
  bootmap,  \* the entries of the memory map still to be read
  blocks,   \* MemoryManager::_phys_mem_blocks
  lastPfn,  \* MemoryManager::_last_pfn
  nrPages,  \* PageAllocator::_nr_pages
  pgd,      \* the type field of every descriptor
  regions,  \* what the clients hold: the heap's segments and chunks, VMA blocks, page tables
  outcome   \* how the last allocation ended: "none" yet, "pages" or "fault"

vars == <<phase, bootmap, blocks, lastPfn, nrPages, pgd, regions, outcome>>

Kinds == {"top", "seg", "chunk", "vma", "pgt"}
Pages(r) == r.base .. r.base + r.size - 1
Region(k, b, n) == [kind |-> k, base |-> b, size |-> n]

-----------------------------------------------------------------------------
(* The memory map.                                                          *)

\* nr_pages * _page_size is computed in 32 bits.
SizeInPages(nr) == nr % WrapPages

\* MemoryManager::add_physical_memory.
AddPhysicalMemory ==
  /\ phase = "boot" /\ bootmap # <<>>
  /\ LET entry == Head(bootmap)
         last == (entry.base + SizeInPages(entry.nr)) - 1
         added == entry.nr # 0 /\ Len(blocks) < MaxBlocks
     IN /\ blocks' = IF added THEN Append(blocks, entry) ELSE blocks
        /\ lastPfn' = IF added /\ entry.type = "NORMAL" /\ last > lastPfn
                        THEN last ELSE lastPfn
  /\ bootmap' = Tail(bootmap)
  /\ UNCHANGED <<phase, nrPages, pgd, regions, outcome>>

\* MemoryManager::lookup_phys_block: some block, usable or not, holds frame p.
LookupPhysBlock(p) ==
  \E i \in 1 .. Len(blocks) :
    p \in blocks[i].base .. blocks[i].base + SizeInPages(blocks[i].nr) - 1

\* The frames of the blocks of usable memory.
Normal == UNION {blocks[i].base .. blocks[i].base + blocks[i].nr - 1 :
                   i \in {j \in 1 .. Len(blocks) : blocks[j].type = "NORMAL"}}

\* Mutant of Reserved: the initial page tables stay available.
ReservedZeroOnly(nr) == {0} \cup ImageStart .. ImageStart + nr \div PgdPerPage

\* PageAllocator::init: the ranges given to reserve_page_range.
Reserved(nr) ==
  {0} \cup 1 .. PgtPages \cup ImageStart .. ImageStart + nr \div PgdPerPage

\* The descriptors after PageAllocator::init: an array of nr of them is zeroed
\* (INVALID) at setup, then usable frames are marked, then reserved ones.
InitialTypes(nr) ==
  [p \in Frames |-> IF p \in Reserved(nr) THEN "RESERVED"
                    ELSE IF p \in Normal THEN "AVAILABLE"
                    ELSE IF p < nr THEN "INVALID"
                    ELSE pgd[p]]

-----------------------------------------------------------------------------
(* The first-fit algorithm and the page allocator.                          *)

TypeAt(d, p) == IF p \in Frames THEN d[p] ELSE "INVALID"
Fits(d, b, n) == \A p \in b .. b + n - 1 : TypeAt(d, p) = "AVAILABLE"

\* SimplePageAllocator::allocate_pages for n = 2^order: the lowest run of n
\* available descriptors, or null.  Only the start is compared with _nr_pgds.
AllocatePages(d, nr, n) ==
  LET fit == {b \in 0 .. nr - 1 : Fits(d, b, n)}
  IN IF fit = {} THEN NoPage ELSE CHOOSE b \in fit : \A c \in fit : b <= c

\* Mutant of ScanFrom: after a failed run the scan skips one descriptor too many.
ScanTooFar(d, nr, n) ==
  LET scan[idx \in 0 .. nr + n + 1] ==
        LET bad == {p \in idx .. idx + n - 1 : TypeAt(d, p) # "AVAILABLE"}
        IN IF idx >= nr THEN NoPage
           ELSE IF bad = {} THEN idx ELSE scan[Min(bad) + 2]
  IN scan[0]

\* The same as a loop: a failed run restarts after its first descriptor that
\* is not available.
ScanFrom(d, nr, n) ==
  LET scan[idx \in 0 .. nr + n] ==
        LET bad == {p \in idx .. idx + n - 1 : TypeAt(d, p) # "AVAILABLE"}
        IN IF idx >= nr THEN NoPage
           ELSE IF bad = {} THEN idx ELSE scan[Min(bad) + 1]
  IN scan[0]

Marked(d, S, t) == [p \in Frames |-> IF p \in S THEN t ELSE d[p]]

\* ilog2_ceil and __log2ceil, ilog2_floor: the power of two itself.
RoundUp(n) == CHOOSE m \in Blocks : m >= n /\ \A j \in Blocks : j >= n => m <= j
RoundDown(n) == CHOOSE m \in Blocks : m <= n /\ \A j \in Blocks : j <= n => j <= m

\* PageAllocator::alloc_pages of n pages with descriptors d: those at b are
\* found and marked.
Alloc(d, nr, n, b) ==
  /\ b = AllocatePages(d, nr, n)
  /\ pgd' = Marked(d, b .. b + n - 1, "ALLOCATED")
  /\ outcome' = "pages"

\* alloc_pages when nothing fits: the descriptor at NULL is read, which raises a
\* page fault.  The fault handler throws out of it; if nothing catches the
\* exception the system stops.
AllocFails(n) ==
  /\ AllocatePages(pgd, nrPages, n) = NoPage
  /\ outcome' = "fault"
  /\ phase' \in {"up", "halted"}
  /\ UNCHANGED <<pgd, regions>>

\* PageAllocator::free_pages of the pages S: an assertion stops the system
\* unless every one of them is allocated.
FreePages(S) ==
  IF \A p \in S : TypeAt(pgd, p) = "ALLOCATED"
    THEN pgd' = Marked(pgd, S, "AVAILABLE") /\ phase' = phase
    ELSE pgd' = pgd /\ phase' = "halted"

-----------------------------------------------------------------------------
(* The clients.                                                             *)

\* mm_init after the map is read: initialise_allocators, reinitialise_pgt.
InitialiseAllocators ==
  /\ phase = "boot" /\ bootmap = <<>>
  /\ nrPages' = lastPfn + 1
  /\ IF LookupPhysBlock(HeapStart)
       THEN LET d == InitialTypes(lastPfn + 1)
            IN \/ /\ phase' = "up"
                  /\ \E b \in 0 .. lastPfn :
                       /\ Alloc(d, lastPfn + 1, PgtBlock, b)
                       /\ regions' = {Region("pgt", b, PgtBlock)}
               \/ /\ AllocatePages(d, lastPfn + 1, PgtBlock) = NoPage
                  /\ phase' = "halted" /\ outcome' = "fault"
                  /\ pgd' = d /\ regions' = {}
       ELSE phase' = "failed" /\ UNCHANGED <<pgd, regions, outcome>>
  /\ UNCHANGED <<bootmap, blocks, lastPfn>>

\* VMA::allocate_phys, from allocate_virt: the block is kept whole and for good.
AllocatePhys(n) ==
  /\ phase = "up"
  /\ \/ /\ phase' = phase
        /\ \E b \in 0 .. nrPages - 1 :
             /\ Alloc(pgd, nrPages, RoundUp(n), b)
             /\ regions' = regions \cup {Region("vma", b, RoundUp(n))}
     \/ AllocFails(RoundUp(n))
  /\ UNCHANGED <<bootmap, blocks, lastPfn, nrPages>>

\* mmap_alloc: a large request gets a mapping of its own, once there is a heap.
MmapAlloc(n) ==
  /\ phase = "up" /\ \E r \in regions : r.kind = "top"
  /\ \/ /\ phase' = phase
        /\ \E b \in 0 .. nrPages - 1 :
             /\ Alloc(pgd, nrPages, RoundUp(n), b)
             /\ regions' = regions \cup {Region("chunk", b, n)}
     \/ AllocFails(RoundUp(n))
  /\ UNCHANGED <<bootmap, blocks, lastPfn, nrPages>>

\* Mutant of Extended: the appended segment is added to the list a second time.
ExtendedTwice(b, n) ==
  LET append == {r \in regions : r.kind = "top" /\ r.base + r.size = b}
      old == {r \in regions : r.kind = "top"}
  IN IF append # {}
       THEN regions \cup {Region("top", r.base, r.size + n) : r \in append}
     ELSE (regions \ old) \cup {Region("seg", r.base, r.size) : r \in old}
                          \cup {Region("top", b, n)}

\* sys_alloc's choice for a new mapping of n pages at b: append it to the
\* segment that holds top, prepend it to a segment, or make it the new top.
Extended(b, n) ==
  LET append == {r \in regions : r.kind = "top" /\ r.base + r.size = b}
      prepend == {r \in regions : r.kind \in {"top", "seg"} /\ r.base = b + n}
      old == {r \in regions : r.kind = "top"}
  IN IF append # {}
       THEN (regions \ append) \cup {Region("top", r.base, r.size + n) : r \in append}
     ELSE IF prepend # {}
       THEN (regions \ prepend) \cup {Region(r.kind, b, r.size + n) : r \in prepend}
     ELSE (regions \ old) \cup {Region("seg", r.base, r.size) : r \in old}
                          \cup {Region("top", b, n)}

SysAlloc(n) ==
  /\ phase = "up"
  /\ \/ /\ phase' = phase
        /\ \E b \in 0 .. nrPages - 1 :
             /\ Alloc(pgd, nrPages, RoundUp(n), b)
             /\ regions' = Extended(b, n)
     \/ AllocFails(RoundUp(n))
  /\ UNCHANGED <<bootmap, blocks, lastPfn, nrPages>>

\* Mutant of Munmap: the count is rounded up, as it is for mmap.
MunmapCeil(b, n) == b .. b + RoundUp(n) - 1

\* munmap of n pages at b: the count is rounded down to a power of two.
Munmap(b, n) == b .. b + RoundDown(n) - 1

\* Freeing a directly mapped chunk.
FreeChunk(r) ==
  /\ phase = "up" /\ r.kind = "chunk"
  /\ FreePages(Munmap(r.base, r.size))
  /\ regions' = regions \ {r}
  /\ UNCHANGED <<bootmap, blocks, lastPfn, nrPages, outcome>>

\* release_unused_segments, where U are the segments with no chunk in use.
Unused == SUBSET {r \in regions : r.kind = "seg"}
UnmapAll(U) == UNION {Munmap(r.base, r.size) : r \in U}
ReleaseUnusedSegments(U) ==
  /\ phase = "up" /\ U # {}
  /\ FreePages(UnmapAll(U))
  /\ regions' = regions \ U
  /\ UNCHANGED <<bootmap, blocks, lastPfn, nrPages, outcome>>

\* Mutant of SysTrim: the whole segment may be trimmed.
SysTrimAll(r, n, U) ==
  /\ phase = "up" /\ r.kind = "top" /\ n <= r.size
  /\ FreePages(Munmap(r.base + (r.size - n), n) \cup UnmapAll(U))
  /\ regions' = (regions \ ({r} \cup U)) \cup {Region("top", r.base, r.size - n)}
  /\ UNCHANGED <<bootmap, blocks, lastPfn, nrPages, outcome>>

\* sys_trim: the last n pages of the segment that holds top are unmapped, then
\* the unused segments.
SysTrim(r, n, U) ==
  /\ phase = "up" /\ r.kind = "top" /\ n < r.size
  /\ FreePages(Munmap(r.base + (r.size - n), n) \cup UnmapAll(U))
  /\ regions' = (regions \ ({r} \cup U)) \cup {Region("top", r.base, r.size - n)}
  /\ UNCHANGED <<bootmap, blocks, lastPfn, nrPages, outcome>>

-----------------------------------------------------------------------------

Init ==
  /\ phase = "boot"
  /\ bootmap \in MemoryMaps
  /\ blocks = <<>> /\ lastPfn = 0 /\ nrPages = 0
  /\ \E g \in Garbage : pgd = [p \in Frames |-> g]
  /\ regions = {}
  /\ outcome = "none"

Next ==
  \/ AddPhysicalMemory
  \/ InitialiseAllocators
  \/ \E n \in Requests :
       \/ AllocatePhys(n) \/ MmapAlloc(n) \/ SysAlloc(n)
       \/ \E r \in regions, U \in Unused : SysTrim(r, n, U)
  \/ \E r \in regions : FreeChunk(r)
  \/ \E U \in Unused : ReleaseUnusedSegments(U)

Spec == Init /\ [][Next]_vars

-----------------------------------------------------------------------------
(* Properties.                                                              *)

\* Every variable has its type.
TypeOK ==
  /\ phase \in {"boot", "up", "failed", "halted"}
  /\ bootmap \in Seq(Entries) /\ blocks \in Seq(Entries)
  /\ lastPfn \in Nat /\ nrPages \in Nat
  /\ pgd \in [Frames -> Types]
  /\ \A r \in regions : /\ r = Region(r.kind, r.base, r.size)
                        /\ r.kind \in Kinds /\ r.base \in Nat /\ r.size \in Nat \ {0}
  /\ outcome \in {"none", "pages", "fault"}

\* However the clients map, merge, trim and release, no two of them hold the
\* same page, and every page held is marked ALLOCATED, so that alloc_pages
\* cannot give it out again.
RegionsOwned ==
  /\ \A r, s \in regions : r # s => Pages(r) \cap Pages(s) = {}
  /\ \A r \in regions : \A p \in Pages(r) : TypeAt(pgd, p) = "ALLOCATED"

\* What a client holds is usable memory of the map that init did not reserve:
\* not page zero, not the page tables in use at boot.
UsableMemoryOnly ==
  \A r \in regions : Pages(r) \subseteq (Normal \cap 0 .. nrPages - 1) \ 0 .. PgtPages

\* The assertions of free_pages never stop the system: it stops only after an
\* allocation that found nothing.
AssertionsHold == phase = "halted" => outcome = "fault"

\* The skipping loop of allocate_pages finds the lowest run that fits, for
\* every order, on every descriptor array the clients can produce.
LoopIsFirstFit ==
  \A n \in {m \in Blocks : m <= MaxPfn} :
    ScanFrom(pgd, nrPages, n) = AllocatePages(pgd, nrPages, n)

\* mm/page-allocator.cpp:191: alloc_pages returns "NULL if allocation failed",
\* which its callers test.
FailureIsNull == outcome # "fault"

\* mm/page-allocator.cpp:155: "Reserve the whole range from kernel image start
\* to kernel heap end": no page of it is ever handed out.
KernelRangeReserved ==
  phase = "up" =>
    \A r \in regions :
      Pages(r) \cap (ImageStart .. HeapStart + nrPages \div PgdPerPage) = {}

\* mm/dlmalloc.cpp:131: mmap and munmap are used "to get and release system
\* memory": when a directly mapped chunk is freed, every page that was taken
\* for it becomes available.
ReleasedWhole ==
  [][\A r \in regions :
       r.kind = "chunk" /\ r \notin regions' =>
         \A p \in r.base .. r.base + RoundUp(r.size) - 1 : TypeAt(pgd', p) = "AVAILABLE"]_vars
=============================================================================
