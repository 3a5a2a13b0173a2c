----------------------------- MODULE KrInitMem -----------------------------
(***************************************************************************)
(* How the kernel comes to own its memory, from the bootstrap arena        *)
(* (Memory/BootstrapArena.c) through KrInitPhysmemmgmt, the test page of   *)
(* KrInitMem.c and KrInitVirtmemmgmt to the array of page metadata         *)
(* (KrInitPhysMetaArray).  It works from the sorted and the canonical      *)
(* memory map of Memmap, and leaves the state that Physmemmgmt starts in.  *)
(*                                                                         *)
(* Bitmaps are the sets of their set bits; addresses of memory are page    *)
(* numbers, and the arena counts bytes.  The direct map takes frames only  *)
(* when the arena is exhausted: DirectMap models how, here it takes a few. *)
(***************************************************************************)
EXTENDS Naturals, Sequences, SequencesExt, FiniteSets, FiniteSetsExt

CONSTANTS
  ArenaSizes,     \* sizes the bootstrap arena may have, in bytes
  ALIGNMENT,      \* KR_BOOTSTRAP_ARENA_ALIGNMENT
  DESCRIPTOR,     \* sizeof(KrMemoryDescriptor)
  BYTE_BITS,      \* pages per byte of a bitmap
  LOW_PAGES,      \* pages under 1 MiB
  KERNEL_BASE,    \* LoadInfo.AddrPhysicalBase
  KERNEL_RESERVE, \* LoadInfo.ReserveSize
  METAS,          \* MetasPerPhysicalPage
  MaxStructs      \* bound: frames the direct map takes

InitMemAssumption ==
  /\ ArenaSizes \subseteq Nat /\ ALIGNMENT \in Nat \ {0} /\ DESCRIPTOR \in Nat \ {0}
  /\ BYTE_BITS \in Nat \ {0} /\ METAS \in Nat \ {0}
  /\ {LOW_PAGES, KERNEL_BASE, KERNEL_RESERVE, MaxStructs} \subseteq Nat

VARIABLES
  MemoryMap, CanonicalMemoryMap,   \* of Memmap, only read here
  stage,      \* the next thing to do
  arena,      \* g_pBootstrapArenaPtr - g_pBootstrapArenaBase, and the end
  pmm,        \* g_StatePMM: TotalPages, UnusablePages, NrPages, AcquireHint
  advisory, primary,
  taken,      \* history: frames acquired since
  meta        \* the metadata array: its frames, and the frames written for it

initmemVars == <<stage, arena, pmm, advisory, primary, taken, meta>>

InitMemInit ==
  /\ stage = "arena"
  /\ \E n \in ArenaSizes : arena = [ptr |-> 0, end |-> n]
  /\ pmm = [TotalPages |-> 0, UnusablePages |-> 0, NrPages |-> 0, AcquireHint |-> 0]
  /\ advisory = {} /\ primary = {} /\ taken = {}
  /\ meta = [frames |-> {}, written |-> {}]

CeilDiv(n, d) == (n + d - 1) \div d
----------------------------------------------------------------------------
(* The arena *)

RoundUp(n) == CeilDiv(n, ALIGNMENT) * ALIGNMENT

(* KrBootstrapArenaAcquire returns no memory for a size of 0. *)
ArenaFits(n) == RoundUp(n) > 0 /\ arena.ptr + RoundUp(n) <= arena.end

KrBootstrapArenaAcquire(n) == arena' = [arena EXCEPT !.ptr = @ + RoundUp(n)]

(* KrInitMemmap takes room for the map twice, and looks at neither answer. *)
AcquireMaps(EntryCount) ==
  /\ stage = "arena"
  /\ LET size == RoundUp(EntryCount * DESCRIPTOR)
     IN  \/ ArenaFits(2 * size) /\ KrBootstrapArenaAcquire(2 * size) /\ stage' = "discover"
         \/ ~ArenaFits(2 * size) /\ stage' = "lost" /\ UNCHANGED arena
  /\ UNCHANGED <<pmm, advisory, primary, taken, meta>>
----------------------------------------------------------------------------
(* KrInitPhysmemmgmt *)

BitmapSize == CeilDiv(pmm.NrPages, BYTE_BITS)
Bits == 0 .. BitmapSize * BYTE_BITS - 1

PageSum(map) == FoldLeft(LAMBDA n, d : n + d.pages, 0, map)
Highest(map) == FoldLeft(LAMBDA n, d : IF d.usable /\ d.base + d.pages > n THEN d.base + d.pages ELSE n, 0, map)

(* The first pass over the map. *)
Discover ==
  /\ stage = "discover"
  /\ pmm' = [pmm EXCEPT !.TotalPages = PageSum(MemoryMap),
                        !.UnusablePages = PageSum(SelectSeq(MemoryMap, LAMBDA d : ~d.usable)),
                        !.NrPages = Highest(MemoryMap)]
  /\ stage' = "advisory"
  /\ UNCHANGED <<arena, advisory, primary, taken, meta>>

(* Wrong variant: after an unaligned start the region pointer stays.  *)
FirstRegionStays(start, n) ==
  LET off  == start % BYTE_BITS
      head == IF off = 0 THEN 0 ELSE Min({n, BYTE_BITS - off})
      Bulk(s, unit) ==
        LET k == s.left \div (unit * BYTE_BITS)
        IN  [region |-> s.region + k * unit, left |-> s.left - k * unit * BYTE_BITS]
      from == start \div BYTE_BITS
      end  == FoldLeft(Bulk, [region |-> from, left |-> n - head], <<8, 4, 2, 1>>)
  IN  (start .. start + head - 1) \cup (from * BYTE_BITS .. end.region * BYTE_BITS + end.left - 1)

(* The bits KrSetPhysicalPageStatus writes: those of an unaligned start,   *)
(* then units of 8, 4, 2 and 1 bytes, then the bits that are left.         *)
BitsWritten(start, n) ==
  LET off  == start % BYTE_BITS
      head == IF off = 0 THEN 0 ELSE Min({n, BYTE_BITS - off})
      Bulk(s, unit) ==
        LET k == s.left \div (unit * BYTE_BITS)
        IN  [region |-> s.region + k * unit, left |-> s.left - k * unit * BYTE_BITS]
      from == (start \div BYTE_BITS) + (IF off = 0 THEN 0 ELSE 1)
      end  == FoldLeft(Bulk, [region |-> from, left |-> n - head], <<8, 4, 2, 1>>)
  IN  (start .. start + head - 1) \cup (from * BYTE_BITS .. end.region * BYTE_BITS + end.left - 1)

(* A range that passes the end is refused as a whole. *)
Accepted(start, n) == start + n <= pmm.NrPages

SetFree(map, d) == IF Accepted(d.base, d.pages) THEN map \ BitsWritten(d.base, d.pages) ELSE map
SetAllocated(map, start, n) == IF Accepted(start, n) THEN map \cup BitsWritten(start, n) ELSE map

(* Wrong variant: the first region's base, also when it is page 0. *)
FirstBase(h, d) == IF h = 0 /\ d = Head(CanonicalMemoryMap) THEN d.base ELSE h

(* A hint of page 0 counts as no hint. *)
HintAfter(h, d) == IF h = 0 THEN d.base ELSE h

(* The second pass: usable memory is free, then the kernel's reserve and   *)
(* the memory under 1 MiB are taken.  Without usable memory the size is 0. *)
BuildAdvisory ==
  /\ stage = "advisory"
  /\ \/ /\ ArenaFits(BitmapSize)
        /\ KrBootstrapArenaAcquire(BitmapSize)
        /\ advisory' = SetAllocated(
                         SetAllocated(FoldLeft(SetFree, Bits, CanonicalMemoryMap),
                                      KERNEL_BASE, KERNEL_RESERVE),
                         0, LOW_PAGES)
        /\ pmm' = [pmm EXCEPT !.AcquireHint = FoldLeft(HintAfter, 0, CanonicalMemoryMap)]
        /\ stage' = "primary"
     \/ ~ArenaFits(BitmapSize) /\ stage' = "meltdown" /\ UNCHANGED <<arena, advisory, pmm>>
  /\ UNCHANGED <<primary, taken, meta>>

BuildPrimary ==
  /\ stage = "primary"
  /\ \/ /\ ArenaFits(BitmapSize)
        /\ KrBootstrapArenaAcquire(BitmapSize)
        /\ primary' = advisory
        /\ stage' = "test page"
     \/ ~ArenaFits(BitmapSize) /\ stage' = "meltdown" /\ UNCHANGED <<arena, primary>>
  /\ UNCHANGED <<pmm, advisory, taken, meta>>
----------------------------------------------------------------------------
(* What PmAcquirePages gives: the lowest fit from the hint on, or else the *)
(* lowest at all; nothing when the hint has gone past the last page.       *)
Fits(n) == {p \in Bits : \A q \in p .. p + n - 1 : q \in Bits \ primary}
Found(n) == LET later == {p \in Fits(n) : p >= pmm.AcquireHint}
            IN  Min(IF later = {} THEN Fits(n) ELSE later)
Available(n) == pmm.AcquireHint < pmm.NrPages /\ Fits(n) # {}

(* KrInitMem: a page is acquired and given back, and is the hint again. *)
TestPage ==
  /\ stage = "test page"
  /\ \/ Available(1) /\ stage' = "direct map" /\ pmm' = [pmm EXCEPT !.AcquireHint = Found(1)]
     \/ ~Available(1) /\ stage' = "meltdown" /\ UNCHANGED pmm
  /\ UNCHANGED <<arena, advisory, primary, taken, meta>>

(* KrInitVirtmemmgmt: KrInitDirectMap, with a frame more or less. *)
TakeStruct ==
  /\ stage = "direct map" /\ Cardinality(taken) < MaxStructs
  /\ \/ /\ Available(1)
        /\ primary' = primary \cup {Found(1)} /\ taken' = taken \cup {Found(1)}
        /\ pmm' = [pmm EXCEPT !.AcquireHint = Found(1) + 1]
        /\ UNCHANGED stage
     \/ ~Available(1) /\ stage' = "meltdown" /\ UNCHANGED <<primary, taken, pmm>>
  /\ UNCHANGED <<arena, advisory, meta>>

DirectMapDone ==
  /\ stage = "direct map" /\ stage' = "meta"
  /\ UNCHANGED <<arena, pmm, advisory, primary, taken, meta>>

(* Wrong variant: the last, partly used frame is left out. *)
NeededWholePages == pmm.TotalPages \div METAS

NeededPages == CeilDiv(pmm.TotalPages, METAS)

(* KrInitPhysMetaArray: one entry for each set bit of the bitmap, in an    *)
(* array that has room for the pages the map lists.                        *)
InitPhysMetaArray ==
  /\ stage = "meta"
  /\ \/ /\ NeededPages > 0 /\ Available(NeededPages)
        /\ LET base   == Found(NeededPages)
               frames == base .. base + NeededPages - 1
           IN  /\ primary' = primary \cup frames
               /\ taken' = taken \cup frames
               /\ pmm' = [pmm EXCEPT !.AcquireHint = base + NeededPages]
               /\ meta' = [frames |-> frames,
                           written |-> {base + (id \div METAS) : id \in primary'}]
        /\ stage' = "done"
     \/ /\ NeededPages > 0 /\ ~Available(NeededPages)
        /\ stage' = "meltdown" /\ UNCHANGED <<primary, taken, pmm, meta>>
  /\ UNCHANGED <<arena, advisory>>

(* What comes after the memory map. *)
InitMemStep ==
  \/ Discover \/ BuildAdvisory \/ BuildPrimary \/ TestPage
  \/ TakeStruct \/ DirectMapDone \/ InitPhysMetaArray
----------------------------------------------------------------------------
(* Properties *)

Reserved == (0 .. LOW_PAGES - 1) \cup (KERNEL_BASE .. KERNEL_BASE + KERNEL_RESERVE - 1)

(* Memory reaches beyond the kernel's reserve: else KrSetPhysicalPageStatus*)
(* refuses to mark it, and its answer is not looked at.                    *)
ReserveIsMarked == Accepted(KERNEL_BASE, KERNEL_RESERVE) /\ Accepted(0, LOW_PAGES)

(* Physmemmgmt starts as its model assumes: what is free is the usable     *)
(* memory without the kernel's reserve and the low pages, no bit beyond    *)
(* the last page is, the hint is a page, and the counters add up.          *)
PmmStartsAsAssumed ==
  stage \in {"test page", "direct map"} /\ taken = {} /\ ReserveIsMarked =>
    LET usable == UNION {d.base .. d.base + d.pages - 1 : d \in {e \in ToSet(MemoryMap) : e.usable}}
    IN  /\ primary = advisory
        /\ Bits \ primary = usable \ Reserved
        /\ Bits \ primary \subseteq 0 .. pmm.NrPages - 1
        /\ pmm.AcquireHint \in 0 .. pmm.NrPages - 1
        /\ pmm.TotalPages - pmm.UnusablePages = Cardinality(usable)

(* The hint that is left leads to the lowest free page: nothing before it  *)
(* is free, except below a region that begins at page 0.                   *)
HintIsUseful ==
  stage = "direct map" /\ taken = {} /\ CanonicalMemoryMap[1].base > 0 =>
    \A p \in Bits \ primary : p >= pmm.AcquireHint

(* No frame that is handed out is the kernel's or low memory. *)
ReserveIsKept == ReserveIsMarked => taken \cap Reserved = {}

(* The map lists every address up to the end of usable memory. *)
MapHasNoHoles == pmm.TotalPages >= Cardinality(Bits)

(* The metadata of every page lies in the frames acquired for it           *)
(* (KrInitPhysMetaArray), for a map without holes.                         *)
MetaStaysInItsFrames == MapHasNoHoles => meta.written \subseteq meta.frames

KernelMemoryIsSound == PmmStartsAsAssumed /\ HintIsUseful /\ ReserveIsKept /\ MetaStaysInItsFrames
============================================================================
