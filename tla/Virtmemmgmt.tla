----------------------------- MODULE Virtmemmgmt -----------------------------
(***************************************************************************)
(* The regions of the kernel address space                                  *)
(* (Kernel/Source/Memory/Virtmemmgmt.c, MMIO.c): the sorted list of VMRs,   *)
(* static mapping and the ranges handed to devices.  Addresses are counted  *)
(* in small pages; the list is the sequence along pNext, which pPrev,       *)
(* pRootVMR and pTailVMR mirror.  Only the bootstrap CPU acquires regions.  *)
(***************************************************************************)
EXTENDS RegionNodeAllocator, SequencesExt

CONSTANTS
  LargePage,               \* small pages in a large page
  LowMap, HeapRange,       \* the ranges of the low identity map and of the heap
  MmioStart,               \* the first address for devices
  BinaryStart, BinarySize, \* the kernel binary
  FrameBuffer, FrameSize,  \* the frame buffer
  KernelStart,             \* the kernel's half of the address space
  Devices,                 \* [paddr, size, large] of the devices to be mapped
  MaxDevices               \* bound: devices mapped

(* The parts of the address space in the order of their indices            *)
(* (Kernel/Include/Memory/Vmmdef/Indices.h), the binary below the frame     *)
(* buffer.                                                                  *)
ASSUME VmmAssumption ==
  /\ {LargePage, MmioStart, BinaryStart, BinarySize, FrameBuffer, FrameSize, KernelStart,
      MaxDevices} \subseteq Nat
  /\ LargePage > 0 /\ BinarySize > 0
  /\ {LowMap, HeapRange} \subseteq [start : Nat, end : Nat]
  /\ LowMap.end <= HeapRange.start /\ HeapRange.start <= HeapRange.end /\ HeapRange.end <= MmioStart
  /\ BinaryStart + BinarySize <= FrameBuffer
  /\ Devices \subseteq [paddr : Nat, size : Nat, large : BOOLEAN]

VARIABLES
  vmrs,       \* the list of regions
  NrVMRs,     \* its length as the address space counts it
  Head_,      \* g_VaddrMmioHead
  mapped,     \* the page tables: physical page by virtual page
  devs,       \* history: devices for which MmioMapDevice succeeded
  nDev        \* history: MmioMapDevice calls

vmmVars == <<vmrs, NrVMRs, Head_, mapped, devs, nDev, rna, nodes>>

Region(start, end, flags) == [VaddrStart |-> start, VaddrEnd |-> end, Flags |-> flags]

RegionPageSize(flags) == IF "largePages" \in flags THEN LargePage ELSE 1

Aligned(n, size) == n % size = 0

(* KrInitVirtmemmgmt up to KrInitKrnlAddrSpace: the two static regions take *)
(* the first two nodes.  The frame buffer's end counts from the binary.     *)
SpaceInit ==
  /\ rna = <<[This |-> 1, Prev |-> IVLDPGID, Bitmap |-> {0, 1, 2}, NrSlots |-> 3]>>
  /\ nodes = << <<1, 1>>, <<1, 2>> >>
  /\ LET binary == Region(BinaryStart, BinaryStart + BinarySize, {"static", "exec", "largePages"})
         frame  == Region(FrameBuffer, BinaryStart + FrameSize, {"static", "write", "largePages"})
     IN  vmrs = IF BinaryStart < FrameBuffer THEN <<binary, frame>> ELSE <<frame, binary>>
  /\ NrVMRs = 2 /\ Head_ = MmioStart
  /\ mapped = [v \in {} |-> 0] /\ devs = {} /\ nDev = 0
-----------------------------------------------------------------------------
(* The list *)

VmVrangeOverlapsRegion(r, start, end) ==
  start < end /\ start < r.VaddrEnd /\ end > r.VaddrStart

(* Where the range goes on account of region i: in front of it, or behind  *)
(* it if it ends before the next one begins.                               *)
GoesBefore(i, end) == end <= vmrs[i].VaddrStart

GoesAfter(i, start, end) ==
  /\ start >= vmrs[i].VaddrEnd
  /\ i < Len(vmrs) => end < vmrs[i + 1].VaddrStart

(* Wrong variant: a range always goes to the end of the list. *)
InsertLast(start, end) == Len(vmrs) + 1

(* The place of the new region in the list, 0 if there is none. *)
VmFindInsertPoint(start, end) ==
  LET Stops(i) == GoesBefore(i, end) \/ GoesAfter(i, start, end)
      first    == {i \in DOMAIN vmrs : Stops(i) /\ \A j \in 1 .. i - 1 : ~Stops(j)}
  IN  IF start >= end \/ first = {} THEN 0
      ELSE LET i == CHOOSE i \in first : TRUE IN IF GoesBefore(i, end) THEN i ELSE i + 1

(* What VmAcquireRegion checks before it asks for a node. *)
Acceptable(start, end, flags) ==
  /\ start < end
  /\ "anywhere" \in flags \/ start >= KernelStart
  /\ Aligned(start, RegionPageSize(flags)) /\ Aligned(end, RegionPageSize(flags))
  /\ VmFindInsertPoint(start, end) # 0

(* Wrong variant: the region is not counted. *)
VmAcquireUncounted(start, end, flags) ==
  /\ Acceptable(start, end, flags)
  /\ RnaAcquireNode
  /\ vmrs' = InsertAt(vmrs, VmFindInsertPoint(start, end), Region(start, end, flags))
  /\ UNCHANGED NrVMRs

VmAcquireRegion(start, end, flags) ==
  /\ Acceptable(start, end, flags)
  /\ RnaAcquireNode
  /\ vmrs' = InsertAt(vmrs, VmFindInsertPoint(start, end), Region(start, end, flags))
  /\ NrVMRs' = NrVMRs + 1

VmAcquireFails(start, end, flags) ==
  /\ Acceptable(start, end, flags) => RnaOutOfMemory
  /\ UNCHANGED <<vmrs, NrVMRs, rnaVars>>

(* Every page up to the n-th step is mapped.  The mode of the walk is      *)
(* taken from a flag that no region has, so each step maps one small page, *)
(* although the steps of a large region are large pages.                   *)
VmMapStatic(start, end, flags, paddr, n) ==
  LET step   == RegionPageSize(flags)
      pages == {start + k * step : k \in 0 .. n - 1}
  IN  mapped' = [v \in DOMAIN mapped \cup pages |-> IF v \in pages THEN paddr + (v - start) ELSE mapped[v]]

Steps(start, end, flags) == (end - start + RegionPageSize(flags) - 1) \div RegionPageSize(flags)
-----------------------------------------------------------------------------
(* The callers *)

HasRegion(start) == \E i \in DOMAIN vmrs : vmrs[i].VaddrStart = start

(* HeapInit: the pages come on demand. *)
AcquireHeapRegion ==
  /\ ~HasRegion(HeapRange.start)
  /\ VmAcquireRegion(HeapRange.start, HeapRange.end, {"write"})
  /\ UNCHANGED <<Head_, mapped, devs, nDev>>

(* KrInitSMP: the low pages are mapped to themselves. *)
AcquireLowMap ==
  LET flags == {"static", "write", "exec", "anywhere"}
  IN
  /\ ~HasRegion(LowMap.start)
  /\ VmAcquireRegion(LowMap.start, LowMap.end, flags)
  /\ VmMapStatic(LowMap.start, LowMap.end, flags, LowMap.start, Steps(LowMap.start, LowMap.end, flags))
  /\ UNCHANGED <<Head_, devs, nDev>>

(* A static region of large pages, as Virtmemmgmt.h offers it.  No caller  *)
(* asks for one so far.                                                    *)
AcquireLargeStatic ==
  /\ \E d \in Devices :
        LET start == MmioStart
            flags == {"static", "write", "largePages"}
        IN  /\ ~HasRegion(start)
            /\ VmAcquireRegion(start, start + d.size, flags)
            /\ VmMapStatic(start, start + d.size, flags, d.paddr, Steps(start, start + d.size, flags))
            /\ devs' = devs \cup {[vaddr |-> start, paddr |-> d.paddr, size |-> d.size]}
  /\ UNCHANGED <<Head_, nDev>>

(* Wrong variant: the head stays where it was. *)
AllocateInPlace(alignment, size) ==
  LET base == ((Head_ + alignment - 1) \div alignment) * alignment
  IN  [base |-> base, head |-> Head_]

MmioAllocateRange(alignment, size) ==
  LET base == ((Head_ + alignment - 1) \div alignment) * alignment
  IN  [base |-> base, head |-> base + size]

(* The page size of the allocation follows the device's flag, that of the  *)
(* region does not.  The head is moved before anything can fail; a region  *)
(* whose pages cannot be mapped stays, because VmRelinquishRegion is empty. *)
MmioMapDevice(d) ==
  LET page  == IF d.large THEN LargePage ELSE 1
      range == MmioAllocateRange(page, d.size)
      start == range.base
      end   == start + d.size
      flags == {"static", "write"}
  IN
  /\ nDev < MaxDevices /\ nDev' = nDev + 1
  /\ IF Aligned(d.paddr, page) /\ Aligned(d.paddr + d.size, page)
     THEN /\ Head_' = range.head
          /\ \/ VmAcquireFails(start, end, flags) /\ UNCHANGED <<mapped, devs>>
             \/ /\ VmAcquireRegion(start, end, flags)
                /\ \E n \in 0 .. Steps(start, end, flags) :
                      /\ VmMapStatic(start, end, flags, d.paddr, n)
                      /\ devs' = IF n < Steps(start, end, flags) THEN devs
                                 ELSE devs \cup {[vaddr |-> start, paddr |-> d.paddr, size |-> d.size]}
     ELSE UNCHANGED <<Head_, vmrs, NrVMRs, mapped, devs, rnaVars>>

SpaceNext ==
  \/ AcquireHeapRegion \/ AcquireLowMap
  \/ \E d \in Devices : MmioMapDevice(d)

SpaceSpec == SpaceInit /\ [][SpaceNext]_vmmVars

(* With the large static regions that nobody asks for so far. *)
LargeSpec == SpaceInit /\ [][SpaceNext \/ AcquireLargeStatic]_vmmVars
-----------------------------------------------------------------------------
(* Properties *)

(* The ranges of the state; the regions are counted exactly and each has a *)
(* node of its own.                                                        *)
SpaceTypeOK ==
  /\ \A i \in DOMAIN vmrs : vmrs[i].VaddrStart \in Nat /\ vmrs[i].VaddrEnd \in Nat
  /\ NrVMRs = Len(vmrs) /\ NrVMRs = Len(nodes)
  /\ Head_ >= MmioStart
  /\ \A v \in DOMAIN mapped : mapped[v] \in Nat

(* KrAddressSpace: "VMR linked list is always sorted. Goes from smallest   *)
(* to largest, always."                                                    *)
ListIsSorted == \A i \in 1 .. Len(vmrs) - 1 : vmrs[i].VaddrStart < vmrs[i + 1].VaddrStart

(* No address belongs to two regions, so that VmLocateRegion, which stops  *)
(* at the first hit, gives the page-fault handler the only answer.         *)
RegionsAreDisjoint ==
  \A i, j \in DOMAIN vmrs :
     i # j => ~VmVrangeOverlapsRegion(vmrs[i], vmrs[j].VaddrStart, vmrs[j].VaddrEnd)

(* A device that was mapped stays mapped, page by page, whatever failed    *)
(* before or is mapped after it.                                           *)
DevicesStayMapped ==
  \A d \in devs : \A k \in 0 .. d.size - 1 :
     d.vaddr + k \in DOMAIN mapped /\ mapped[d.vaddr + k] = d.paddr + k

(* The list of regions is sorted, no address belongs to two of them, no    *)
(* node of theirs is handed out twice, and a device that was mapped stays  *)
(* mapped.                                                                 *)
RegionsAreSound ==
  /\ SpaceTypeOK /\ NodesAreDistinct
  /\ ListIsSorted /\ RegionsAreDisjoint /\ DevicesStayMapped

(* VaddrStart is an "Inclusive start" and VaddrEnd an "Exclusive end":     *)
(* a region contains its own first address.                                *)
RegionsContainTheirStart == \A i \in DOMAIN vmrs : vmrs[i].VaddrStart < vmrs[i].VaddrEnd
=============================================================================
