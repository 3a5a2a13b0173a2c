------------------------------ MODULE YchBoot ------------------------------
(***************************************************************************)
(* From the firmware to the kernel's first instruction: the UEFI loader    *)
(* (Boot/YchBoot.c, Boot/Utilities.h) and Boot Elevate (Boot/Bootelvt.asm),*)
(* which builds the page tables the kernel starts on.                      *)
(*                                                                         *)
(* Bootelvt, the kernel and the memory map are put at fixed addresses that *)
(* are never allocated, so a pool of the firmware may lie on them.  The    *)
(* firmware's map has a version, its key, and a number of descriptors.     *)
(* A page table has ENTRIES entries.  FBUF_PD and the three identity       *)
(* tables follow each other in Bootelvt, so they are one array of slots.   *)
(* The size and the magic of the information pack are constants of the     *)
(* loader: the two checks of Bootelvt that halt are always passed.         *)
(***************************************************************************)
EXTENDS Naturals, Sequences, FiniteSets

CONSTANTS
  Computers,    \* records [fs, modes, hypervisor, default, roomy, quiet]
  ENTRIES,      \* PAGE_HIERARCHY_ENTRY_COUNT
  KERNEL_PAGES, \* KERNEL_RESERVE_SIZE / 2 MiB
  SLACK         \* descriptors added to the size that was asked for: 2

(* A video mode is [w, h, bgr, fb], fb in halves of a large page.  roomy:  *)
(* the fixed addresses are memory the firmware does not use itself; quiet: *)
(* nothing but the loader changes the firmware's map.                      *)
Modes == [w : Nat, h : Nat, bgr : BOOLEAN, fb : Nat]
ASSUME BootAssumption ==
  /\ ENTRIES \in Nat \ {0} /\ KERNEL_PAGES \in 1 .. ENTRIES /\ SLACK \in Nat \ {0, 1}
  /\ \A m \in Computers :
       /\ Len(m.fs) > 0 /\ m.modes \in Seq(Modes) /\ m.default \in Modes
       /\ {m.hypervisor, m.roomy, m.quiet} \subseteq BOOLEAN

Areas == {"map area", "bootelvt", "kernel", "elsewhere"}

VARIABLES
  computer,  \* never changed
  step,      \* the next thing to do
  modeIndex, best,   \* loop index and iBestVideoModeCandidate + 1
  answered,  \* history: the modes whose query succeeded
  video,     \* the mode the display is in
  memory,    \* what is at each area
  fw,        \* the firmware: its map [version, count], is it still up, will it change the map
  fwMap,     \* the loader's: szMemoryMap in descriptors, kMapKey, the version copied
  KRNL_PD,   \* large pages of the kernel's window
  slots      \* FBUF_PD, IDPAGE_PDPT, IDPAGE_PD, IDPAGE_PT

loader == <<modeIndex, best, answered, video>>
tables == <<KRNL_PD, slots>>
bootVars == <<computer, step, loader, memory, fw, fwMap, tables>>

None == [to |-> "nothing", at |-> 0]
Entry(to, at) == [to |-> to, at |-> at]
Slots == 0 .. 4 * ENTRIES - 1

BootInit ==
  /\ computer \in Computers
  /\ step = "locate handles"
  /\ modeIndex = 1 /\ best = 0 /\ answered = {} /\ video = computer.default
  /\ memory = [a \in Areas |-> "free"]
  /\ fw = [version |-> 0, count |-> 0, up |-> TRUE, events |-> IF computer.quiet THEN 0 ELSE 1]
  /\ fwMap = [size |-> 0, key |-> 0, copied |-> 0]
  /\ KRNL_PD = [e \in 0 .. ENTRIES - 1 |-> None]
  /\ slots = [s \in Slots |-> None]

(* EFI_ERROR(Status): the loader returns to the firmware. *)
Then(next) == step' \in {next, "returned"}
----------------------------------------------------------------------------
(* Files *)

LocateHandleBuffer ==
  /\ step = "locate handles" /\ Then("open handle")
  /\ UNCHANGED <<computer, loader, memory, fw, fwMap, tables>>

(* pSimpleFsHandles[1]: with one handle, whatever lies behind the array. *)
HandleProtocol ==
  /\ step = "open handle"
  /\ \/ Len(computer.fs) >= 2 /\ Then("open volume")
     \/ Len(computer.fs) < 2 /\ step' \in {"lost", "returned"}
  /\ UNCHANGED <<computer, loader, memory, fw, fwMap, tables>>

OpenVolume ==
  /\ step = "open volume" /\ Then("read bootelvt")
  /\ UNCHANGED <<computer, loader, memory, fw, fwMap, tables>>

(* A pool lies in memory that is free to the firmware. *)
PoolAreas == IF computer.roomy THEN {"elsewhere"} ELSE Areas

(* YchbootReadFile: the file information is read into a pool, which is     *)
(* freed, and the file to its address.                                     *)
ReadFile(file) ==
  \/ /\ computer.fs[2] = "os"
     /\ \E pool \in PoolAreas : memory' = [memory EXCEPT ![pool] = "garbage", ![file] = file]
     /\ step' = IF file = "bootelvt" THEN "read kernel" ELSE "locate gop"
  \/ step' = "returned" /\ UNCHANGED memory

ReadBootelvt ==
  /\ step = "read bootelvt" /\ ReadFile("bootelvt")
  /\ UNCHANGED <<computer, loader, fw, fwMap, tables>>

ReadKernel ==
  /\ step = "read kernel" /\ ReadFile("kernel")
  /\ UNCHANGED <<computer, loader, fw, fwMap, tables>>
----------------------------------------------------------------------------
(* Video *)

LocateProtocol ==
  /\ step = "locate gop" /\ Then("query modes")
  /\ UNCHANGED <<computer, loader, memory, fw, fwMap, tables>>

Mode(k) == computer.modes[k]

Is16by9(m) == (m.w * 9) \div 16 = m.h

(* Wrong variant: the width is not looked at. *)
HigherOnly(m, n) == m.h >= n.h

Better(m, n) == m.h > n.h \/ (m.h = n.h /\ m.w > n.w)

EndsSearch(m) == computer.hypervisor /\ m.w = 1280 /\ m.h = 720

(* One round of the loop; a query may fail. *)
QueryMode ==
  /\ step = "query modes" /\ modeIndex <= Len(computer.modes)
  /\ \/ modeIndex' = modeIndex + 1 /\ UNCHANGED <<best, answered>>
     \/ LET m == Mode(modeIndex)
            fits == Is16by9(m) /\ m.bgr
        IN  /\ answered' = answered \cup {modeIndex}
            /\ best' = IF fits /\ (best = 0 \/ Better(m, Mode(best))) THEN modeIndex ELSE best
            /\ modeIndex' = IF fits /\ EndsSearch(m) THEN Len(computer.modes) + 1 ELSE modeIndex + 1
  /\ UNCHANGED <<computer, step, video, memory, fw, fwMap, tables>>

(* If SetMode fails, the mode the firmware booted with stays. *)
SetMode ==
  /\ step = "query modes" /\ modeIndex > Len(computer.modes)
  /\ step' = "size map"
  /\ video' \in IF best = 0 THEN {video} ELSE {Mode(best), video}
  /\ UNCHANGED <<computer, modeIndex, best, answered, memory, fw, fwMap, tables>>
----------------------------------------------------------------------------
(* The memory map and the end of the firmware *)

(* The first call only tells the size; any other answer is an error. *)
GetMemoryMapSize ==
  /\ step = "size map" /\ Then("allocate map")
  /\ fwMap' = [fwMap EXCEPT !.size = fw.count + SLACK]
  /\ UNCHANGED <<computer, loader, memory, fw, tables>>

(* A pool splits a descriptor in up to three.  Without one, the second     *)
(* call gets no buffer and fails.                                          *)
AllocatePool ==
  /\ step = "allocate map"
  /\ \/ /\ step' = "get map"
        /\ \E pool \in PoolAreas : memory' = [memory EXCEPT ![pool] = "pool"]
        /\ \E more \in 0 .. 2 :
              fw' = [fw EXCEPT !.version = @ + 1, !.count = @ + more]
     \/ step' = "returned" /\ UNCHANGED <<memory, fw>>
  /\ UNCHANGED <<computer, loader, fwMap, tables>>

GetMemoryMap ==
  /\ step = "get map"
  /\ step' = IF fw.count > fwMap.size THEN "returned" ELSE "exit"
  /\ fwMap' = [fwMap EXCEPT !.size = fw.count, !.key = fw.version]
  /\ UNCHANGED <<computer, loader, memory, fw, tables>>

(* Environment: a timer or a driver of the firmware allocates memory. *)
FirmwareAllocates ==
  /\ step \in {"allocate map", "get map", "exit"} /\ fw.up /\ fw.events > 0
  /\ \E more \in 0 .. 2 :
        fw' = [fw EXCEPT !.version = @ + 1, !.count = @ + more, !.events = @ - 1]
  /\ UNCHANGED <<computer, step, loader, memory, fwMap, tables>>

(* A stale key is refused; the status is not looked at. *)
ExitBootServices ==
  /\ step = "exit"
  /\ fw' = [fw EXCEPT !.up = fwMap.key # fw.version]
  /\ step' = "copy map"
  /\ UNCHANGED <<computer, loader, memory, fwMap, tables>>

(* The copy is in place, and destroys its source, if the pool is there. *)
CopyMap ==
  /\ step = "copy map"
  /\ memory' = [memory EXCEPT !["map area"] = IF @ = "pool" THEN "garbage" ELSE "map"]
  /\ fwMap' = [fwMap EXCEPT !.copied = fwMap.key]
  /\ step' = IF memory["bootelvt"] = "bootelvt" THEN "kernel pages" ELSE "lost"
  /\ UNCHANGED <<computer, loader, fw, tables>>
----------------------------------------------------------------------------
(* Boot Elevate *)

PopulateKernelPages ==
  /\ step = "kernel pages"
  /\ KRNL_PD' = [e \in DOMAIN KRNL_PD |->
                    IF e < KERNEL_PAGES THEN Entry("kernel", e) ELSE KRNL_PD[e]]
  /\ step' = "frame buffer pages"
  /\ UNCHANGED <<computer, loader, memory, fw, fwMap, slots>>

(* Wrong variant: the part of a page at the end is left out. *)
WholePages(size) == size \div 2

FrameBufferPages(size) == (size \div 2) + (size % 2)

(* LOOP counts down from RCX before it looks: a count of 0 goes through    *)
(* all of memory, and one beyond the tables leaves Bootelvt.               *)
PopulateFrameBufferPages ==
  /\ step = "frame buffer pages"
  /\ LET n == FrameBufferPages(video.fb)
     IN  \/ /\ n \in 1 .. 4 * ENTRIES
            /\ slots' = [s \in Slots |-> IF s < n THEN Entry("frame buffer", s) ELSE slots[s]]
            /\ step' = "identity pages"
         \/ n \notin 1 .. 4 * ENTRIES /\ step' = "lost" /\ UNCHANGED slots
  /\ UNCHANGED <<computer, loader, memory, fw, fwMap, KRNL_PD>>

PopulateIDMapPages ==
  /\ step = "identity pages"
  /\ slots' = [s \in Slots |->
                 CASE s = ENTRIES      -> Entry("table", 2)
                   [] s = 2 * ENTRIES  -> Entry("table", 3)
                   [] s >= 3 * ENTRIES -> Entry("low", s - 3 * ENTRIES)
                   [] OTHER            -> slots[s]]
  /\ step' = "call kernel"
  /\ UNCHANGED <<computer, loader, memory, fw, fwMap, KRNL_PD>>

(* The tables are in use from here on. *)
CallKernel ==
  /\ step = "call kernel"
  /\ step' = IF memory["kernel"] = "kernel" THEN "kernel" ELSE "lost"
  /\ UNCHANGED <<computer, loader, memory, fw, fwMap, tables>>
----------------------------------------------------------------------------
LoaderStep ==
  \/ LocateHandleBuffer \/ HandleProtocol \/ OpenVolume \/ ReadBootelvt \/ ReadKernel
  \/ LocateProtocol \/ QueryMode \/ SetMode
  \/ GetMemoryMapSize \/ AllocatePool \/ GetMemoryMap \/ ExitBootServices \/ CopyMap
  \/ PopulateKernelPages \/ PopulateFrameBufferPages \/ PopulateIDMapPages \/ CallKernel

BootNext == LoaderStep \/ FirmwareAllocates

(* The firmware answers every call. *)
BootSpec == BootInit /\ [][BootNext]_bootVars /\ WF_bootVars(LoaderStep)
----------------------------------------------------------------------------
(* Properties *)

(* What the page tables translate an address of each window to. *)
FrameBufferAt(e) == slots[e]
IdentityAt(d, t, e) ==
  IF slots[ENTRIES + d] = Entry("table", 2) /\ slots[2 * ENTRIES + t] = Entry("table", 3)
  THEN slots[3 * ENTRIES + e]
  ELSE IF slots[ENTRIES + d].to = "table" THEN None ELSE slots[ENTRIES + d]

(* The frame buffer fits its window and there is one. *)
FrameBufferFits == FrameBufferPages(video.fb) \in 1 .. ENTRIES

(* The kernel starts on tables (Bootelvt.asm) that map its reserve, the    *)
(* frame buffer to its last byte and the lowest 2 MiB to themselves, and   *)
(* nothing else.                                                           *)
TablesAreExact ==
  step = "kernel" /\ FrameBufferFits =>
    LET E == 0 .. ENTRIES - 1 IN
    /\ \A e \in E : KRNL_PD[e] = IF e < KERNEL_PAGES THEN Entry("kernel", e) ELSE None
    /\ \A e \in E : FrameBufferAt(e) = IF 2 * e < video.fb THEN Entry("frame buffer", e) ELSE None
    /\ \A d, t, e \in E : IdentityAt(d, t, e) = IF d = 0 /\ t = 0 THEN Entry("low", e) ELSE None

(* The kernel is entered with the machine to itself and with the map the   *)
(* firmware left (YchBoot.c), provided the fixed addresses are free and    *)
(* nothing else changes the map; and then the room for two more            *)
(* descriptors is enough.                                                  *)
KernelGetsTheMachine ==
  computer.roomy /\ computer.quiet =>
    /\ step = "kernel" => ~fw.up /\ memory["map area"] = "map" /\ fwMap.copied = fw.version
    /\ step = "get map" => fw.count <= fwMap.size

(* The loader returns only to a firmware that is still there. *)
ReturnsToTheFirmware == step = "returned" => fw.up

(* The mode chosen is the largest of the suitable ones that were found;    *)
(* under a hypervisor, of those up to 1280x720.                            *)
VideoModeIsBest ==
  step \notin {"locate handles", "open handle", "open volume", "read bootelvt", "read kernel",
               "locate gop", "query modes", "returned", "lost"} =>
    LET suitable == {k \in answered : Is16by9(Mode(k)) /\ Mode(k).bgr}
        stops    == {k \in suitable : EndsSearch(Mode(k))}
        seen     == {k \in suitable : \A s \in stops : k <= s}
    IN  /\ (best = 0) = (suitable = {})
        /\ best # 0 => \A k \in seen : \/ Mode(k).h < Mode(best).h
                                       \/ Mode(k).h = Mode(best).h /\ Mode(k).w <= Mode(best).w
        /\ best # 0 => best \in seen
        /\ video \in {computer.default} \cup {Mode(k) : k \in seen}

(* The kernel is entered on tables that map its reserve, the frame buffer  *)
(* and the lowest 2 MiB exactly (Bootelvt.asm), with the firmware gone and *)
(* the map it left (YchBoot.c), in the best video mode there was.          *)
HandoverIsSound == TablesAreExact /\ KernelGetsTheMachine /\ ReturnsToTheFirmware /\ VideoModeIsBest

LoaderEnds == <>(step \in {"kernel", "returned", "lost"})
============================================================================
