------------------------------- MODULE MCBoot -------------------------------
(***************************************************************************)
(* From the disk image to a kernel that can wait: the tool that makes the  *)
(* image and the library it is called through, the loader, the memory map  *)
(* and the managers that are built on it, the direct map, the page-table   *)
(* entries with the registers that give them a meaning, and the timers.    *)
(* The kernel's memory goes on from the memory map; the other parts share  *)
(* no variable, so a behaviour is one of a single part and the others stay *)
(* where they start.                                                       *)
(***************************************************************************)
EXTENDS Memmap, YchBoot, TLC

CONSTANTS PT, PD, PDPT, PML4, NrPages, ArenaBase, Pml4, NoPage,   \* of DirectMap
          APs, BSP, HAS_NX, HAS_HUGE,                             \* of PTE
          ArenaSizes, ALIGNMENT, DESCRIPTOR, BYTE_BITS, LOW_PAGES,
          KERNEL_BASE, KERNEL_RESERVE, METAS, MaxStructs,         \* of KrInitMem
          DiskSizes, BlockSizes, SECTOR, MIB, TABLE_SIZE,
          MINIMUM_DISK_SIZE_MIB, EFI_SYSTEM_PART_SIZE_MIB,        \* of DiskImage
          Outcomes,                                               \* of RoutineLib
          Delays, Calibration, DWORD_MAX, MaxEvents, IrqOff, HeapFails   \* of PerCpuTimer

(* All memory maps of one to four disjoint regions of one or two pages, in *)
(* every order: bases are even, so that a region of two pages reaches the  *)
(* next and one of one page leaves a gap.  And one long region at every    *)
(* offset, alone or behind an unusable one: it takes every size of unit    *)
(* with which a bitmap is written.                                         *)
Descriptors == [base : {0, 2, 4, 6}, pages : {1, 2}, usable : BOOLEAN]
Region(b, n, u) == [base |-> b, pages |-> n, usable |-> u]
MCMaps ==
    {m \in UNION {[1..n -> Descriptors] : n \in 1..4} :
       \A i, j \in DOMAIN m : i # j => m[i].base # m[j].base}
    \cup {<<Region(a, n, TRUE)>> : a \in 0..7, n \in 1..25}
    \cup {<<Region(0, a, FALSE), Region(a, n, TRUE)>> : a \in 1..7, n \in 1..25}

(* Memories of twelve pages: one or two usable regions, then at most one   *)
(* NVS page.  The arena lies above them.                                   *)
Run(a, b) == [base |-> a, pages |-> b - a + 1]
PagesOf(u) == UNION {u[k].base .. u[k].base + u[k].pages - 1 : k \in DOMAIN u}
Usable == {<<Run(a, b)>> : a, b \in 0..11} \cup {<<Run(a, b), Run(c, d)>> : a, b, c, d \in 0..11}
Layouts == {u \in Usable : /\ \A k \in DOMAIN u : u[k].pages > 0
                           /\ Len(u) = 2 => u[1].base + u[1].pages < u[2].base}
WithNvs(u) == {u} \cup {Append(u, Run(n, n)) : n \in {0, 5, 11} \ PagesOf(u)}
Machine(u, s, structs, huge) ==
    [regions |-> s, free |-> PagesOf(u), NumBarenaMaxStructs |-> structs, bHugePageSupport |-> huge]

(* Either the arena is large enough for any layout, or it is small and the *)
(* first region is a scaffold that the later structures fit into.          *)
Machines ==
    UNION {{Machine(u, s, 12, TRUE) : s \in WithNvs(u)} : u \in Layouts}
      \cup UNION {{Machine(u, s, 3, FALSE) : s \in WithNvs(u)} : u \in {v \in Layouts : v[1].pages >= 6}}

(* A direct map with pages of all three sizes, the low map and the heap,   *)
(* an uncacheable and a write-combining device and a read-only region.     *)
FB_ADDRESS == {21, 30}
Dmap == {{}, {12}, {20}, {21}, {30}, {12, 21, 30}}
Regions == {
    [area |-> "low map", Flags |-> {"WRITABLE", "ALLOW_CODE_EXEC"}],
    [area |-> "heap", Flags |-> {"WRITABLE"}],
    [area |-> "device", Flags |-> {"WRITABLE", "UC"}],
    [area |-> "video", Flags |-> {"WRITABLE", "WC"}],
    [area |-> "constants", Flags |-> {}]}

(* Display modes in every order of up to two, or three of the suitable     *)
(* ones: two have the same height, one is not 16:9 and one not BGR.  Then  *)
(* everything else that differs from one computer to the next.  The frame  *)
(* buffers have no byte, a part of a large page, whole pages, all of the   *)
(* window and more.                                                        *)
VMode(w, h, bgr, fb) == [w |-> w, h |-> h, bgr |-> bgr, fb |-> fb]
VideoModes == {VMode(1280, 720, TRUE, 1), VMode(1360, 765, TRUE, 2), VMode(1361, 765, TRUE, 3),
               VMode(1024, 768, TRUE, 2), VMode(1920, 1080, TRUE, 6), VMode(1920, 1080, FALSE, 6)}
Wide == {m \in VideoModes : m.bgr /\ m.h \in {765, 1080}}
Computer(fs, modes, hypervisor, roomy, quiet) ==
    [fs |-> fs, modes |-> modes, hypervisor |-> hypervisor, default |-> VMode(1024, 768, TRUE, 2),
     roomy |-> roomy, quiet |-> quiet]
MCComputers ==
    {Computer(<<"esp", "os">>, ms, hyp, TRUE, TRUE) :
        ms \in UNION {[1..n -> VideoModes] : n \in 0..2} \cup [1..3 -> Wide], hyp \in BOOLEAN}
    \cup {Computer(fs, <<VMode(1280, 720, TRUE, fb)>>, FALSE, roomy, quiet) :
        fs \in {<<"esp">>, <<"os", "esp">>, <<"esp", "os">>, <<"esp", "os", "usb">>},
        fb \in {0, 5, 6, 7, 25}, roomy \in BOOLEAN, quiet \in BOOLEAN}

(* Routines of up to three parameters, in every order of kinds, and        *)
(* command lines with arguments of every kind.                             *)
Shapes == UNION {[1..n -> [type : {"INTEGER", "STRING", "BOOLEAN"}, Optional : BOOLEAN]] : n \in 0..2}
            \cup [1..3 -> [type : {"INTEGER"}, Optional : BOOLEAN]]
CommandLines ==
    {<<>>, <<"Help">>, <<"Help", "x">>, <<"Nothing">>}
      \cup {<<"Action">> \o a : a \in UNION {[1..n -> {"7x", "x", "True"}] : n \in 0..3}}

VARIABLES part,
          machine, regions, PhysAddrRegion, szRegionSize, dmapStep, at, path, size,
          mem, acquired, free,
          hasNx, cpuStep, pat, nxe, PatMsrState, bNoExecuteSupport, bInitialized, mapped,
          stage, arena, pmm, advisory, primary, taken, meta,
          iDiskSize, iBlockSize, todo, pDisk, pPartitionEntryArray, disk, result,
          shape, argv, main, routines, lost, param, seen, exit,
          mode, queue, INITCR, CURRCR, latched, IF_, flow, new, SleepBit, asked, age, fired

dmapVars == <<machine, regions, PhysAddrRegion, szRegionSize, dmapStep, at, path, size,
              mem, acquired, free>>
pteVars == <<hasNx, cpuStep, pat, nxe, PatMsrState, bNoExecuteSupport, bInitialized, mapped>>
initmemVars == <<stage, arena, pmm, advisory, primary, taken, meta>>
imageVars == <<iDiskSize, iBlockSize, todo, pDisk, pPartitionEntryArray, disk, result>>
routineVars == <<shape, argv, main, routines, lost, param, seen, exit>>
timerVars == <<mode, queue, INITCR, CURRCR, latched, IF_, flow, new, SleepBit, asked, age, fired>>
AllVars == <<part, vars, dmapVars, pteVars, initmemVars, bootVars, imageVars, routineVars, timerVars>>

Dm == INSTANCE DirectMap WITH pc <- dmapStep
Pt == INSTANCE PTE WITH pc <- cpuStep
Im == INSTANCE KrInitMem
Image == INSTANCE DiskImage
Routines == INSTANCE RoutineLib WITH k <- param
Timer == INSTANCE PerCpuTimer WITH pending <- latched, pc <- flow

ASSUME MCBootAssumption ==
    /\ Dm!DmapAssumption /\ Pt!PteAssumption /\ Im!InitMemAssumption
    /\ Image!ImageAssumption /\ Timer!TimerAssumption

(* What a part that does not run starts with is of no interest. *)
AnyMap == <<Region(0, 1, TRUE)>>
AnyMachine == Machine(<<Run(0, 5)>>, <<Run(0, 5)>>, 12, TRUE)

FixMap == FirmwareMap = AnyMap
FixMachine == machine = AnyMachine
FixNx == hasNx = TRUE
FixComputer == computer = Computer(<<"esp", "os">>, <<>>, FALSE, TRUE, TRUE)
FixImage == iDiskSize = Max(DiskSizes) /\ iBlockSize = SECTOR
FixRoutine == shape = <<>> /\ argv = <<>>
FixTimer == mode = [irqOff |-> TRUE, heapFails |-> TRUE]

AllInit ==
    /\ \/ part = "map" /\ FixMachine /\ FixNx /\ FixComputer /\ FixImage /\ FixRoutine /\ FixTimer
       \/ part = "dmap" /\ FixMap /\ FixNx /\ FixComputer /\ FixImage /\ FixRoutine /\ FixTimer
       \/ part = "entries" /\ FixMap /\ FixMachine /\ FixComputer /\ FixImage /\ FixRoutine /\ FixTimer
       \/ part = "loader" /\ FixMap /\ FixMachine /\ FixNx /\ FixImage /\ FixRoutine /\ FixTimer
       \/ part = "image" /\ FixMap /\ FixMachine /\ FixNx /\ FixComputer /\ FixRoutine /\ FixTimer
       \/ part = "routine" /\ FixMap /\ FixMachine /\ FixNx /\ FixComputer /\ FixImage /\ FixTimer
       \/ part = "timer" /\ FixMap /\ FixMachine /\ FixNx /\ FixComputer /\ FixImage /\ FixRoutine
    /\ Init /\ Im!InitMemInit /\ Dm!Init /\ Pt!Init /\ BootInit /\ Image!ImageInit
    /\ Routines!RoutineInit /\ Timer!Init
    /\ part # "map" => arena.end = Max(ArenaSizes)

(* KrInitMemmap takes its room in the arena, sorts and merges; the rest of *)
(* the kernel's memory comes after.                                        *)
MapNext ==
    \/ Im!AcquireMaps(Len(FirmwareMap)) /\ UNCHANGED vars
    \/ stage = "discover" /\ Next /\ UNCHANGED initmemVars
    \/ pc = "done" /\ Im!InitMemStep /\ UNCHANGED vars

(* The other parts that are straight-line code of one CPU or process. *)
straightVars == <<dmapVars, bootVars, imageVars, routineVars>>
Straight ==
    \/ part = "dmap" /\ Dm!Next /\ UNCHANGED <<bootVars, imageVars, routineVars>>
    \/ part = "loader" /\ LoaderStep /\ UNCHANGED <<dmapVars, imageVars, routineVars>>
    \/ part = "image" /\ Image!ImageNext /\ UNCHANGED <<dmapVars, bootVars, routineVars>>
    \/ part = "routine" /\ Routines!RoutineNext /\ UNCHANGED <<dmapVars, bootVars, imageVars>>

AllNext ==
    /\ UNCHANGED part
    /\ \/ Straight /\ UNCHANGED <<vars, initmemVars, pteVars, timerVars>>
       \/ part = "map" /\ MapNext /\ UNCHANGED <<straightVars, pteVars, timerVars>>
       \/ /\ part = "loader" /\ FirmwareAllocates
          /\ UNCHANGED <<vars, dmapVars, pteVars, initmemVars, imageVars, routineVars, timerVars>>
       \/ part = "entries" /\ Pt!Next /\ UNCHANGED <<vars, initmemVars, straightVars, timerVars>>
       \/ part = "timer" /\ Timer!Next /\ UNCHANGED <<vars, initmemVars, straightVars, pteVars>>

(* The boot code runs on, the firmware and the C library answer, the APIC  *)
(* counts and an enabled interrupt is taken.                               *)
AllSpec ==
    /\ AllInit /\ [][AllNext]_AllVars /\ WF_straightVars(Straight)
    /\ WF_timerVars(part = "timer" /\ Timer!Progress)
    /\ WF_timerVars(part = "timer" /\ Timer!Tick)
    /\ WF_timerVars(part = "timer" /\ Timer!TimerInterrupt)
-----------------------------------------------------------------------------
(* Memmap: the sort permutes the firmware's map into ascending order, the  *)
(* canonical map has the same usable pages in maximal regions, and an      *)
(* ascending map never drives the limits below zero.                       *)
MapIsExact == part = "map" => SortIsExact /\ CanonicalIsExact /\ AscendingMapIsSafe

(* KrInitMem: Physmemmgmt starts with exactly the usable memory outside    *)
(* the kernel's reserve and the first mebibyte, no frame of these is ever  *)
(* handed out, and the metadata stays in its frames; the exceptions are    *)
(* stated with the parts.                                                  *)
KernelMemoryIsSound == part = "map" => Im!KernelMemoryIsSound

(* DirectMap: at every point of the construction the direct map translates *)
(* exactly the pages handled so far, each to itself, through a tree of     *)
(* structures that are not free and, outside the arena, already mapped.    *)
(* PTE: every page has the address, the memory type and the rights that    *)
(* were asked for, on every processor that translates with it, and no      *)
(* processor takes a fault on its way into the kernel.                     *)
AddressSpaceIsSound ==
    /\ part = "dmap" => Dm!DmapIsExact /\ Dm!StructsFormATree /\ Dm!EvictedStructsAreMapped
    /\ part = "entries" =>
         /\ Pt!TypeOK /\ Pt!TranslationIsExact
         /\ Pt!CachingIsAsRequested /\ Pt!RightsAreAsRequested
         /\ Pt!EveryStepIsMapped

(* DiskImage: a finished image is a valid GPT disk with disjoint parts,    *)
(* and nothing stays open whatever fails.  RoutineLib: a handler is called *)
(* with the arguments that were typed and the defaults of the others.      *)
ToolsAreRight ==
    /\ part = "image" => Image!ImageIsConsistent /\ Image!NothingIsLeftOpen
    /\ part = "routine" => Routines!RoutinesAreCalledRight

(* The direct map is finished or fails, the loader enters the kernel or    *)
(* returns or loses its way, and the tools end.                            *)
BootEnds ==
    <>(\/ part \in {"map", "entries", "timer"}
       \/ part = "dmap" /\ dmapStep \in {"done", "oom", "fault"}
       \/ part = "loader" /\ step \in {"kernel", "returned", "lost"}
       \/ part = "image" /\ todo = "end"
       \/ part = "routine" /\ main = "end")

(* PerCpuTimer: the queue stays sorted, the counter runs for its root, and *)
(* no event fires before its ticks were counted, unless SetTimer is called *)
(* with interrupts off.                                                    *)
TimersKeepTime == []Timer!QueueIsSound /\ Timer!NeverEarly

(* PerCpuTimer: every event fires unless an acquisition failed, and Sleep  *)
(* returns unless its event fired just before the HLT.                     *)
TimersFire == Timer!EveryTimerFires /\ Timer!SleepReturnsUnlessMissed
=============================================================================
