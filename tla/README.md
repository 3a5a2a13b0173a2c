# A TLA+ model of the Ych kernel

Ych is a small x86-64 kernel in C and assembly with its own UEFI boot loader.
This directory models the parts that carry its logic: the boot loader and the
way the kernel takes over the machine, memory management, the protocols between
processors, interrupts, timers, drivers, keyboard input and text output, and
the tool that makes the disk image. Each module is a translation of the C source
named in its header; `PROJECT.json` maps every definition to the lines it
stands for. TLC checks small instances; for the allocators, page faults and
regions, the protocols between and below processors, interrupts, devices, the
keyboard and the loader TLAPS proves the properties for all of them.

    tlc -config MCMemory.cfg MCMemory          # one run
    tlapm PhysmemmgmtProofs.tla                # the proofs of one component

Paths below are relative to `src/Kernel/Source/` unless they begin with `src/`.

## 1. Inventory

| component | source | state | operations | interacts with | what makes it correct |
|---|---|---|---|---|---|
| physical memory manager | `Memory/Physmemmgmt.c` | two bitmaps, counters, search hint, spinlock | acquire (sparse, dense), relinquish, reserve, set hint | every user of pages, on every CPU | a page has one owner, the bitmap says which pages are in use, a reservation is for ever, the lock is released on every path |
| kernel heap | `Memory/Krnlheap.c` | doubly linked block headers in one region | acquire with alignment, relinquish, split, merge | drivers, timers | blocks tile the heap, neighbours agree, payloads stay in their block |
| virtual memory regions, region nodes, device memory | `Memory/Virtmemmgmt.c`, `Memory/PrivateVMM/RegionNodeAllocator.h`, `Memory/MMIO.c` | sorted list of regions, node pages, head of the device window, page tables | acquire region, map static, map device, acquire node | page faults, drivers | list sorted and disjoint, a mapped device stays mapped, a node is given once |
| page-fault handler | `Intmgmt/PageFault.c`, `Memory/PTE.c` | shared page tables, without a lock | handle a fault | physical memory manager, regions | accesses get through, writes survive, no frame is lost or used twice |
| page-table entries, PAT, trampoline | `Memory/PTE.c`, `CPU/PAT.c`, `Memory/PrivateVMM/BSmapInit.h`, `Init/BootstrapAP.s` | entries, PAT and EFER of each CPU | encode, initialise a CPU | every mapping | caching and rights as requested on every CPU |
| memory map | `Init/KrInitMemmap.c` | firmware map, canonical map | sort, merge | physical memory manager, direct map | sorted permutation; same usable pages, merged |
| direct map | `Memory/PrivateVMM/DmapInit.h` | paging structures under construction | map the regions, acquire a structure | memory map, arena, physical memory manager | translates exactly the memory handled so far |
| bring-up | `Init/KrInitSMP.c`, `Init/KrApplicationProcessorStart.c` | counters, flags and ID list shared by starting CPUs | start, wait, list, enter | NMI, calibration | all processors come up once, or the kernel melts down |
| NMI and meltdown | `Intmgmt/NMI.c`, `Core/Krnlmeltdown.c` | reason, acknowledgement bits, three locks | raise, poll, acknowledge, melt down | text output, bring-up | one meltdown; it stops every CPU and reports truthfully |
| timers | `CPU/PerCpu.c`, `Intmgmt/Timer.c`, `CPU/APIC.c` | event queue, one-shot counter | SetTimer, Sleep, timer interrupt | heap, local APIC | sorted, never early, never forgotten |
| calibration | `CPU/APIC.c`, `Devdriv/Timer/AcpiPmTimer.c` | wrapping counter, lock, calibration value | calibrate | timers, drivers | accurate, one at a time, ends |
| interrupt routing | `Intmgmt/IOAPIC.c`, `Intmgmt/IRQAldist.c`, `CPU/PerCpu.c`, `CPU/Interrupt.c`, `Init/KrInitInt.c` | vector tables, redirection entries, request and service bits | offer, set, redirect, dispatch | drivers | exclusive vectors, always a handler, always ended |
| drivers and device tree | `Devdriv/*.c`, `ACPI/PCIe.c` | driver table, tree, pairs | register, enumerate, pair | heap, ACPI | every device offered once, counts exact |
| keyboard | `Devdriv/Keyboard/PS2Keyboard.c`, `HumanInterface/KeyboardHub.c`, `Init/KrKernelStart.c` | decoder state, key table, event ring | set-up, interrupt, pop | interrupt routing, main loop | key states exact, events in order |
| interrupt entry | `CPU/ISRs.asm`, `CPU/Interrupt.c`, `Init/KrInitInt.c` | stack, registers, interrupt flag, vectors in service | stub, wrapper, dispatch, return | every handler; page faults and NMIs nest in it | the interrupted code gets its registers back, the frame says what happened, the end of interrupt goes to the right vector |
| ACPI tables | `Init/KrInitACPI.c`, `ACPI/ACPI.c`, `Intmgmt/IOAPIC.c` | processors, I/O APICs, table pointers | check, locate, walk the MADT, map the I/O APICs | bring-up, interrupt routing, drivers | the topology is what the firmware lists, or the kernel melts down for a reason |
| kernel memory start-up | `Init/KrInitMem*.c`, `Memory/BootstrapArena.c`, `Memory/Physmemmgmt.c` | arena, bitmaps, counters, metadata array | take from the arena, write the bitmaps, reserve, build the array | memory map, physical memory manager, direct map | exactly the usable memory outside the reserve is free |
| boot loader | `src/Boot/YchBoot.c`, `Bootelvt.asm` | firmware map and its key, video mode, page tables | load files, choose a mode, leave the firmware, build tables, enter the kernel | firmware, kernel start-up | the kernel is entered on tables and a map that are right, without the firmware |
| formatting | `KRTL/Krnlstring.c` | position in format and arguments, case flag | format, convert numbers | text output, assertions | the output is that of the elements one by one |
| image tool, routine library | `src/Tools/Imgtool`, `src/Tools/RoutineLib` | file, headers, entry array; routine table | make an image; register, parse, call | C library | a finished image is a valid GPT disk, nothing stays open; a handler gets what was typed |
| text output | `Earlyvideo/DisplaywideTextProtocol.c` | cursor, frame buffer, RAM copy, spinlock | print, scroll, reset | every CPU, meltdown | the display shows what was printed, calls whole |

What is hard about them: the flows of several CPUs (physical memory, NMI,
bring-up, page faults, text); interrupt handlers between the steps of the flow
they interrupt (timers, keyboard ring, interrupt routing); polling with a limit
and late answers (NMI, bring-up, PS/2); wrapping counters and unsigned
arithmetic (calibration, sort, heap); failure half-way (heap, nodes, frames,
devices). `PROJECT.json` lists the forty most important places as hazards, each
at its line.

Not modelled, each with its reason in `PROJECT.json`: descriptor tables and
other structures whose bits the hardware reads once; single-instruction
wrappers; fonts, key codes, message tables and the byte layout of tables, which
are constant data; assertions, which only end in a meltdown; `Init/ISRs.h`,
declarations that nothing includes; Imgtool's ReadGPT and ReadMBR, which print
what they read; what is printed on the way through the boot. Nothing is left
out of these that has control flow of its own and a state.

## 2. Modules

**Physmemmgmt** has one step per page of the search loop, because reservation,
the hint and the test in `PmRelinquishPage` do not take the lock and interleave
with it. `held` is a history variable: the pages each CPU was given. Bitmap
bytes have `ByteBits` bits, so that the last byte reaches past `NrPages`. A CPU
relinquishes and reserves only pages that it holds. **PageAllocator** is the
abstract specification (pages are free, owned or reserved; nothing else), which
Physmemmgmt instantiates (`Alloc`) with the advisory bits of the pages that
were free at boot as the reserved pages.

**Krnlheap** keeps the headers by address; an allocation splits and a release
merges exactly as the pointer code does, and `fault` records an access through
a null pointer. Calls come one at a time, as in today's callers.
**HeapExtents** is the abstract specification: live payloads are disjoint
extents inside the heap, of the size asked for, until they are given back.

**RegionNodeAllocator** and **Virtmemmgmt** keep the region list as the
sequence along `pNext`; node pages keep their bitmap with the sign extension
of `1 << 31`. **PageFault** runs the handlers of several CPUs over the same
tables, one step per visible access; one level stands for the three levels that
the same code walks, and an acquisition may fail with frames left, as one of
Physmemmgmt can (run `pmm_hint_past_end`). **PTE** treats a quadword as the set of its one bits, and
walks each application processor through the trampoline under its own PAT and
EFER. The frame buffer is aligned to 2 MiB. **Memmap** has the quicksort and
the merge with unsigned limits. **DirectMap** builds the map page by page,
through itself once the arena is exhausted.

**NMI** has the raising CPU, the handlers, the display lock and the three
reasons; with answers in time the caller still gives up after its polls when an
acknowledgement was lost; **SmpBringup** the bootstrap CPU and the others from INIT/SIPI to the
NMI test, which may fail; **PerCpuTimer** one CPU's queue, counter and interrupt;
**ApicCalibration** time as an action, with at most `GAP` ticks between two
steps of a measuring CPU and at most `STALL` in its stall (without such a bound
no polling loop measures anything). CalibrationAssumption also says that `GAP`
is shorter than the measured time and than the distance that a deadline keeps
from the end of the counter, and that the local APIC counter does not run out in
a measurement, as the values of the code do with room to spare.

**Devdriv** reads the hardware lazily, and a read of a bus that is not mapped
may fault; besides the three built-in drivers it
has a fourth, `Storage`, whose probe and init may fail, because none of the
built-in ones exercises those paths. **IrqRouting** writes the redirection
entry in its two halves; with `late` a driver may also ask for an interrupt
after the other processors are up, which the code offers and no driver does
yet. **PS2Setup** has the controller, the keyboard and the polling driver;
`fast` says that they have answered by the time the driver reads. A byte from
before that a driver takes for the configuration has the flags its bits stand
for, so that the port can be disabled by it; a byte sent to the keyboard enables
the port, as controllers do. No key is pressed before the interrupt is routed. **Keyboard** decodes the sequences at
the top of `PS2Scancodes.h`, byte by byte, into the ring that the main loop
drains; **KeyEvents** is its abstract specification (key actions come out once,
in order, with the modifiers at that time). **DisplaywideText** has the text
calls under their lock; a glyph is the CPU that drew it, and `paper` is the
history of all lines. **Krnlstring** runs the formatter's loop, one action per
kind of round, over the joined format and arguments of a list of elements; the
reference (`FormatIsRight`) writes each element by itself.

**InterruptEntry** executes the stubs and the wrapper on a stack of words, so
that an NMI can come between any two instructions and a page fault in any C
code; the processor reads the stack, and `levels` only remembers what it held.
Two vectors have an error code and two priorities exist, which are all the
kinds the 256 stubs and gates distinguish. **Acpi** reads a firmware's tables
in the order of KrInitACPI, each check with its meltdown, and walks the MADT
record by record.

**YchBoot** has every call of efi_main with its failure, a firmware that may
change its map at any time, and Bootelvt's page tables as slots, because
FBUF_PD and the tables behind it are one piece of memory. **KrInitMem** goes on
from the canonical map of Memmap: arena, bitmaps, reserve, test page, metadata;
an acquisition fails when the hint is past the last page, as well as when
nothing fits.
**DiskImage** makes an image out of the arguments, any library call failing;
**RoutineLib** registers a routine of any shape and executes a command line.

Alternatives of the surroundings (do acquisitions fail, is SetTimer called with
interrupts off, do CPUs answer in time, ...) are a variable that Init chooses
and no step changes: `mode`, `load`, `typist`, `machine`, `late`, `fast`,
`hasNx`. A property that needs one of them says so in its own text.

Definitions marked as mutants or wrong variants are plausible faults of the
code. `PROJECT.json` names, for every checked property, one that breaks it.

## 3. Runs

MCPhysmemmgmt is run on its own. The other passing runs put the components of
one theme side by side. Each extends the modules that have theorems and
instantiates the others: MCProcessors extends NMI, SmpBringup, ApicCalibration
and InterruptEntry; MCDevices extends Devdriv, IrqRouting, PS2Setup and Acpi;
MCMemory extends Krnlheap, PageFault and Virtmemmgmt; MCBoot extends YchBoot
(and Memmap); MCConsole extends Keyboard. The variable `part` says which of them
a behaviour belongs to. Modules that are extended together prefix their common
names: SmpSpec, ApicSpec, EntrySpec, FaultSpec, SpaceSpec, IrqSpec, AcpiSpec,
TreeSpec, Ps2Spec and BootSpec are the specifications of SmpBringup,
ApicCalibration, InterruptEntry, PageFault, Virtmemmgmt, IrqRouting, Acpi,
Devdriv, PS2Setup and YchBoot. They share no variable, so this checks each
component exactly as a run of its own would; it is not a claim about their
interaction. Two exceptions are real compositions: in MCBoot, KrInitMem goes on
from the map that Memmap has sorted and merged, with the arena taken before;
and Virtmemmgmt uses the nodes of RegionNodeAllocator. A property of a composition is a conjunction of the
properties of one component (for liveness, of several), each defined and
explained in its module. Where the conjunction is proved it is defined in the
component's module too: run and theorem name the same definition (TreeIsSound in
Devdriv, TopologyIsExact in Acpi, KeyboardIsConfigured in PS2Setup,
KeyTableIsExact in Keyboard, RegionsAreSound in Virtmemmgmt, HandoverIsSound in
YchBoot, ...).

| run | instance | checks |
|---|---|---|
| `pmm` | 2 CPUs, 5 pages in bytes of 2 bits, 3 free; sparse and dense requests with and without hint; one reserver | TypeOK, ExclusiveOwnership (a page has one owner), BitmapMatchesOwnership, BookkeepingIsExact (lock, counters and reservations agree), DenseIsContiguous, HuntIsExhaustive (a failed search has seen every page), ReservationIsPermanent, LockIsReleased, AllocSpec (refinement of PageAllocator) |
| `processors` | NMI: 3 CPUs, 2 polls, one hardware NMI, a printing CPU, timely or late answers. Bring-up: 3 processors with a gap in the IDs, 3 waits, one restart. Calibration: 2 CPUs, counters of 16 and 24 values from every start. Interrupt entry: up to 3 nested interrupts, faults and NMIs over stacks of every alignment | MeltdownIsTruthful (one CPU owns the meltdown; with answers in time and no hardware NMI so far, one that is not called catastrophic has stopped every other CPU; it is called catastrophic only if an answer was late or, after a hardware NMI, was lost), AnswersAreCounted (before the first hardware NMI no acknowledgement is stale; the test counts every CPU), BringupIsComplete, CalibrationIsSound (accurate, one at a time), InterruptsNest (what is interrupted gets back its registers, its stack and its flags; frames say what happened; the end of interrupt goes to the innermost vector), ProtocolsEnd (bring-up and calibration end, a meltdown stops every CPU) |
| `devices` | 4 drivers, 2 functions in 8 positions, failures anywhere, one of two buses mapped; 3 interrupts on 2 CPUs with one free vector each, 2 I/O APICs; PS/2 with 4 lost bytes, fast and slow; firmwares with every order of MADT records and anything missing or corrupt | TreeIsSound (counts exact whatever fails, every device offered once), InterruptsAreRouted (vectors exclusive, until none is left, and never without a handler), TopologyIsExact (processors and I/O APICs are those the firmware lists), KeyboardIsConfigured, InterruptsAreServed, SetupEnds |
| `console` | ring of 3, a typist who waits and one who overruns it, keys whose codes occur in other sequences; 2 CPUs printing 3 texts on 2 by 2 cells; formats of every pair of elements | KeyTableIsExact, ImplementsKeyEvents (refinement of KeyEvents), ScreenShowsPaper (consecutive lines, calls whole), FormatIsRight, ConsoleIsServed |
| `memory` | heap of 44 units with 4 payloads; 5 devices in a window for them, below a binary at page 28 and a frame buffer at page 32; 2 CPUs faulting on 4 pages with 4 frames, or on 2 pages at once | HeapIsWellFormed (tiling, links, merging, payloads), OwnersCanRelinquish, ImplementsExtents (refinement of HeapExtents), RegionsAreSound (sorted, disjoint, devices stay mapped), FaultsAreHandled (a frame has one use and is never lost, a page starts zeroed and keeps what is written), AccessesGetThrough |
| `boot` | all maps of up to 4 regions in every order, and one region of 1 to 25 pages at every offset; all layouts of 12 pages with structures of 2 entries; 3 CPUs, 3 page sizes, all caching types, with and without NX; computers with up to 3 video modes, 1 to 3 file systems, frame buffers from nothing to more than the window, quiet or not; disks and blocks of every relation to the minimum; routines of up to 3 parameters and command lines of up to 3 arguments; 3 timers with delays 1 and 3 on a counter of 3 ticks | MapIsExact (sort and merge), KernelMemoryIsSound (exactly the usable memory outside the reserve and the first mebibyte is free; metadata stays in its frames), AddressSpaceIsSound (direct map exact at every step, a tree, mapped where it is written; entries with address, caching and rights as requested on every CPU; no fault on the way into the kernel), HandoverIsSound (reserve, frame buffer and low memory mapped exactly, firmware gone, its last map kept, the best video mode), ToolsAreRight, TimersKeepTime (queue sorted, counter runs, never early), BootEnds, TimersFire |

`devices` has 77,668 distinct states, `memory` 292,079 and `boot` 362,058. The
bounds are the smallest at which the cases meet: a bitmap byte that ends
past memory and a search that starts inside one; three CPUs, so that a third
one acts between a raiser and a handler; counters that wrap during a
measurement; a heap that can hold a free block on both sides of a used one; a
ring that fills; two structures per level so that every level has a first and a
last entry; regions long enough for every width with which a bitmap is written;
a frame buffer that ends inside a large page; three nested interrupts, so that
an NMI can hit a page fault inside an NMI. State bounds (`MaxEvents`, `MaxCalls`, `MaxRestarts`, `MaxLive`,
`MaxFunctions`, `MaxDepth`, `MaxStructs`, `MAX_FAULTS`, `MAX_KEYS`, ...) are guards and named constants.
`CHECK_DEADLOCK FALSE` stands where the system may stop: the kernel halts after
a meltdown, boot code ends, or a bound is reached.

**Fairness.** CPUs run: each CPU's own steps are weakly fair (NMI, Physmemmgmt,
PageFault, text, calibration), because nothing in the kernel deschedules one.
Firmware and the C library answer. Hardware does its work: the counter ticks, a latched interrupt is delivered, the
controller takes and answers bytes. Boot code is straight-line: its next step is
weakly fair. Calls, key presses, meltdowns and hardware NMIs are never forced.
Spinlocks are not fair in the code, and no property needs a CPU to win one
against an infinite rival, with two exceptions: in PageFault an access that is
retried again and again is strongly fair, since the processor repeats the
instruction after every fault; and the number of text calls is bounded.

**Disagreements kept as runs.** Each of these TLC must find violated:

| run | the code says | the model shows |
|---|---|---|
| `pmm_hint_past_end` | the search wraps around to "the area we skipped" | after the last page the hint is `NrPages`, and acquisitions fail with pages free |
| `heap_last_block` | "Previous region swallows this" | for the last block a null pointer is written |
| `page_fault_race` | "zero out the allocated page immediately" | it is visible before, and another CPU's write is wiped |
| `dwtp_self_deadlock` | waiting for a spinlock one holds is a meltdown cause | a line that wraps at the bottom does it, undetected |
| `acpi_signature` | a missing MADT is an "Issue on firmware side" | `KrtlBufferEqual` also compares the byte behind the signature: a table whose length is a multiple of 256 is not found |
| `nmi_report` | a meltdown will "notify user about error" | a CPU stopped with the display lock keeps the report from ever being shown |

### Known divergences that are not runs

These were found the same way. The property is in the module; giving the module
the constants shown makes TLC print the behaviour. (`MC` stands for the values
in the composition's cfg.)

| property | module, constants | what happens | the line it contradicts |
|---|---|---|---|
| ReturnedPagesAreDistinct | MCPhysmemmgmt, Requests <- SparseRequests | a sparse block wraps into the byte it began in and lists a page twice (`Physmemmgmt.c:196`) | `src/Kernel/Include/Memory/Physmemmgmt.h:99` |
| ReservationIsPermanent | MCPhysmemmgmt, two Reservers, ByteBits = 4 | an unlocked read-modify-write loses a reservation (`Physmemmgmt.c:485`); all callers today are on one CPU | `Physmemmgmt.h:130` |
| CatastrophicIsTruthful without its condition | NMI, MaxHwNmi = {1} | a CPU in a hardware NMI acknowledges after the round was zeroed (`Intmgmt/NMI.c:111`) | `src/Kernel/Include/Core/KernelState.h:100` |
| `mode.timely => ~bMeltdownCatastrophic` | NMI, MaxHwNmi = {1} | a CPU takes a hardware NMI for the meltdown's and acknowledges between the load and the store of the caller's own bit (`Intmgmt/NMI.c:74`): the answer is lost, the CPU, stopped, gives no other, and after 512 polls (`:89`) the count is one short although every CPU complied (`Core/Krnlmeltdown.c:46`) | `KernelState.h:100` |
| MeltdownStopsEveryCpu without `mode.hwNmis = 0` | NMI, MaxHwNmi = {1} | the CPU that melts down takes a hardware NMI after the reason is set (`Intmgmt/NMI.c:67`): it stops itself before it has stopped the others | `src/Kernel/Include/Core/Krnlmeltdown.h:16` |
| CpuIDsComplete | SmpBringup, MC | the count goes up before RFD is set, the ID list can miss a CPU (`Init/KrApplicationProcessorStart.c:60`) | `KernelState.h:64` |
| CpuIDsCoverActive | SmpBringup, MC | the time-out melts down with more CPUs active than listed (`Init/KrInitSMP.c:131`) | `KernelState.h:64` |
| SleepReturns | PerCpuTimer, FairSpec, Delays = {1, 2} | the timer fires between SetTimer and HLT (`CPU/PerCpu.c:148`) | `src/Kernel/Include/CPU/PerCpu.h:69` |
| CounterRuns without its condition | PerCpuTimer, HeapFails = {TRUE} | an acquisition fails after the counter was stopped, and the events in the queue are no longer counted for (`CPU/PerCpu.c:101`) | `PerCpu.h:63` |
| EveryTimerFires | PerCpuTimer, 0 in Delays | a zero count stops the counter for good (`CPU/PerCpu.c:129`) | `PerCpu.h:63` |
| NeverEarly without its condition | PerCpuTimer, IrqOff = {TRUE} | the handler takes a count that has not run for the elapsed time (`Intmgmt/Timer.c:18`); no caller does this | `PerCpu.h:63` |
| CalibrationIsAccurate without its condition | ApicCalibration, REGISTRATION_MAY_FAIL = TRUE | without a timer driver port 0 is measured (`Devdriv/Timer/AcpiPmTimer.c:53`) | `PerCpu.h:22` |
| ListIsSorted | Virtmemmgmt, BinaryStart = 18, devices of 4 pages | a range that runs into the kernel binary is linked behind it (`Memory/Virtmemmgmt.c:196`) | `src/Kernel/Include/Memory/Virtmemmgmt.h:56` |
| RegionsContainTheirStart | Virtmemmgmt, MC | the frame buffer's region ends before it starts (`Virtmemmgmt.c:480`) | `Virtmemmgmt.h:40-41` |
| DevicesStayMapped | Virtmemmgmt, LargeSpec | static regions of large pages are mapped with small ones (`Virtmemmgmt.c:337`); no caller | `Virtmemmgmt.h:48` |
| NrSlotsIsPopcount, NodesAreDistinct | RegionNodeAllocator, RnaSpec, NrRnaSlots = 64, SignBit = 31, MaxRnaPages = 3 | slot 31 sets bits 31 to 63; later pages share addresses (`RegionNodeAllocator.h:88,91`) | `RegionNodeAllocator.h:14,18` |
| NxOnlyIfSupported | PTE, HAS_NX = {FALSE} | entries made before bInitialized keep the bit (`Memory/PTE.c:28`) | `Virtmemmgmt.c:422` |
| MaskGivesAddress | PTE, MC | the PAT bit of a large page is inside the mask | `src/Kernel/Include/Memory/PTE.h:38` |
| PatsAreInAccordance | PTE, MC | PAT entry 5 differs between processors | `Init/BootstrapAP.s:55` |
| ImplementsLossyKeyEvents | Keyboard, a typist who is not paced | a full ring hands out the newest event first (`HumanInterface/KeyboardHub.c:11`) | `KeyboardHub.c:6` |
| EventsArePopped | Keyboard, a typist who is not paced | an event between the test and HLT waits (`Init/KrKernelStart.c:224`) | `src/Kernel/Include/CPU/Halt.h:8` |
| ScreenShowsPaper without ~residue | DisplaywideText, Columns = 3, a reset and texts of newlines | text below the display outlives a reset (`Earlyvideo/DisplaywideTextProtocol.c:62`) | `DisplaywideTextProtocol.h:57` |
| EvictedStructsAreMapped | DirectMap, a small arena and any layout | a structure lies in a page not yet mapped (`Memory/PrivateVMM/DmapInit.h:235`) | `DmapInit.h:18` |

Memmap also shows that the quicksort's `pi - 1` wraps to UINT_MAX when the
pivot is the lowest of a range that begins at 0 (`Init/KrInitMemmap.c:41`): the
model's `overrun`. AscendingMapIsSafe says which maps never get there.

The properties of the modules added for boot, entry, formatting and the tools
hold with exceptions that their definitions state. What is excepted:

* `KRTL/Krnlstring.c`: `%%` writes the character that follows; the length of
  the empty string is taken from behind its NUL; a null `%s` copies a NUL with
  its text; the output is not terminated, while `Core/Assert.c` passes it on as
  a string; a piece longer than what is left of the limit is written whole.
* `CPU/ISRs.asm` saves no vector registers although the kernel is compiled with
  SSE; `Init/KrInitInt.c` enables interrupts before the handlers are in the
  table and before the local APIC is mapped.
* `Init/KrInitACPI.c:75`: a MADT record of size 0 is met for ever.
* `src/Boot/YchBoot.c`: the addresses of Bootelvt, kernel and map are never
  allocated; the answer of ExitBootServices is not looked at, so a map that
  changed in between leaves the firmware up (`:173`); the second file system is
  used without a test that there is one; on a hypervisor a larger mode found
  earlier is kept, against the comment "On VM choose smaller resolution."
  `src/Boot/Bootelvt.asm:105`: a frame buffer of size 0 makes LOOP go round
  2^64 times, one of more than 512 large pages runs past FBUF_PD.
* `Devdriv/Device.c:47`: InitDeviceTreeRoot zeroes the root after the platform
  drivers have added their devices to it, so that they are lost from the tree.
  The model does the same, and TreeIsSound, which compares the counts with the
  tree as it is, holds without them.
* `ACPI/PCIe.c:32` probes 256 buses although ProcessMCFG maps those from
  StartBusNo to EndBusNo (`Init/KrInitACPI.c:133`): what is read behind them
  belongs to another device, or faults and melts the kernel down (`PcieFault`).
  SetupEnds counts the meltdown as an end.
* `Memory/Physmemmgmt.c`: when memory ends inside the kernel's reserve the
  reservation is refused and the answer ignored; the metadata array is sized by
  the pages in the map and indexed by page number (`:119`). KrInitMemmap uses
  the arena's answer without a test. ACPI_RECLAIM memory counts as usable
  before the tables in it are read. The arena's range in
  `THE BOOT CONTRACT.txt` is not that of the code.
* `src/Tools/Imgtool/Source/Routines/MakeStandard.c`: a block size of 0 passes
  the test for a positive one and divides; large blocks let the EFI partition
  begin inside the entry array; a failed write of the primary entry array is
  still reported as OK; fclose is not checked.
* `src/Tools/RoutineLib/Source/RoutineLib.c`: a routine whose parameters are
  all optional requires them all; a bad boolean is reported and the handler
  called all the same; a routine that could not be finalised stays registered;
  a failed realloc loses the table. FinalizeRoutine is always called, where the
  header says only "if `Usage == NULL`". Imgtool registers ReadGPT with the
  handler of ReadMBR.

Hazards that are real but latent, and so not in the list: the heap has no lock
although the timer interrupt releases events (`Memory/Krnlheap.c:96`; nothing
sets a timer yet); `RnaRelinquishNode` frees a page that other nodes are in
(no callers); `KrMakeVirtual` does not sign-extend (no callers); the driver
table grows past 32 entries (three drivers); a key pressed while the PS/2
driver polls; an interrupt from the legacy controller before the table is full
(`Init/KrInitInt.c:56`).

## 4. Proofs

Each proof module extends the module of its component and proves its properties
for every value of the constants that the component's assumption admits: any
number of CPUs, pages, frames, polls, restarts or nested interrupts, any heap
and request sizes. TLC evaluates the assumptions in the runs of the MC modules;
a theorem whose module defines its assumption as a predicate names it as a
hypothesis. What else is assumed:

| theorem | hypothesis | why |
|---|---|---|
| ReservationsLast and those below it | `SingleReserver`, for BookkeepingExact also `BlocksAreDense` | true of all callers today; without it the property is false (section 3) |
| RegionsSound | `WindowHolds(span)`: the devices fit into the window at `span` pages each; `NodesSuffice`: two pages of nodes are enough, or there is no third | the code has no limit for either: past the window VmAcquireRegion links regions wrongly, and the third page of nodes repeats the addresses of the second (section 3) |
| InterruptsRouted | `BSP = 0` | a redirection entry has destination 0 until its second half is written; OffersAreExclusive does without |
| KeyTableExact, KeyboardImplementsKeyEvents | KeyboardAssumption leaves out the extended codes 0x12 and 0x7C | the tables have KC_INVALID there: no key has them |
| KeyboardImplementsKeyEvents | only steps with a paced typist are claimed | a full ring hands out the newest event first (section 3) |
| HandoverSound | BootAssumption: a reserve (`SLACK`) of two descriptors or more | YchBoot.c asks for two; an allocation may add that many to the map |
| TopologyExact | AcpiAssumption: records of one kind have IDs of their own, and an I/O APIC has a pin | with one ID twice the table entry is that of the last record, and there is no firmware it would describe |

| theorem | states |
|---|---|
| **PhysmemmgmtProofs** TypeCorrect | every page ID used as position, hint or result is inside the bitmap |
| MutualExclusion | the spinlock is owned exactly by the CPU in a critical section |
| PagesAreExclusive | no page is handed to two CPUs |
| BitmapIsExact | the primary bitmap marks exactly the pages in use |
| DenseAcquisition | a dense acquisition returns contiguous pages |
| ReservationsLast | with one reserver, a reservation is never undone |
| ImplementsPageAllocator | with one reserver, Physmemmgmt implements PageAllocator |
| BookkeepingExact | with one reserver and dense blocks, the lock, both counters and both bitmaps agree |
| SearchIsExhaustive | with one reserver, a sparse search that fails has seen every page, and all are taken |
| **KrnlheapProofs** HeapWellFormed | the blocks tile the heap, the list is the same in both directions, free neighbours are merged, payloads own their blocks |
| OwnersRelinquish | a payload that is handed out is never taken for one given back before |
| HeapImplementsExtents | Krnlheap implements HeapExtents |
| **AddressSpaceProofs** FaultsHandled | a reachable frame has one use, however handlers overlap; without overlap no frame and no write is lost, and no page shows old content |
| RegionsSound | regions are sorted and disjoint, each has a node of its own, a mapped device stays mapped |
| **ProcessorsProofs** BringupCompletes | after the wait every processor has counted itself once; the ID list is ascending and of processors that reported |
| MeltdownTruthful | one CPU owns the meltdown; until the first hardware NMI, with answers in time, what it reports of the others is so; called catastrophic with answers in time, it has stopped them all the same, and a hardware NMI came before |
| AnswersCountedExactly | a round counts its own answers alone, and the test all of them when they are in time |
| CalibrationSound | one CPU measures at a time, and with the timer driver registered stores the rate up to the delay of its own steps |
| **InterruptEntryProofs** InterruptsNestExactly | frames are right, returns exact and ends of interrupt in order, to any depth |
| **DeviceProofs** OffersAreExclusive | no vector of a processor is given twice, and the kernel gives up only when every vector is taken |
| InterruptsRouted | with the bootstrap processor's ID 0, what a pin lets through goes to a processor with a handler for it |
| TopologyExact | processors and I/O APICs are those of the MADT, and each interrupt has the I/O APIC whose pin it is |
| TreeSound | the numbers of devices and of pairs are those of the tree, and at the end every device was offered to every compatible driver, once |
| **KeyboardProofs** KeyTableExact | between two byte sequences the driver has exactly the keys held down |
| KeyboardImplementsKeyEvents | while the ring has room, driver, ring and main loop implement KeyEvents |
| KeyboardConfigured | a keyboard that is registered has the translation off, and on fast hardware scancode set 2 and its interrupt |
| **BootProofs** HandoverSound | the kernel is entered on exact tables, in the best video mode, with the firmware gone and its last map kept |

None of these is inductive by itself. Every module strengthens its property to
`IInv`, which TLC checked first; there is one lemma per action, under it one
step per conjunct that the action can disturb, and `NextIInv` combines them.
What the strengthening adds, and why:

*Physical memory.* The step that hands pages
out marks those in `out`, so exclusiveness needs that while a CPU hunts, its
`out` has no acquired page in it and after the claim it has only pages that
belong to nobody else (`CollectedPages`); that the claim of a dense request by
first page and length is the same set needs `out` to be consecutive and to end
just before the search position (`DenseStreak`); and clearing a bit is right
only if the page of the call is still held (`ArgumentHeld`). Reservations need
more: the byte loaded by the unlocked read-modify-write must
still be the byte in memory. That is so when one CPU reserves
(`SingleReserver`, a hypothesis, true of all callers today);
`ReserveInv` says it, and that a page on its way back has not been reserved
since the unlocked test. Without the hypothesis TLC refutes the property (see
the table above). For the refinement, `StepKinds` sorts the steps into those
that hand out, take back and pin a page and those that change neither `held`
nor `advisory`. The counters (`RequestInv`, `ReservationInv`) follow the bitmaps
through the cardinalities of what a step adds and removes; AcquiredPages is
raised by the length of `out`, which is the number of its pages as long as none
is listed twice. A sparse block can list one twice (table above), hence the
hypothesis `BlocksAreDense`: several pages are asked for DENSE, as all callers
do. `SearchInv` says which pages a search has seen: those from its start on,
and after the wraparound also those before its position; and that none of them
is given back meanwhile.

*Heap.* `WellFormed` ties the headers together: the next header is where a
block ends, and leads back; every header but the first is the next of its
previous one; and a block ends before any later header begins. The last two are
what makes the list whole: without them a header could lie out of reach of the
root, where a merge would swallow it. Splitting and merging are each a lemma
about lists (`SplitOff`, `Swallowed`), used by every path of HeapAlignedAcquire
and HeapRelinquish. A merge swallows no payload because every used block
belongs to exactly one (`PayloadsOwnBlocks`, `UsedBlocksAreOwned`). The fault of
the last block (run `heap_last_block`) is part of the model: after it no call
is made, and up to it everything holds.

*Page faults.* For handlers that overlap, the invariant says of each step of a
handler what it holds, that a frame is a table or a page and never both, and
that pages and tables are entered at most once, also in tables that another
handler has displaced. The rest (`SerialInv`) is for handlers that do not
overlap: every table is reachable, what the handler saw is still so, and every
frame is free or in use. That it fails with overlap is what run
`page_fault_race` shows.

*Bring-up.* A processor that is about to count itself is on the blacklist and
has not done so (`CountedOnce`), and ActiveProcessorCount is one more than the
number of those that have (`CountIsExact`); so a full count leaves nobody out.

*NMI.* The lock is held from the raise to the clearing of the reason, and the
reason is the holder's (`LockIsHeld`, `ReasonIsGiven`). Once the NMI is sent each
CPU has it pending, is in the handler or has acknowledged, and a CPU that a
meltdown finds has stopped or still has it before it (`NobodyIsForgotten`); the
harmless test is the bootstrap CPU's and over once there is a meltdown
(`TestIsOfBsp`, `NoTestAfterMeltdown`). So when the polls end with answers in
time, the count is full or lacks only answers that were lost (`OnlyLostAcks`),
which takes a hardware NMI, and of a meltdown every other CPU has stopped all the
same. Until the first hardware NMI an NMI is pending or handled only while
somebody polls, and who has acknowledged a meltdown has stopped (`CalmRound`). A
hardware NMI breaks this, and the properties say so (table above).

*Calibration.* While a CPU polls, its APIC timer has counted `RATE` for every
tick since the deadline was chosen, up to `GAP` ticks or until it ran out
(`Measured`), and the deadline is so far from the end of the counter that no
poll can miss it (`DeadlineInReach`).

*Interrupt entry.* The invariant speaks of every activation and not only of the
innermost: which words of the stack are its frame, what they hold at each step
of the stub, wrapper and handler, and that all later activations lie above
(`Framed`). An outer activation is frozen with the step, depth and registers that
the next one found, so that the same formula covers it. Vectors in service
increase from outer to inner activations (`InService`), so that the end of
interrupt, which names no vector, ends the right one. The alignment of the stack
needs an odd number of saved registers (`EntryAssumption`; 15 in the code).

*Regions.* VmAcquireRegion does not refuse a range that overlaps a region; it
looks for the place of its start only. That nothing overlaps follows from where
the callers' ranges are: the invariant says which part of the address space each
region is in (`OthersHaveTheirPlace`), that the head of the device window never
passes the binary (`HeadInWindow`) and that the binary and the frame buffer, of
which the latter may end before it starts, stay the last two (`StaticsAreLast`).
The nodes need an order: `NodesInOrder` says which slots of which page are taken
after `n` acquisitions, the sign extension of `1 << 31` included, and so that no
node is given twice up to the end of the second page.

*Interrupt routing.* A vector is free in the table while it is offered and not
yet set (`Placed`, `Used`), so exclusiveness is about both. Giving up only when
all is full needs that the processors tried so far have no free vector, round the
list from the current one (`Tried`). A pin is unmasked by the first half of its
redirection entry and sends to processor 0 until the second: processor 0 has a
handler for it because every round of the distribution begins with it
(`Covered`, `Round`).

*ACPI tables.* The walk is at a record; what the kernel knows is what the records
before it say (`ProcessorsAreRead`, `IoApicsAreRead`), and as many I/O APICs have
their pins as have been mapped. A record of size 0 is met again and again, which
the invariant excepts (`Stuck`); the walk never gets past it.

*Device tree.* PcieEnumerate goes through the positions in an order (`Before`)
and its cursor is past everything found (`CursorIsAhead`), so no device is in the
chain twice. For the walk, `WalkIsOn` says what the frames of
LocalDevdrivPairAttempt are after the first `m` functions of the chain: the call
for the root visits the root, the PCIe root and the first function, a recursive
call all the others, and the counts of the frames add up to the devices with a
driver. That says for any number of functions how often a node is visited, which
the code's loops and recursion leave open; it also shows that the recursion is
never more than two deep.

*Keyboard.* While bytes of a sequence are to come, the decoder is where those
sent have led it, whichever key of the set they are of (`Decoding`), although
codes of Shift, keypad `*` and Control occur in the sequences of Print Screen and
Pause; and one report is due. For the refinement the ring's contents are the events from the head on, as
many as are counted, the one being popped left out (`Unread`), also when the
interrupt comes between the two steps of HiPopKeyboardEvent. The set-up's
invariant lists where the driver can be with what on the way to and from the
controller: a driver that reads too early can be one byte ahead, and no more
(`Pending`), so the configuration is always written before the keyboard is asked
anything.

*Loader.* Between the steps the key is that of the firmware's map and the copy is
what was got (`KeyIsFresh`), the best mode so far is the largest suitable one
unless one that ends the search was met (`SearchIsRight`), and what Bootelvt has
written is exact after each of its loops (`TablesProgress`).

Only model-checked, and why:

* liveness and everything under fairness (ProtocolsEnd, InterruptsAreServed,
  SetupEnds, ConsoleIsServed, AccessesGetThrough, BootEnds, TimersFire);
* what needs induction over data, because it is computed by a fold or a
  recursive operator: MapIsExact (quicksort and merge), KernelMemoryIsSound (a
  fold over the map), AddressSpaceIsSound (walks and bit fields), FormatIsRight,
  ScreenShowsPaper (the paper is folded over the calls), ToolsAreRight,
  TimersKeepTime (the sum of the queue's delays).

## 5. Plan

Done, in this order: physical memory with its proofs, NMI and bring-up, timers
and calibration, heap, regions, page faults, paging entries, memory map and
direct map, interrupts, drivers, keyboard, text; then interrupt entry, ACPI,
formatting, the loader, the start of the kernel's memory, the image tool and
the routine library; then the proofs about heap, page faults, bring-up, NMI,
calibration and interrupt entry, and the counters and the search of physical
memory; then those about regions, interrupt routing, ACPI tables, the device
tree, the keyboard and its set-up, and the loader.

Next:

1. NMI, bring-up and text as one composition: the shared pCpuIDs, the display
   lock and the meltdown of a time-out.
2. PageFault over Physmemmgmt's PageAllocator instead of its own frame set, and
   the heap under the timer interrupt.
3. Proofs: PTE's encodings as set equations, without the folds; the text output
   with the paper kept line by line.
