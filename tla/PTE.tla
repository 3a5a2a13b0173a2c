-------------------------------- MODULE PTE --------------------------------
(***************************************************************************)
(* Page-table entries and the processor state that gives their bits a      *)
(* meaning: PteEncodeEntry and KrMakeFlagsForPTEv2 (PTE.c), KrSelectPat    *)
(* (PAT.c), VmEncodeEntryFor, KrVmmInitCpu and KrInitVirtmemmgmt           *)
(* (Virtmemmgmt.c), KrVmmInitKernelStaticPages (BSmapInit.h), and the      *)
(* trampoline of the application processors (BootstrapAP.s), which loads   *)
(* the same tables under memory-type and no-execute registers of its own.  *)
(*                                                                         *)
(* A quadword is the set of its bits that are one.  Physical addresses are *)
(* sets of bits too; the bits 12, 20, 21 and 30 tell the three page sizes  *)
(* apart.                                                                  *)
(***************************************************************************)
EXTENDS Naturals, FiniteSets, TLC

CONSTANTS
    APs,        \* application processors
    BSP,        \* the bootstrap processor
    HAS_NX,     \* subset of BOOLEAN: the values of hasNx
    HAS_HUGE,   \* CPUID says that there are 1 GiB pages
    FB_ADDRESS, \* physical address of the frame buffer
    Dmap,       \* physical addresses of the pages of the direct map
    Regions     \* [area, Flags] that VmMapStatic or a page fault maps

PteAssumption == HAS_NX \subseteq BOOLEAN /\ HAS_HUGE \in BOOLEAN /\ BSP \notin APs

CPUs == APs \cup {BSP}

VARIABLES
    hasNx,         \* CPUID says that entries may hold the no-execute bit
    pc,            \* step of each processor
    pat,           \* IA32_PAT of each processor: memory type of entries 0..7
    nxe,           \* IA32_EFER.NXE of each processor
    PatMsrState,   \* which entry of the MSR holds a type; <<>> until it is set
    bNoExecuteSupport, bInitialized,
    mapped         \* the entries written: [area, type, addr, cache, bits]

vars == <<hasNx, pc, pat, nxe, PatMsrState, bNoExecuteSupport, bInitialized, mapped>>

P == 0   W == 1   U == 2   PWT == 3   PCD == 4
PS == 7  PAT == 7 \* of a PT entry
G == 8   NONPT_PAT == 12   NX == 63
AddressBits == 12..51

-----------------------------------------------------------------------------
(***************************************************************************)
(* Encoding.                                                               *)
(***************************************************************************)
LargeTypes == {"PD2MB", "PDP1GB"}
LeafTypes == LargeTypes \cup {"PT"}

KrGetParentPteType(t) ==
    CASE t = "PML4" -> "INVALID"
      [] t \in {"PDP1GB", "PDPT"} -> "PML4"
      [] t \in {"PD2MB", "PD"} -> "PDPT"
      [] t = "PT" -> "PD"

\* Number of address bits that have to be zero.
\* Mutant: the alignments of the two large pages are swapped.
AlignmentsSwapped(t) == CASE t = "PDP1GB" -> 21 [] t = "PD2MB" -> 30 [] OTHER -> 12
KrGetPteTypeAlignment(t) == CASE t = "PDP1GB" -> 30 [] t = "PD2MB" -> 21 [] OTHER -> 12

\* The memory types of IA32_PAT as KrVmmInitCpu, and as the boot code of both
\* kinds of processors, write them.
KrnlPat == (0 :> "WB") @@ (1 :> "WT") @@ (2 :> "UC-") @@ (3 :> "UC")
        @@ (4 :> "WC") @@ (5 :> "WP") @@ (6 :> "UC-") @@ (7 :> "UC")
\* Mutant: entry 4 keeps its reset value on the application processors.
ResetPat == (0 :> "WB") @@ (1 :> "WT") @@ (2 :> "UC-") @@ (3 :> "UC")
        @@ (4 :> "WB") @@ (5 :> "WT") @@ (6 :> "UC-") @@ (7 :> "UC")
BootPat == (0 :> "WB") @@ (1 :> "WT") @@ (2 :> "UC-") @@ (3 :> "UC")
        @@ (4 :> "WC") @@ (5 :> "WT") @@ (6 :> "UC-") @@ (7 :> "UC")

\* PA_UC .. PA_UCM
PaFields == ("UC" :> 3) @@ ("WC" :> 4) @@ ("WT" :> 1) @@ ("WP" :> 5) @@ ("WB" :> 0) @@ ("UC-" :> 2)

\* KrSelectPat: the three selector bits that make up the index of the entry.
KrSelectPat(type) ==
    LET n == PatMsrState[type]
    IN [PWT |-> n % 2 = 1, PCD |-> (n \div 2) % 2 = 1, PAT |-> n \div 4 = 1]

\* Mutant: the PAT bit of every page is put where that of a large one is.
FlagsWithOnePat(t, base, psl) ==
    (base \ {PWT, PCD, PS, NONPT_PAT})
    \cup (IF psl.PWT THEN {PWT} ELSE {}) \cup (IF psl.PCD THEN {PCD} ELSE {})
    \cup (IF psl.PAT THEN {NONPT_PAT} ELSE {}) \cup (IF t \in LargeTypes THEN {PS} ELSE {})
KrMakeFlagsForPTEv2(t, base, psl) ==
    (base \ {PWT, PCD, PS, NONPT_PAT})
    \cup (IF t \in LargeTypes THEN {PS} ELSE {})
    \cup (IF psl.PWT THEN {PWT} ELSE {}) \cup (IF psl.PCD THEN {PCD} ELSE {})
    \cup (IF psl.PAT /\ t \in LargeTypes THEN {NONPT_PAT} ELSE {})
    \cup (IF psl.PAT /\ t = "PT" THEN {PAT} ELSE {})

FAILURE == 0..63

\* Mutant: the no-execute bit is always kept.
KeepNx(base) == base
SupportedFlags(base) == IF bInitialized /\ ~bNoExecuteSupport THEN base \ {NX} ELSE base

PteEncodeEntry(t, addr, base, psl) ==
    IF \E b \in addr : b < KrGetPteTypeAlignment(t)
    THEN FAILURE
    ELSE KrMakeFlagsForPTEv2(t, SupportedFlags(base), psl) \cup addr

Entry(area, t, addr, cache, base) ==
    [area |-> area, type |-> t, addr |-> addr, cache |-> cache,
     bits |-> PteEncodeEntry(t, addr, base, KrSelectPat(cache))]

-----------------------------------------------------------------------------
(***************************************************************************)
(* KrInitVirtmemmgmt on the bootstrap processor.  It comes from the boot   *)
(* code with that code's memory types and without no-execute pages.        *)
(***************************************************************************)
Init ==
    /\ hasNx \in HAS_NX
    /\ pc = [c \in CPUs |-> IF c = BSP THEN "elevated" ELSE "off"]
    /\ pat = [c \in CPUs |-> IF c = BSP THEN BootPat ELSE ResetPat]
    /\ nxe = [c \in CPUs |-> FALSE]
    /\ PatMsrState = <<>> /\ bNoExecuteSupport = FALSE /\ bInitialized = FALSE
    /\ mapped = {}

Goto(c, from, to) == pc[c] = from /\ pc' = [pc EXCEPT ![c] = to]

KrVmmInitCpu ==
    /\ Goto(BSP, "elevated", "cpu")
    /\ bNoExecuteSupport' = hasNx
    /\ nxe' = [nxe EXCEPT ![BSP] = hasNx]
    /\ PatMsrState' = PaFields
    /\ pat' = [pat EXCEPT ![BSP] = KrnlPat]
    /\ UNCHANGED <<hasNx, bInitialized, mapped>>

\* The kernel's binary and the frame buffer, in large pages, and CR3.  The
\* tables are in the kernel's own image; their addresses do not matter.
KrVmmInitKernelStaticPages ==
    /\ Goto(BSP, "cpu", "static")
    /\ mapped' = {Entry("kernel", t, {21}, "WB", {P, W}) : t \in {"PML4", "PDPT", "PD2MB"}}
            \cup {Entry("frame buffer", t, {21}, "WB", {P, W}) : t \in {"PML4", "PDPT"}}
            \cup {Entry("frame buffer", "PD2MB", FB_ADDRESS, "WC", {P, W, NX})}
    /\ UNCHANGED <<hasNx, pat, nxe, PatMsrState, bNoExecuteSupport, bInitialized>>

\* KrInitDirectMap: the largest page the address and the processor allow, below
\* structures that are not executable either.
DmapType(addr) ==
    IF HAS_HUGE /\ \A b \in addr : b >= 30 THEN "PDP1GB"
    ELSE IF \A b \in addr : b >= 21 THEN "PD2MB" ELSE "PT"

Ancestors(t) ==
    LET p == KrGetParentPteType(t)
        pp == IF p = "PML4" THEN p ELSE KrGetParentPteType(p)
        ppp == IF pp = "PML4" THEN pp ELSE KrGetParentPteType(pp)
    IN {p, pp, ppp}

KrInitDirectMap ==
    /\ Goto(BSP, "static", "dmap")
    /\ mapped' = mapped
          \cup {Entry("dmap", DmapType(a), a, "WB", {P, W, NX}) : a \in Dmap}
          \cup {Entry("dmap", t, {12}, "WB", {P, W, NX}) :
                  t \in UNION {Ancestors(DmapType(a)) : a \in Dmap}}
    /\ UNCHANGED <<hasNx, pat, nxe, PatMsrState, bNoExecuteSupport, bInitialized>>

SetInitialized ==
    /\ Goto(BSP, "dmap", "kernel")
    /\ bInitialized' = TRUE
    /\ UNCHANGED <<hasNx, pat, nxe, PatMsrState, bNoExecuteSupport, mapped>>

-----------------------------------------------------------------------------
(***************************************************************************)
(* Regions: the heap, devices and the low identity map.                    *)
(***************************************************************************)
CachingProtocol(flags) == CASE "UC" \in flags -> "UC" [] "WC" \in flags -> "WC" [] OTHER -> "WB"

\* Mutant: the meaning of the execute flag is turned round.
ExecMeansNx(r) ==
    {P, G} \cup (IF "WRITABLE" \in r.Flags THEN {W} ELSE {})
           \cup (IF "ALLOW_CODE_EXEC" \in r.Flags THEN {NX} ELSE {})
LeafFlags(r) ==
    {P, G} \cup (IF "WRITABLE" \in r.Flags THEN {W} ELSE {})
           \cup (IF "ALLOW_CODE_EXEC" \notin r.Flags THEN {NX} ELSE {})

VmEncodeEntryFor(r, t, addr) == Entry(r.area, t, addr, CachingProtocol(r.Flags), LeafFlags(r))

\* The structures PteGetOrAcquirePageStruct adds, and the page.
MapRegion(r) ==
    /\ pc[BSP] \in {"kernel", "smp"} /\ ~\E e \in mapped : e.area = r.area
    /\ \E a \in {{12}, {20, 30}} :
          mapped' = mapped \cup {VmEncodeEntryFor(r, "PT", a)}
                           \cup {Entry(r.area, t, {12}, "WB", {P, W}) : t \in Ancestors("PT")}
    /\ UNCHANGED <<hasNx, pc, pat, nxe, PatMsrState, bNoExecuteSupport, bInitialized>>

IsMapped(area) == \E e \in mapped : e.area = area

\* KrInitSMP starts the others once the low map and their stacks are there.
StartAPs ==
    /\ pc[BSP] = "kernel" /\ IsMapped("low map") /\ IsMapped("heap")
    /\ pc' = [c \in CPUs |-> IF c = BSP THEN "smp" ELSE "real mode"]
    /\ UNCHANGED <<hasNx, pat, nxe, PatMsrState, bNoExecuteSupport, bInitialized, mapped>>

-----------------------------------------------------------------------------
(***************************************************************************)
(* The trampoline of an application processor, up to its first C function. *)
(***************************************************************************)
SetPat(c) ==
    /\ Goto(c, "real mode", "pat")
    /\ pat' = [pat EXCEPT ![c] = BootPat]
    /\ UNCHANGED <<hasNx, nxe, PatMsrState, bNoExecuteSupport, bInitialized, mapped>>

\* PE, WP and PG, with the kernel's tables; the far return reads the stack and
\* the copy of the descriptors in low memory.
EnablePaging(c) ==
    /\ Goto(c, "pat", "paging")
    /\ UNCHANGED <<hasNx, pat, nxe, PatMsrState, bNoExecuteSupport, bInitialized, mapped>>

\* LmEntry: CPUID and EFER.
\* Mutant: the processor goes on without the no-execute bit.
SkipNX(c) ==
    /\ Goto(c, "paging", "stack")
    /\ UNCHANGED <<hasNx, pat, nxe, PatMsrState, bNoExecuteSupport, bInitialized, mapped>>
EnableNX(c) ==
    /\ Goto(c, "paging", "stack")
    /\ nxe' = [nxe EXCEPT ![c] = hasNx]
    /\ UNCHANGED <<hasNx, pat, PatMsrState, bNoExecuteSupport, bInitialized, mapped>>

\* The stack of the processor from the kernel's table, and the jump.
EnterKernel(c) ==
    /\ Goto(c, "stack", "kernel")
    /\ UNCHANGED <<hasNx, pat, nxe, PatMsrState, bNoExecuteSupport, bInitialized, mapped>>

Bootstrap == KrVmmInitCpu \/ KrVmmInitKernelStaticPages \/ KrInitDirectMap \/ SetInitialized
Trampoline(c) == SetPat(c) \/ EnablePaging(c) \/ EnableNX(c) \/ EnterKernel(c)

Next ==
    \/ Bootstrap
    \/ \E r \in Regions : MapRegion(r)
    \/ StartAPs
    \/ \E c \in APs : Trampoline(c)

Spec == Init /\ [][Next]_vars

-----------------------------------------------------------------------------
(***************************************************************************)
(* What the hardware makes of an entry.                                    *)
(***************************************************************************)
Translating(c) == pc[c] \in {"static", "dmap", "kernel", "smp", "paging", "stack"}

Leaves == {e \in mapped : e.type \in LeafTypes}

PatBit(e) == IF e.type = "PT" THEN PAT ELSE NONPT_PAT

PatIndex(e) == (IF PWT \in e.bits THEN 1 ELSE 0) + (IF PCD \in e.bits THEN 2 ELSE 0)
             + (IF PatBit(e) \in e.bits THEN 4 ELSE 0)

\* A large page's entry has its PAT bit below the bits of the address.
HardwareAddress(e) == {b \in e.bits \cap AddressBits : b >= KrGetPteTypeAlignment(e.type)}

\* Areas a processor reads or writes in a step, and those it fetches from.
Touches(c) ==
    CASE pc[c] = "paging" -> {"low map"}
      [] pc[c] = "stack" -> {"low map", "kernel"}
      [] pc[c] = "kernel" /\ c # BSP -> {"kernel", "heap", "frame buffer"}
      [] pc[c] = "static" -> {"kernel", "frame buffer"}
      [] OTHER -> {"kernel", "frame buffer", "dmap"} \cup {e.area : e \in mapped}
Fetches(c) == IF pc[c] \in {"paging", "stack"} THEN "low map" ELSE "kernel"

\* No encoding fails: the caller never stores the failure value, all ones, as an
\* entry, and NumIvldEncodeOfPTEs stays zero.
TypeOK ==
    /\ pat \in [CPUs -> {BootPat, ResetPat, KrnlPat}] /\ nxe \in [CPUs -> BOOLEAN]
    /\ bNoExecuteSupport \in BOOLEAN /\ bInitialized \in BOOLEAN
    /\ \A e \in mapped : e.bits \in SUBSET (0..63) \ {FAILURE}

\* Every page has the memory type its creator asked KrSelectPat for, on every
\* processor that translates with it: the selector bits, where they are in an
\* entry of its size, and the PAT of that processor fit together.
CachingIsAsRequested ==
    \A c \in CPUs : Translating(c) => \A e \in Leaves : pat[c][PatIndex(e)] = e.cache

\* The flags of an entry never run into its address: the hardware finds the
\* address that was encoded, and follows the page-size bit to an entry of its kind.
TranslationIsExact ==
    \A e \in mapped :
        /\ HardwareAddress(e) = e.addr
        /\ e.type \notin {"PT", "PML4"} => (PS \in e.bits <=> e.type \in LargeTypes)

\* No processor takes a fault on its way into the kernel: whatever it touches is
\* mapped, with no bit that is reserved while its EFER.NXE is clear, and what it
\* executes is executable.  A processor without no-execute pages is given entries
\* with that bit, so that the second part is about the others.
EveryStepIsMapped ==
    \A c \in CPUs : Translating(c) =>
        /\ \A a \in Touches(c) :
              /\ IsMapped(a)
              /\ \A e \in mapped : e.area = a => P \in e.bits /\ (hasNx /\ NX \in e.bits => nxe[c])
        /\ \A e \in mapped : e.area = Fetches(c) => NX \notin e.bits

\* A region's page can be written and executed exactly if the flags of the region
\* say so, except that a processor without no-execute pages executes any of them.
RightsAreAsRequested ==
    \A r \in Regions, e \in Leaves : e.area = r.area =>
        /\ W \in e.bits <=> "WRITABLE" \in r.Flags
        /\ NX \in e.bits <=> hasNx /\ "ALLOW_CODE_EXEC" \notin r.Flags

\* BootstrapAP.s 55: "THIS SECTION HAS BEEN COPIED OVER FROM Boot/Bootelvt.asm
\* AS-IS TO KEEP IN ACCORDANCE WITH THE BSP": in the kernel, an application
\* processor has the memory types of the bootstrap processor.
PatsAreInAccordance == \A c \in APs : pc[c] = "kernel" => pat[c] = pat[BSP]

\* PTE.h 38: "Mask the entirety of any entry with this to get its physical address."
MaskGivesAddress == \A e \in mapped : e.bits \cap AddressBits = e.addr

\* Virtmemmgmt.c 422: bNoExecuteSupport is "Used by encode PTE functions": no
\* entry holds the bit on a processor that does not know it.
NxOnlyIfSupported == \A e \in mapped : NX \in e.bits => hasNx
=============================================================================
