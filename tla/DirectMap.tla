----------------------------- MODULE DirectMap -----------------------------
(***************************************************************************)
(* DmapInit.h: construction of the direct map, through which the kernel    *)
(* reaches all usable and ACPI NVS memory at a fixed offset.  Each region  *)
(* is covered with the largest pages that alignment and size allow.  The   *)
(* paging structures come from the bootstrap arena until it is exhausted;  *)
(* after that from pages of Physmemmgmt, which are written through the     *)
(* very map under construction.                                            *)
(*                                                                         *)
(* Addresses are counted in small pages.  PT, PD, PDPT are the numbers of  *)
(* entries of the structures, 512 in the machine.  `mem' holds every       *)
(* structure at its physical page, the PML4 under its own name.            *)
(***************************************************************************)
EXTENDS Integers, Sequences, SequencesExt, FiniteSets, FiniteSetsExt, TLC

CONSTANTS PT, PD, PDPT, PML4,
          NrPages,               \* physical pages
          Machines,              \* [regions: canonical and NVS regions in the
                                 \*  order they are mapped, free: pages Physmemmgmt has,
                                 \*  NumBarenaMaxStructs, bHugePageSupport]
          ArenaBase, Pml4, NoPage

DmapAssumption ==
    /\ {PT, PD, PDPT, PML4, NrPages} \subseteq Nat \ {0}
    /\ NrPages <= PT * PD * PDPT * PML4
    /\ \A m \in Machines : m.NumBarenaMaxStructs \in Nat \ {0} /\ m.bHugePageSupport \in BOOLEAN

VARIABLES machine,                                     \* one of Machines, never changed
          pc, regions, PhysAddrRegion, szRegionSize,   \* the loop
          at, path, size,           \* the structure it is at, the indices still to
                                    \* follow, the size of the page it will enter
          mem, acquired, free       \* structures, their number, free pages

loop == <<machine, regions, PhysAddrRegion, szRegionSize>>
vars == <<loop, pc, at, path, size, mem, acquired, free>>

TWOMIB == PT
ONEGIB == PT * PD
Arena == ArenaBase..(ArenaBase + machine.NumBarenaMaxStructs - 1)

None == [kind |-> "none", at |-> NoPage]
EmptyStruct == [i \in 0..(Max({PT, PD, PDPT, PML4}) - 1) |-> None]

Init == /\ machine \in Machines
        /\ pc = "loop" /\ at = Pml4 /\ path = <<>> /\ size = 0
        /\ regions = machine.regions /\ free = machine.free
        /\ PhysAddrRegion = 0 /\ szRegionSize = 0
        /\ mem = [s \in {Pml4} |-> EmptyStruct]
        /\ acquired = 0

-----------------------------------------------------------------------------
(* The processor's walk through the structures.                            *)

\* KrUnmakeVirtual: the indices of an address of the direct map.
Idx(p) == [PML4 |-> p \div (PT * PD * PDPT),
           PDPT |-> (p \div (PT * PD)) % PDPT,
           PD   |-> (p \div PT) % PD,
           PT   |-> p % PT]

Walk(m, p) ==
    LET i == Idx(p)
        e4 == m[Pml4][i.PML4]
        e3 == m[e4.at][i.PDPT]
        e2 == m[e3.at][i.PD]
        e1 == m[e2.at][i.PT]
    IN  CASE e4.kind = "none" -> NoPage
          [] e4.kind # "none" /\ e3.kind = "none" -> NoPage
          [] e4.kind # "none" /\ e3.kind = "leaf" -> e3.at + (p % ONEGIB)
          [] e4.kind # "none" /\ e3.kind = "table" /\ e2.kind = "none" -> NoPage
          [] e4.kind # "none" /\ e3.kind = "table" /\ e2.kind = "leaf" -> e2.at + (p % TWOMIB)
          [] OTHER -> IF e1.kind = "leaf" THEN e1.at ELSE NoPage

\* KrdmiGetVirtualOfPTE: arena structures are reached through the kernel's
\* own mapping, the others through the direct map.
Reachable(m, s) == s = Pml4 \/ s \in Arena \/ Walk(m, s) = s

-----------------------------------------------------------------------------
(* The loop over the regions. *)

NextRegion == /\ pc = "loop" /\ szRegionSize = 0 /\ regions # <<>>
              /\ PhysAddrRegion' = Head(regions).base
              /\ szRegionSize' = Head(regions).pages
              /\ regions' = Tail(regions)
              /\ UNCHANGED <<machine, pc, at, path, size, mem, acquired, free>>

\* Mutant: a region that is large enough need not be aligned.
FitsUnaligned(n) == szRegionSize >= n

Fits(n) == PhysAddrRegion % n = 0 /\ szRegionSize >= n
HugeFits == machine.bHugePageSupport /\ Fits(ONEGIB)
LargeFits == ~HugeFits /\ Fits(TWOMIB)

Begin(indices, n) == /\ pc' = "descend"
                     /\ at' = Pml4 /\ path' = indices /\ size' = n
                     /\ UNCHANGED <<loop, mem, acquired, free>>

MapHuge == /\ pc = "loop" /\ szRegionSize > 0 /\ HugeFits
           /\ LET i == Idx(PhysAddrRegion) IN Begin(<<i.PML4, i.PDPT>>, ONEGIB)

MapLarge == /\ pc = "loop" /\ szRegionSize > 0 /\ LargeFits
            /\ LET i == Idx(PhysAddrRegion) IN Begin(<<i.PML4, i.PDPT, i.PD>>, TWOMIB)

MapSmall == /\ pc = "loop" /\ szRegionSize > 0 /\ ~HugeFits /\ ~LargeFits
            /\ LET i == Idx(PhysAddrRegion) IN Begin(<<i.PML4, i.PDPT, i.PD, i.PT>>, 1)

Finish == /\ pc = "loop" /\ szRegionSize = 0 /\ regions = <<>>
          /\ pc' = "done"
          /\ UNCHANGED <<loop, at, path, size, mem, acquired, free>>

-----------------------------------------------------------------------------
(* KrdmiGetOrAcquirePageStruct: the structure below the next index.        *)

Descending == pc = "descend" /\ Len(path) > 1
Present == mem[at][Head(path)].kind # "none"

GetPageStruct == /\ Descending /\ Present
                 /\ at' = mem[at][Head(path)].at
                 /\ path' = Tail(path)
                 /\ UNCHANGED <<loop, pc, size, mem, acquired, free>>

\* A zeroed structure s is entered below the current one.
Hang(s) == /\ mem' = (s :> EmptyStruct) @@ [mem EXCEPT ![at][Head(path)] = [kind |-> "table", at |-> s]]
           /\ acquired' = acquired + 1
           /\ at' = s
           /\ path' = Tail(path)

ArenaLasts == acquired < machine.NumBarenaMaxStructs

\* Mutant: every second structure is the one before.
NextInArenaAgain == ArenaBase + (acquired \div 2)

NextInArena == ArenaBase + acquired

AcquireFromArena == /\ Descending /\ ~Present /\ ArenaLasts
                    /\ Hang(NextInArena)
                    /\ UNCHANGED <<loop, pc, size, free>>

\* Mutant: the highest free page.
PickHighest == Max(free)

\* The lowest free page: the search begins at the hint that KrInitMem sets.
PickPage == Min(free)

\* Mutant: the page stays available.
KeepFree(p) == free' = free

ReservePage(p) == free' = free \ {p}

AcquireFromPmm ==
    /\ Descending /\ ~Present /\ ~ArenaLasts
    /\ IF free = {}
       THEN pc' = "oom" /\ UNCHANGED <<at, path, mem, acquired, free>>
       ELSE /\ ReservePage(PickPage)
            /\ IF Reachable(mem, PickPage)
               THEN Hang(PickPage) /\ UNCHANGED pc
               ELSE pc' = "fault" /\ UNCHANGED <<at, path, mem, acquired>>
    /\ UNCHANGED <<loop, size>>

\* Mutant: what was mapped is not taken off the region.
TakeNothing(n) == UNCHANGED <<PhysAddrRegion, szRegionSize>>

TakeOff(n) == /\ PhysAddrRegion' = PhysAddrRegion + n
              /\ szRegionSize' = szRegionSize - n

\* The leaf entry, and what was mapped is taken off the region.
PutLeaf == /\ pc = "descend" /\ Len(path) = 1
           /\ mem' = [mem EXCEPT ![at][Head(path)] = [kind |-> "leaf", at |-> PhysAddrRegion]]
           /\ TakeOff(size)
           /\ pc' = "loop" /\ path' = <<>>
           /\ UNCHANGED <<machine, regions, at, size, acquired, free>>

Next == \/ NextRegion \/ MapHuge \/ MapLarge \/ MapSmall \/ Finish
        \/ GetPageStruct \/ AcquireFromArena \/ AcquireFromPmm \/ PutLeaf

\* The construction is straight-line code of one CPU.
Spec == Init /\ [][Next]_vars /\ WF_vars(Next)

-----------------------------------------------------------------------------
(* Properties. *)

Pages(r) == r.base..(r.base + r.pages - 1)
Covers(map) == UNION {Pages(map[k]) : k \in 1..Len(map)}
Todo == Covers(regions) \cup (PhysAddrRegion..(PhysAddrRegion + szRegionSize - 1))

\* At every point of the construction the direct map translates exactly the
\* pages handled so far, each to itself, whatever mixture of page sizes and
\* wherever the structures live (KrInitDirectMap).
DmapIsExact ==
    \A p \in 0..(NrPages - 1) :
        Walk(mem, p) = IF p \in Covers(machine.regions) \ Todo THEN p ELSE NoPage

\* Every structure has exactly one entry that refers to it, is taken from
\* Physmemmgmt or the arena, and is never free at the same time.
StructsFormATree ==
    /\ acquired = Cardinality(DOMAIN mem) - 1
    /\ DOMAIN mem \cap free = {}
    /\ \A s \in DOMAIN mem \ {Pml4} :
         Cardinality({<<t, i>> \in (DOMAIN mem) \X DOMAIN EmptyStruct :
                        mem[t][i] = [kind |-> "table", at |-> s]}) = 1

\* A structure outside the arena lies in memory that is already mapped:
\* "memory that was justly-mapped is used to store paging structures"
\* (DmapInit.h:18).
EvictedStructsAreMapped == pc # "fault"

\* The construction ends (DmapInit.h:108 argues that it does).
Terminates == <>(pc \in {"done", "oom", "fault"})
=============================================================================
