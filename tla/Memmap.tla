------------------------------- MODULE Memmap -------------------------------
(***************************************************************************)
(* KrInitMemmap.c: the firmware's memory map is sorted by base address     *)
(* with a quicksort, and neighbouring usable regions are merged into the   *)
(* canonical memory map that Physmemmgmt and the direct map work from.     *)
(*                                                                         *)
(* A descriptor is [base, pages, usable], addresses counted in pages; the  *)
(* array is a sequence, and positions are the code's indices plus one.     *)
(* UINT arithmetic wraps: a limit of 0 - 1 is UINT_MAX, with which the     *)
(* partition reads far outside the array; `overrun' records it.            *)
(***************************************************************************)
EXTENDS Naturals, Sequences, SequencesExt, FiniteSets, FiniteSetsExt

CONSTANTS Maps,         \* the memory maps the firmware may deliver
          UINT_MAX      \* larger than any index of a map

VARIABLES pc, FirmwareMap, MemoryMap, CanonicalMemoryMap, overrun

vars == <<pc, FirmwareMap, MemoryMap, CanonicalMemoryMap, overrun>>

Init == /\ pc = "copy"
        /\ FirmwareMap \in Maps
        /\ MemoryMap = <<>> /\ CanonicalMemoryMap = <<>>
        /\ overrun = FALSE

-----------------------------------------------------------------------------
(* The sort. *)

Swap(a, i, j) == [a EXCEPT ![i + 1] = a[j + 1], ![j + 1] = a[i + 1]]

\* Mutant: the pivot is not swapped to its place.
PartKeepsPivot(a, Start, Limit) ==
    LET pivot == a[Limit + 1].base
        Visit(s, j) == IF s.a[j + 1].base < pivot
                       THEN [a |-> Swap(s.a, s.n, j), n |-> s.n + 1]
                       ELSE s
        all == FoldLeft(Visit, [a |-> a, n |-> Start], [k \in 1..(Limit - Start) |-> Start + k - 1])
    IN  [a |-> all.a, pi |-> all.n]

\* Mutant: the comparison is turned round.
PartDescending(a, Start, Limit) ==
    LET pivot == a[Limit + 1].base
        Visit(s, j) == IF s.a[j + 1].base > pivot
                       THEN [a |-> Swap(s.a, s.n, j), n |-> s.n + 1]
                       ELSE s
        all == FoldLeft(Visit, [a |-> a, n |-> Start], [k \in 1..(Limit - Start) |-> Start + k - 1])
    IN  [a |-> Swap(all.a, all.n, Limit), pi |-> all.n]

\* KrPartDescarray: n is the code's i + 1, the number of the slot that the
\* next smaller element goes to.
KrPartDescarray(a, Start, Limit) ==
    LET pivot == a[Limit + 1].base
        Visit(s, j) == IF s.a[j + 1].base < pivot
                       THEN [a |-> Swap(s.a, s.n, j), n |-> s.n + 1]
                       ELSE s
        all == FoldLeft(Visit, [a |-> a, n |-> Start], [k \in 1..(Limit - Start) |-> Start + k - 1])
    IN  [a |-> Swap(all.a, all.n, Limit), pi |-> all.n]

Less1(n) == IF n = 0 THEN UINT_MAX ELSE n - 1

\* The smaller side is sorted by a recursive call, the loop goes on with the
\* other.  s is [a, bad].
RECURSIVE KrQuicksortMemmap(_, _, _)
KrQuicksortMemmap(s, Start, Limit) ==
    IF s.bad \/ Start >= Limit THEN s
    ELSE IF Limit = UINT_MAX THEN [s EXCEPT !.bad = TRUE]
    ELSE LET p == KrPartDescarray(s.a, Start, Limit)
             t == [s EXCEPT !.a = p.a]
         IN  IF p.pi - Start < Limit - p.pi
             THEN KrQuicksortMemmap(KrQuicksortMemmap(t, Start, Less1(p.pi)), p.pi + 1, Limit)
             ELSE KrQuicksortMemmap(KrQuicksortMemmap(t, p.pi + 1, Limit), Start, Less1(p.pi))

CopyAndSort ==
    LET sorted == KrQuicksortMemmap([a |-> FirmwareMap, bad |-> FALSE], 0, Less1(Len(FirmwareMap)))
    IN  /\ pc = "copy"
        /\ MemoryMap' = sorted.a
        /\ overrun' = sorted.bad
        /\ pc' = IF sorted.bad THEN "lost" ELSE "merge"
        /\ UNCHANGED <<FirmwareMap, CanonicalMemoryMap>>

-----------------------------------------------------------------------------
(* The merge. *)

\* Mutant: regions are merged without looking at their addresses.
StacksAnyUsable(i, j) == \A k \in (i + 1)..j : MemoryMap[k].usable

\* Entries i+1..j are usable and each begins where the one before ends.
Stacks(i, j) ==
    \A k \in (i + 1)..j :
        /\ MemoryMap[k].usable
        /\ MemoryMap[k - 1].base + MemoryMap[k - 1].pages = MemoryMap[k].base

Canonical(i, j) == [base |-> MemoryMap[i].base,
                    pages |-> FoldFunction(LAMBDA d, n : d.pages + n, 0, SubSeq(MemoryMap, i, j)),
                    usable |-> TRUE]

RECURSIVE MergeFrom(_)
MergeFrom(i) ==
    IF i > Len(MemoryMap) THEN <<>>
    ELSE IF ~MemoryMap[i].usable THEN MergeFrom(i + 1)
    ELSE LET j == Max({k \in i..Len(MemoryMap) : Stacks(i, k)})
         IN  <<Canonical(i, j)>> \o MergeFrom(j + 1)

BuildCanonical == /\ pc = "merge"
                  /\ CanonicalMemoryMap' = MergeFrom(1)
                  /\ pc' = "done"
                  /\ UNCHANGED <<FirmwareMap, MemoryMap, overrun>>

Next == CopyAndSort \/ BuildCanonical

Spec == Init /\ [][Next]_vars

-----------------------------------------------------------------------------
(* Properties. *)

Pages(d) == d.base..(d.base + d.pages - 1)
UsablePages(map) == UNION {Pages(map[i]) : i \in {i \in 1..Len(map) : map[i].usable}}

\* The sort neither loses nor invents a descriptor (KrQuicksortMemmap), and
\* leaves them in ascending order.
SortIsExact ==
    pc \in {"merge", "done"} =>
        /\ \A d \in ToSet(FirmwareMap) \cup ToSet(MemoryMap) :
             Cardinality({i \in DOMAIN FirmwareMap : FirmwareMap[i] = d})
               = Cardinality({i \in DOMAIN MemoryMap : MemoryMap[i] = d})
        /\ \A i \in 1..(Len(MemoryMap) - 1) : MemoryMap[i].base <= MemoryMap[i + 1].base

\* The canonical map holds exactly the pages of the usable regions, in
\* disjoint regions of ascending address with a gap between any two: what
\* Physmemmgmt's bitmap and the direct map's choice of page sizes rely on.
CanonicalIsExact ==
    pc = "done" =>
        /\ UsablePages(CanonicalMemoryMap) = UsablePages(FirmwareMap)
        /\ \A i \in 1..(Len(CanonicalMemoryMap) - 1) :
             CanonicalMemoryMap[i].base + CanonicalMemoryMap[i].pages < CanonicalMemoryMap[i + 1].base

\* A map that ascends already, as firmware usually delivers it, is sorted
\* inside the array, although the limits are unsigned and reach 0 - 1.
AscendingMapIsSafe ==
    overrun => \E i \in 1..(Len(FirmwareMap) - 1) : FirmwareMap[i].base > FirmwareMap[i + 1].base
=============================================================================
