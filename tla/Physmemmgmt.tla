---------------------------- MODULE Physmemmgmt ----------------------------
(***************************************************************************)
(* The physical memory manager (Kernel/Source/Memory/Physmemmgmt.c) after   *)
(* KrInitPhysmemmgmt, called from several CPUs.  The two bitmaps are sets   *)
(* of page IDs.  The search loop of PmAcquirePages is one step per page, so *)
(* that the functions that do not take sg_PmSpinlock interleave with it.    *)
(* A CPU relinquishes and reserves only pages that it holds.                *)
(***************************************************************************)
EXTENDS Integers, Sequences, FiniteSets, Functions

CONSTANTS
  Cpus,         \* the processors
  NoCpu,        \* value of a free lock
  NrPages,      \* g_StatePMM.Private.NrPages
  ByteBits,     \* pages per bitmap byte (8 in the code)
  FreeAtBoot,   \* pages left free by KrInitPhysmemmgmt
  InitialHint,  \* AcquireHint left by KrInitPhysmemmgmt
  IVLDPGID,     \* the invalid page ID
  Requests,     \* argument records [n, flags, hint] passed to PmAcquirePages
  Reservers,    \* CPUs that call KrReservePhysicalPage
  HintSetters   \* CPUs that call KrSetPhysicalPageAcquisitionHint

Pages      == 0 .. NrPages - 1
BitmapSize == (NrPages + ByteBits - 1) \div ByteBits
BitmapEnd  == BitmapSize * ByteBits          \* one past the last bit
Bits       == 0 .. BitmapEnd - 1

ASSUME PmmAssumption ==
  /\ NrPages \in Nat \ {0} /\ ByteBits \in Nat \ {0}
  /\ FreeAtBoot \subseteq Pages
  /\ InitialHint \in Pages
  /\ IVLDPGID \in Nat /\ IVLDPGID > BitmapEnd
  /\ NoCpu \notin Cpus
  /\ Reservers \subseteq Cpus /\ HintSetters \subseteq Cpus
  /\ Requests \subseteq [n : Nat,
                         flags : SUBSET {"SPARSE", "DENSE", "BASE_OUT_ONLY"},
                         hint : Pages \cup {IVLDPGID}]
  /\ \A r \in Requests : "BASE_OUT_ONLY" \in r.flags => "DENSE" \in r.flags

VARIABLES
  lock,           \* sg_PmSpinlock: NoCpu or the CPU that holds it
  primary,        \* pPrimaryBitmap: the set bits (page acquired)
  advisory,       \* pAdvisoryBitmap: the set bits (page reserved)
  AcquireHint,
  AcquiredPages,
  UnusablePages,  \* counted from its value after KrInitPhysmemmgmt
  pc,             \* where each CPU is
  req,            \* arguments of the PmAcquirePages call in progress
  PageID,         \* local PageID: search position, or the argument page
  start,          \* local InitialSearchID
  bIsReroll,
  out,            \* pOutIDs[0 .. uNoAcquired - 1]
  byte,           \* advisory byte loaded by KrReservePhysicalPage
  count,          \* UnusablePages loaded by KrReservePhysicalPage
  held            \* history: pages each CPU was given and has not given back

shared == <<primary, advisory, AcquireHint, AcquiredPages, UnusablePages>>
search == <<req, start, bIsReroll, out>>
vars   == <<lock, shared, pc, PageID, search, byte, count, held>>

NoRequest == [n |-> 0, flags |-> {}, hint |-> IVLDPGID]

KrIsValidPageID(p) == p # IVLDPGID /\ p < NrPages

KrIsPhysicalPageReserved(p) == KrIsValidPageID(p) /\ p \in advisory

ByteOf(p) == {q \in Bits : q \div ByteBits = p \div ByteBits}

Init ==
  /\ lock = NoCpu
  /\ primary = Bits \ FreeAtBoot
  /\ advisory = Bits \ FreeAtBoot
  /\ AcquireHint = InitialHint
  /\ AcquiredPages = 0
  /\ UnusablePages = 0
  /\ pc = [c \in Cpus |-> "idle"]
  /\ req = [c \in Cpus |-> NoRequest]
  /\ PageID = [c \in Cpus |-> 0]
  /\ start = [c \in Cpus |-> 0]
  /\ bIsReroll = [c \in Cpus |-> FALSE]
  /\ out = [c \in Cpus |-> <<>>]
  /\ byte = [c \in Cpus |-> {}]
  /\ count = [c \in Cpus |-> 0]
  /\ held = [c \in Cpus |-> {}]

Goto(c, from, to) == pc[c] = from /\ pc' = [pc EXCEPT ![c] = to]

(* Wrong variant: the lock is taken without waiting for it. *)
GrabSpinlock(c) == lock' = c

AcquireOrWaitSpinlock(c) == lock = NoCpu /\ lock' = c

RelinquishSpinlock(c) == lock' = NoCpu
----------------------------------------------------------------------------
(* PmAcquirePages *)

Rejected(r) == \/ r.n = 0
               \/ {"SPARSE", "DENSE"} \subseteq r.flags
               \/ {"SPARSE", "BASE_OUT_ONLY"} \subseteq r.flags

(* The argument checks: a rejected call returns 0 and changes nothing. *)
AcquireCall(c) ==
  /\ Goto(c, "idle", "acqLock")
  /\ \E r \in Requests : ~Rejected(r) /\ req' = [req EXCEPT ![c] = r]
  /\ UNCHANGED <<lock, shared, PageID, start, bIsReroll, out, byte, count, held>>

SearchStart(c) ==
  IF req[c].hint # IVLDPGID THEN req[c].hint
  ELSE IF AcquireHint = IVLDPGID THEN 0 ELSE AcquireHint

AcquireLock(c) ==
  /\ AcquireOrWaitSpinlock(c)
  /\ Goto(c, "acqLock", IF KrIsValidPageID(SearchStart(c)) THEN "hunt" ELSE "error")
  /\ PageID' = [PageID EXCEPT ![c] = SearchStart(c)]
  /\ start' = [start EXCEPT ![c] = SearchStart(c)]
  /\ UNCHANGED <<shared, req, bIsReroll, out, byte, count, held>>

(* Wrong variant: only reserved pages are unavailable. *)
ReservedOnly(p) == KrIsPhysicalPageReserved(p)

Unavailable(p) == p \in primary \/ KrIsPhysicalPageReserved(p)

(* Wrong variant: the scan goes one bit past the bitmap. *)
HuntOverLate(c) ==
  \/ Len(out[c]) >= req[c].n
  \/ PageID[c] > BitmapEnd
  \/ bIsReroll[c] /\ PageID[c] % ByteBits = 0 /\ PageID[c] >= start[c]

(* The guards of the two loops; the outer one is evaluated once a byte.    *)
HuntOver(c) ==
  \/ Len(out[c]) >= req[c].n
  \/ PageID[c] >= BitmapEnd
  \/ bIsReroll[c] /\ PageID[c] % ByteBits = 0 /\ PageID[c] >= start[c]

(* Wrong variant: an unavailable page does not end a dense streak. *)
HuntPageKeepStreak(c) ==
  /\ pc[c] = "hunt" /\ ~HuntOver(c)
  /\ out' = [out EXCEPT ![c] = IF ~Unavailable(PageID[c]) THEN Append(@, PageID[c]) ELSE @]
  /\ PageID' = [PageID EXCEPT ![c] = @ + 1]
  /\ UNCHANGED <<lock, shared, pc, req, start, bIsReroll, byte, count, held>>

HuntPage(c) ==
  /\ pc[c] = "hunt" /\ ~HuntOver(c)
  /\ out' = [out EXCEPT ![c] =
               IF ~Unavailable(PageID[c]) THEN Append(@, PageID[c])
               ELSE IF "DENSE" \in req[c].flags THEN <<>> ELSE @]
  /\ PageID' = [PageID EXCEPT ![c] = @ + 1]
  /\ UNCHANGED <<lock, shared, pc, req, start, bIsReroll, byte, count, held>>

(* Wrong variant: the skipped area is never searched. *)
NeverReroll(c) == FALSE
(* Wrong variant: the search wraps around again and again. *)
AlwaysReroll(c) == start[c] # 0 /\ Len(out[c]) < req[c].n

MustReroll(c) == ~bIsReroll[c] /\ start[c] # 0 /\ Len(out[c]) < req[c].n

(* Wraparound: search the area before the start, once; a DENSE streak is   *)
(* dropped.                                                                *)
HuntReroll(c) ==
  /\ pc[c] = "hunt" /\ HuntOver(c) /\ MustReroll(c)
  /\ out' = [out EXCEPT ![c] = IF "DENSE" \in req[c].flags THEN <<>> ELSE @]
  /\ PageID' = [PageID EXCEPT ![c] = 0]
  /\ bIsReroll' = [bIsReroll EXCEPT ![c] = TRUE]
  /\ UNCHANGED <<lock, shared, pc, req, start, byte, count, held>>

HuntFailed(c) ==
  /\ HuntOver(c) /\ ~MustReroll(c) /\ out[c] = <<>>
  /\ Goto(c, "hunt", "error")
  /\ UNCHANGED <<lock, shared, PageID, search, byte, count, held>>

(* Wrong variant: one page too many is marked. *)
SetOneMore(idStart, N) ==
  IF idStart + N > NrPages THEN {} ELSE idStart .. idStart + N

(* KrSetPhysicalPageStatus marks nothing when the range ends past NrPages. *)
KrSetPhysicalPageStatus(idStart, N) ==
  IF idStart + N > NrPages THEN {} ELSE idStart .. idStart + N - 1

(* The pages marked by the claim: the whole range for DENSE.  Otherwise    *)
(* the code marks two neighbours at a time where it can, which marks the   *)
(* same pages, since no ID in pOutIDs is past NrPages (TypeOK).            *)
ClaimedRange(flags, s) ==
  IF "DENSE" \in flags
  THEN KrSetPhysicalPageStatus(s[1], Len(s))
  ELSE UNION {KrSetPhysicalPageStatus(s[i], 1) : i \in DOMAIN s}

(* Wrong variant: a partial dense result is counted in full. *)
ClaimCountsRequest(c) ==
  /\ HuntOver(c) /\ ~MustReroll(c) /\ out[c] # <<>>
  /\ Goto(c, "hunt", "return")
  /\ primary' = primary \cup ClaimedRange(req[c].flags, out[c])
  /\ AcquiredPages' = AcquiredPages + req[c].n
  /\ AcquireHint' = out[c][Len(out[c])] + 1
  /\ UNCHANGED <<lock, advisory, UnusablePages, PageID, search, byte, count, held>>

Claim(c) ==
  /\ HuntOver(c) /\ ~MustReroll(c) /\ out[c] # <<>>
  /\ Goto(c, "hunt", "return")
  /\ primary' = primary \cup ClaimedRange(req[c].flags, out[c])
  /\ AcquiredPages' = AcquiredPages + Len(out[c])
  /\ AcquireHint' = out[c][Len(out[c])] + 1
  /\ UNCHANGED <<lock, advisory, UnusablePages, PageID, search, byte, count, held>>

ForgetSearch(c) ==
  /\ req' = [req EXCEPT ![c] = NoRequest]
  /\ PageID' = [PageID EXCEPT ![c] = 0]
  /\ start' = [start EXCEPT ![c] = 0]
  /\ bIsReroll' = [bIsReroll EXCEPT ![c] = FALSE]
  /\ out' = [out EXCEPT ![c] = <<>>]

AcquireReturn(c) ==
  /\ Goto(c, "return", "idle")
  /\ RelinquishSpinlock(c)
  /\ held' = [held EXCEPT ![c] = @ \cup Range(out[c])]
  /\ ForgetSearch(c)
  /\ UNCHANGED <<shared, byte, count>>

ErrorOut(c) ==
  /\ Goto(c, "error", "idle")
  /\ RelinquishSpinlock(c)
  /\ ForgetSearch(c)
  /\ UNCHANGED <<shared, byte, count, held>>
----------------------------------------------------------------------------
(* PmRelinquishPage *)

(* Wrong variant: reserved pages are relinquished too. *)
RelinquishAny(c) ==
  /\ Goto(c, "idle", "relLock")
  /\ \E p \in held[c] : PageID' = [PageID EXCEPT ![c] = p]
  /\ UNCHANGED <<lock, shared, search, byte, count, held>>

(* The test for a reserved page is made before the lock is taken; when it  *)
(* is reserved the call returns FALSE and changes nothing.                 *)
RelinquishCall(c) ==
  /\ Goto(c, "idle", "relLock")
  /\ \E p \in held[c] :
        /\ ~KrIsPhysicalPageReserved(p)
        /\ PageID' = [PageID EXCEPT ![c] = p]
  /\ UNCHANGED <<lock, shared, search, byte, count, held>>

RelinquishLock(c) ==
  /\ Goto(c, "relLock", "relClear")
  /\ AcquireOrWaitSpinlock(c)
  /\ UNCHANGED <<shared, PageID, search, byte, count, held>>

RelinquishClear(c) ==
  /\ Goto(c, "relClear", "relReturn")
  /\ \/ /\ PageID[c] \in primary
        /\ primary' = primary \ {PageID[c]}
        /\ AcquiredPages' = AcquiredPages - 1
        /\ held' = [held EXCEPT ![c] = @ \ {PageID[c]}]
     \/ /\ PageID[c] \notin primary
        /\ UNCHANGED <<primary, AcquiredPages, held>>
  /\ UNCHANGED <<lock, advisory, AcquireHint, UnusablePages, PageID, search, byte, count>>

RelinquishReturn(c) ==
  /\ Goto(c, "relReturn", "idle")
  /\ RelinquishSpinlock(c)
  /\ PageID' = [PageID EXCEPT ![c] = 0]
  /\ UNCHANGED <<shared, search, byte, count, held>>
----------------------------------------------------------------------------
(* KrReservePhysicalPage takes no lock: the |= on the advisory byte and    *)
(* the ++ on the counter are each a load and a store.  No caller reserves  *)
(* a page twice.                                                           *)

ReserveCall(c) ==
  /\ c \in Reservers
  /\ Goto(c, "idle", "rsvStore")
  /\ \E p \in held[c] \ advisory :
        /\ KrIsValidPageID(p) /\ p \in primary
        /\ PageID' = [PageID EXCEPT ![c] = p]
        /\ byte' = [byte EXCEPT ![c] = advisory \cap ByteOf(p)]
  /\ UNCHANGED <<lock, shared, search, count, held>>

(* Wrong variant: the byte is overwritten instead of or-ed. *)
ReserveOverwrite(c) ==
  /\ Goto(c, "rsvStore", "rsvCount")
  /\ advisory' = (advisory \ ByteOf(PageID[c])) \cup {PageID[c]}
  /\ count' = [count EXCEPT ![c] = UnusablePages]
  /\ UNCHANGED <<lock, primary, AcquireHint, AcquiredPages, UnusablePages,
                 PageID, search, byte, held>>

ReserveStore(c) ==
  /\ Goto(c, "rsvStore", "rsvCount")
  /\ advisory' = (advisory \ ByteOf(PageID[c])) \cup byte[c] \cup {PageID[c]}
  /\ count' = [count EXCEPT ![c] = UnusablePages]
  /\ UNCHANGED <<lock, primary, AcquireHint, AcquiredPages, UnusablePages,
                 PageID, search, byte, held>>

ReserveCount(c) ==
  /\ Goto(c, "rsvCount", "idle")
  /\ UnusablePages' = count[c] + 1
  /\ PageID' = [PageID EXCEPT ![c] = 0]
  /\ byte' = [byte EXCEPT ![c] = {}]
  /\ count' = [count EXCEPT ![c] = 0]
  /\ UNCHANGED <<lock, primary, advisory, AcquireHint, AcquiredPages, search, held>>

(* KrSetPhysicalPageAcquisitionHint: one store, no lock. *)
SetHint(c) ==
  /\ c \in HintSetters /\ pc[c] = "idle"
  /\ \E p \in Pages : KrIsValidPageID(p) /\ AcquireHint' = p
  /\ UNCHANGED <<lock, primary, advisory, AcquiredPages, UnusablePages,
                 pc, PageID, search, byte, count, held>>
----------------------------------------------------------------------------
(* The steps a CPU takes once it has entered a function. *)
Running(c) ==
  \/ AcquireLock(c) \/ HuntPage(c) \/ HuntReroll(c) \/ HuntFailed(c)
  \/ Claim(c) \/ AcquireReturn(c) \/ ErrorOut(c)
  \/ RelinquishLock(c) \/ RelinquishClear(c) \/ RelinquishReturn(c)
  \/ ReserveStore(c) \/ ReserveCount(c)

Calls(c) == AcquireCall(c) \/ RelinquishCall(c) \/ ReserveCall(c) \/ SetHint(c)

Next == \E c \in Cpus : Calls(c) \/ Running(c)

Spec == Init /\ [][Next]_vars

(* A CPU inside a function keeps executing: interrupts are off while it    *)
(* holds the lock and nothing preempts kernel code.                        *)
FairSpec == Spec /\ \A c \in Cpus : WF_vars(Running(c))
----------------------------------------------------------------------------
(* Properties *)

Available == Pages \ (primary \cup advisory)

PcValues == {"idle", "acqLock", "hunt", "error", "return", "relLock",
             "relClear", "relReturn", "rsvStore", "rsvCount"}

HoldsLock(c) == pc[c] \in {"hunt", "error", "return", "relClear", "relReturn"}

(* The ranges of the allocator's state; every page ID ever returned or     *)
(* used as a search position lies inside the bitmap.                       *)
TypeOK ==
  /\ lock \in Cpus \cup {NoCpu}
  /\ primary \subseteq Bits /\ advisory \subseteq Bits
  /\ AcquireHint \in 0 .. NrPages
  /\ AcquiredPages \in Int /\ UnusablePages \in Nat
  /\ pc \in [Cpus -> PcValues]
  /\ req \in [Cpus -> Requests \cup {NoRequest}]
  /\ PageID \in [Cpus -> 0 .. BitmapEnd]
  /\ start \in [Cpus -> 0 .. NrPages]
  /\ bIsReroll \in [Cpus -> BOOLEAN]
  /\ out \in [Cpus -> Seq(Pages)]
  /\ byte \in [Cpus -> SUBSET Bits]
  /\ count \in [Cpus -> Nat]
  /\ held \in [Cpus -> SUBSET Pages]

(* sg_PmSpinlock: exactly the CPU between the acquisition and the release  *)
(* of the lock owns it, on every path out of both functions.               *)
LockOwnership == \A c \in Cpus : HoldsLock(c) <=> lock = c

(* No page is ever given to two CPUs: what PmAcquirePages is about to      *)
(* return was given to nobody, and what one CPU holds no other CPU holds.  *)
ExclusiveOwnership ==
  /\ \A c, d \in Cpus : c # d => held[c] \cap held[d] = {}
  /\ \A c, d \in Cpus : pc[c] = "return" => Range(out[c]) \cap held[d] = {}

(* pPrimaryBitmap is the truth: a bit is set exactly for the pages that    *)
(* were never free, that a CPU holds, or that are being returned; no page  *)
(* leaks and no held page is marked free.                                  *)
BitmapMatchesOwnership ==
  \A p \in Bits : p \in primary <=>
     \/ p \notin FreeAtBoot
     \/ \E c \in Cpus : p \in held[c]
     \/ \E c \in Cpus : pc[c] = "return" /\ p \in Range(out[c])

(* AcquiredPages counts the acquired pages, whatever mix of partial, dense *)
(* and failed acquisitions and relinquishments led here.                   *)
AcquiredPagesExact == AcquiredPages = Cardinality(primary \cap FreeAtBoot)

(* Whoever asked for DENSE pages gets contiguous ones (PAGE_ACQ_DENSE).    *)
DenseIsContiguous ==
  \A c \in Cpus : pc[c] = "return" /\ "DENSE" \in req[c].flags =>
     \A i \in DOMAIN out[c] : out[c][i] = out[c][1] + (i - 1)

(* A SPARSE search that started on a valid page and found nothing has seen *)
(* every page: the wraparound leaves no gap.                               *)
HuntIsExhaustive ==
  \A c \in Cpus :
     /\ pc[c] = "error" /\ KrIsValidPageID(start[c])
     /\ "DENSE" \notin req[c].flags
     => Available = {}

(* KrReservePhysicalPage is one-way: no step undoes a reservation, and a   *)
(* reserved page never leaves the CPU that holds it.                       *)
ReservationIsPermanent ==
  [][/\ advisory \subseteq advisory'
     /\ \A c \in Cpus : held[c] \cap advisory \subseteq held'[c]]_vars

(* Reserved pages are acquired pages, and each reservation since boot was  *)
(* counted once in UnusablePages (up to the one being counted).            *)
ReservedIsAcquired ==
  /\ advisory \subseteq primary
  /\ UnusablePages + Cardinality({c \in Cpus : pc[c] = "rsvCount"})
       = Cardinality(advisory \cap FreeAtBoot)

(* The lock, the counters and the two bitmaps agree with each other and    *)
(* with where the CPUs are in their calls.                                 *)
BookkeepingIsExact == LockOwnership /\ AcquiredPagesExact /\ ReservedIsAcquired

(* No path keeps the spinlock: the search loop ends and both exits of      *)
(* PmAcquirePages and PmRelinquishPage release it.                         *)
LockIsReleased == \A c \in Cpus : lock = c ~> lock # c

(* The allocator implements the abstract page allocator. *)
Alloc == INSTANCE PageAllocator WITH reserved <- advisory \cap FreeAtBoot
AllocSpec == Alloc!AllocSpec

(* Physmemmgmt.c, comment before the wraparound: the search also covers    *)
(* the area that was skipped, so a SPARSE acquisition that returns 0 means *)
(* that no page is free.                                                   *)
FailureMeansExhausted ==
  \A c \in Cpus : pc[c] = "error" /\ "DENSE" \notin req[c].flags => Available = {}

(* Physmemmgmt.h, PmAcquirePages: the first entries of pOutIDs, as many as *)
(* the return value, are IDs of newly acquired pages - so no page appears  *)
(* twice among them.                                                       *)
ReturnedPagesAreDistinct ==
  \A c \in Cpus : pc[c] = "return" =>
     \A i, j \in DOMAIN out[c] : i # j => out[c][i] # out[c][j]
============================================================================
