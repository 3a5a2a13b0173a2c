------------------------------ MODULE PageFault ------------------------------
(***************************************************************************)
(* Demand paging (Kernel/Source/Intmgmt/PageFault.c with                    *)
(* PteGetOrAcquirePageStruct of Kernel/Source/Memory/PTE.c).  The three     *)
(* levels of paging structures above the last are walked by the same code;  *)
(* one of them is modelled.  Physical pages come from Physmemmgmt, whose    *)
(* calls are atomic under its lock.  The handlers of several CPUs run over  *)
(* the same tables without a lock.                                          *)
(***************************************************************************)
EXTENDS Naturals

CONSTANTS
  Cpus,
  Vpages,      \* virtual pages
  RegionKind,  \* the kind of region of each: "demand", "static" or "none"
  Dir,         \* the index of each in the structure above
  Frames,      \* physical pages
  None,        \* no frame, no page, no CPU
  Loads        \* the values of load

PageFaultAssumption ==
  /\ None \notin Frames \cup Vpages \cup Cpus /\ Frames \subseteq Nat
  /\ RegionKind \in [Vpages -> {"demand", "static", "none"}]
  /\ {"old", "zero"} \cap Cpus = {}
  /\ Loads \subseteq [pages : SUBSET Vpages, frames : SUBSET Frames, overlap : BOOLEAN]

Dirs == {Dir[v] : v \in Vpages}

VARIABLES
  load,      \* [pages, frames, overlap]: the pages accessed, the frames that
             \* Physmemmgmt can give, and whether a CPU may access pages while
             \* the handler of another one runs; never changed
  dir,       \* the entries of the upper structure
  table,     \* the entries that each frame holds when it is a page table
  raw,       \* frames whose old content was not zeroed yet
  data,      \* what a frame holds as data: "old", "zero" or the last writer
  free,      \* frames that Physmemmgmt has left
  pc, va,    \* per CPU: the step of the handler and the faulting page
  page, pt,  \* per CPU: PhysPageID and the page table found or acquired
  bInPageFault,
  melted,    \* the kernel has melted down, or runs on undefined data
  written    \* history: the last CPU that wrote to each virtual page

tables == <<dir, table, raw, data, free>>
cpuVars == <<pc, va, page, pt, bInPageFault>>
faultVars == <<load, tables, cpuVars, melted, written>>

FaultInit ==
  /\ load \in Loads
  /\ dir = [d \in Dirs |-> None]
  /\ table = [f \in Frames |-> [v \in Vpages |-> None]]
  /\ raw = Frames /\ data = [f \in Frames |-> "old"] /\ free = load.frames
  /\ pc = [c \in Cpus |-> "run"] /\ va = [c \in Cpus |-> None]
  /\ page = [c \in Cpus |-> None] /\ pt = [c \in Cpus |-> None]
  /\ bInPageFault = [c \in Cpus |-> FALSE]
  /\ melted = FALSE /\ written = [v \in Vpages |-> None]

Step(c, from, to) == ~melted /\ pc[c] = from /\ pc' = [pc EXCEPT ![c] = to]

(* The frame that the processor finds for v. *)
FrameOf(v) == IF dir[Dir[v]] = None THEN None ELSE table[dir[Dir[v]]][v]
-----------------------------------------------------------------------------
(* The accesses *)

Write(c, v) ==
  /\ ~melted /\ pc[c] = "run" /\ FrameOf(v) # None
  /\ data' = [data EXCEPT ![FrameOf(v)] = c]
  /\ written' = [written EXCEPT ![v] = c]
  /\ UNCHANGED <<load, dir, table, raw, free, cpuVars, melted>>

(* The processor walks through a table that is entered but not zeroed: the *)
(* old bytes may look like an entry.  Nothing is known from then on.       *)
WildAccess(c, v) ==
  /\ ~melted /\ pc[c] = "run"
  /\ dir[Dir[v]] \in raw /\ FrameOf(v) = None
  /\ melted' = TRUE
  /\ UNCHANGED <<load, tables, cpuVars, written>>

(* A page that is not present; the first test of the handler is for a      *)
(* fault inside the handler.                                               *)
Fault(c, v) ==
  /\ FrameOf(v) = None
  /\ ~bInPageFault[c]
  /\ Step(c, "run", "locate")
  /\ va' = [va EXCEPT ![c] = v]
  /\ bInPageFault' = [bInPageFault EXCEPT ![c] = TRUE]
  /\ UNCHANGED <<load, tables, page, pt, melted, written>>
-----------------------------------------------------------------------------
(* The handler *)

(* Wrong variant: the handler returns as if the fault were handled. *)
AbortQuietly(c) ==
  /\ bInPageFault' = [bInPageFault EXCEPT ![c] = FALSE]
  /\ UNCHANGED melted

(* The fault was not handled: RUNTIME_ENSURE melts the kernel down. *)
AbortMission(c) ==
  /\ bInPageFault' = [bInPageFault EXCEPT ![c] = FALSE]
  /\ melted' = TRUE

(* VmLocateRegion: only a region that is neither static nor guarded is     *)
(* paged on demand.                                                        *)
LocateRegion(c) ==
  /\ Step(c, "locate", "acquire")
  /\ RegionKind[va[c]] = "demand"
  /\ UNCHANGED <<load, tables, va, page, pt, bInPageFault, melted, written>>

LocateFails(c) ==
  /\ Step(c, "locate", "run") /\ AbortMission(c)
  /\ RegionKind[va[c]] # "demand"
  /\ UNCHANGED <<load, tables, va, page, pt, written>>

(* Wrong variant: the frame stays available. *)
PmSharePage(f) == f \in free /\ (\A g \in free : f <= g) /\ raw' = raw \cup {f} /\ UNCHANGED free

(* Which frame Physmemmgmt gives does not matter: the lowest.  It may give *)
(* none while frames are left, when its hint has gone past the last page   *)
(* (FailureMeansExhausted of Physmemmgmt does not hold).                   *)
PmAcquirePage(f) ==
  /\ f \in free /\ \A g \in free : f <= g
  /\ free' = free \ {f} /\ raw' = raw \cup {f}

AcquireData(c) ==
  /\ Step(c, "acquire", "walk")
  /\ \E f \in Frames : PmAcquirePage(f) /\ page' = [page EXCEPT ![c] = f]
  /\ UNCHANGED <<load, dir, table, data, va, pt, bInPageFault, melted, written>>

AcquireDataFails(c) ==
  /\ Step(c, "acquire", "run") /\ AbortMission(c)
  /\ UNCHANGED <<load, tables, va, page, pt, written>>

(* Wrong variant: an entry that is present is replaced. *)
StructReplaced(c) ==
  /\ Step(c, "walk", "structAcquire")
  /\ dir[Dir[va[c]]] # None
  /\ UNCHANGED <<load, tables, va, page, pt, bInPageFault, melted, written>>

(* PteGetOrAcquirePageStruct: the entry is read, and if it is not present  *)
(* a page is acquired, entered and zeroed.                                 *)
StructPresent(c) ==
  /\ Step(c, "walk", "leaf")
  /\ dir[Dir[va[c]]] # None
  /\ pt' = [pt EXCEPT ![c] = dir[Dir[va[c]]]]
  /\ UNCHANGED <<load, tables, va, page, bInPageFault, melted, written>>

StructMissing(c) ==
  /\ Step(c, "walk", "structAcquire")
  /\ dir[Dir[va[c]]] = None
  /\ UNCHANGED <<load, tables, va, page, pt, bInPageFault, melted, written>>

AcquireStruct(c) ==
  /\ Step(c, "structAcquire", "structEnter")
  /\ \E f \in Frames : PmAcquirePage(f) /\ pt' = [pt EXCEPT ![c] = f]
  /\ UNCHANGED <<load, dir, table, data, va, page, bInPageFault, melted, written>>

(* Wrong variant: the data page is kept. *)
AcquireStructFailsKeep(c) ==
  /\ Step(c, "structAcquire", "run") /\ AbortMission(c)
  /\ page' = [page EXCEPT ![c] = None]
  /\ UNCHANGED <<load, tables, va, pt, written>>

AcquireStructFails(c) ==
  /\ Step(c, "structAcquire", "run") /\ AbortMission(c)
  /\ free' = free \cup {page[c]}
  /\ page' = [page EXCEPT ![c] = None]
  /\ UNCHANGED <<load, dir, table, raw, data, va, pt, written>>

EnterStruct(c) ==
  /\ Step(c, "structEnter", "structZero")
  /\ dir' = [dir EXCEPT ![Dir[va[c]]] = pt[c]]
  /\ UNCHANGED <<load, table, raw, data, free, va, page, pt, bInPageFault, melted, written>>

ZeroStruct(c) ==
  /\ Step(c, "structZero", "leaf")
  /\ table' = [table EXCEPT ![pt[c]] = [v \in Vpages |-> None]]
  /\ raw' = raw \ {pt[c]}
  /\ UNCHANGED <<load, dir, data, free, va, page, pt, bInPageFault, melted, written>>

(* The last entry, then the page itself is zeroed. *)
EnterLeaf(c) ==
  /\ Step(c, "leaf", "zero")
  /\ table' = [table EXCEPT ![pt[c]][va[c]] = page[c]]
  /\ UNCHANGED <<load, dir, raw, data, free, va, page, pt, bInPageFault, melted, written>>

(* Wrong variant: the page is not zeroed. *)
ZeroSkipped(c) == Step(c, "zero", "return") /\ UNCHANGED <<load, tables, va, page, pt, bInPageFault, melted, written>>

ZeroData(c) ==
  /\ Step(c, "zero", "return")
  /\ data' = [data EXCEPT ![page[c]] = "zero"]
  /\ raw' = raw \ {page[c]}
  /\ UNCHANGED <<load, dir, table, free, va, page, pt, bInPageFault, melted, written>>

(* Wrong variant: the handler's flag stays set. *)
ReturnInFault(c) ==
  /\ Step(c, "return", "run")
  /\ page' = [page EXCEPT ![c] = None] /\ pt' = [pt EXCEPT ![c] = None]
  /\ va' = [va EXCEPT ![c] = None]
  /\ UNCHANGED <<load, tables, bInPageFault, melted, written>>

Return(c) ==
  /\ Step(c, "return", "run")
  /\ bInPageFault' = [bInPageFault EXCEPT ![c] = FALSE]
  /\ page' = [page EXCEPT ![c] = None] /\ pt' = [pt EXCEPT ![c] = None]
  /\ va' = [va EXCEPT ![c] = None]
  /\ UNCHANGED <<load, tables, melted, written>>
-----------------------------------------------------------------------------
Handle(c) ==
  \/ LocateRegion(c) \/ LocateFails(c) \/ AcquireData(c) \/ AcquireDataFails(c)
  \/ StructPresent(c) \/ StructMissing(c) \/ AcquireStruct(c) \/ AcquireStructFails(c)
  \/ EnterStruct(c) \/ ZeroStruct(c) \/ EnterLeaf(c) \/ ZeroData(c) \/ Return(c)

Access(c, v) == /\ v \in load.pages
                /\ load.overlap \/ \A b \in Cpus : ~bInPageFault[b]
                /\ Write(c, v) \/ Fault(c, v) \/ WildAccess(c, v)

FaultNext == \E c \in Cpus : Handle(c) \/ \E v \in Vpages : Access(c, v)

FaultSpec == FaultInit /\ [][FaultNext]_faultVars

(* The CPUs go on executing, and some of them keeps trying its access. *)
FaultFairSpec ==
  /\ FaultSpec
  /\ \A c \in Cpus : WF_faultVars(Handle(c))
  /\ \A v \in Vpages : SF_faultVars(\E c \in Cpus : Access(c, v))
-----------------------------------------------------------------------------
(* Properties *)

TableFrames == {dir[d] : d \in Dirs} \ {None}
DataFrames  == {FrameOf(v) : v \in Vpages} \ {None}

(* The ranges of the state. *)
FaultTypeOK ==
  /\ dir \in [Dirs -> Frames \cup {None}]
  /\ table \in [Frames -> [Vpages -> Frames \cup {None}]]
  /\ raw \subseteq Frames /\ free \subseteq Frames
  /\ data \in [Frames -> {"old", "zero"} \cup Cpus]
  /\ va \in [Cpus -> Vpages \cup {None}]
  /\ page \in [Cpus -> Frames \cup {None}] /\ pt \in [Cpus -> Frames \cup {None}]
  /\ \A c \in Cpus : bInPageFault[c] = (pc[c] # "run")
  /\ written \in [Vpages -> Cpus \cup {None}]

(* Whatever the handlers of two CPUs overwrite of each other, a frame that *)
(* is reachable is not free, has one use, and is found one way only.       *)
FramesHaveOneUse ==
  /\ (TableFrames \cup DataFrames) \cap free = {}
  /\ TableFrames \cap DataFrames = {}
  /\ \A v, w \in Vpages : FrameOf(v) = FrameOf(w) /\ FrameOf(v) # None => v = w
  /\ \A d, e \in Dirs : dir[d] = dir[e] /\ dir[d] # None => d = e

(* When no handler runs, every frame taken is in use: the error paths give *)
(* back what they took.  Handlers that overlap lose frames.                *)
NoFrameIsLost ==
  ~load.overlap /\ (\A c \in Cpus : pc[c] = "run") => free \cup TableFrames \cup DataFrames = load.frames

(* "Make sure to zero out the allocated page immediately!": the zeroing    *)
(* comes before any use of the page, so what was written stays.            *)
WritesSurvive ==
  \A v \in Vpages : written[v] # None => FrameOf(v) # None /\ data[FrameOf(v)] = written[v]

(* The same, when no CPU accesses a page while the handler of another runs. *)
SerialWritesSurvive == ~load.overlap => WritesSurvive

(* A page never shows what its frame held before. *)
NothingOldIsSeen ==
  ~load.overlap /\ (\A c \in Cpus : pc[c] = "run") => \A v \in Vpages : FrameOf(v) # None => data[FrameOf(v)] # "old"

(* IntmgmtPageFault: a frame that is reachable is not free and has one     *)
(* use, also when handlers of two CPUs overlap; when they do not, the      *)
(* error paths give back what they took, what was written stays and a page *)
(* never shows what its frame held before.                                 *)
FaultsAreHandled ==
  /\ FaultTypeOK /\ FramesHaveOneUse /\ NoFrameIsLost
  /\ SerialWritesSurvive /\ NothingOldIsSeen

(* An access to a demand-paged page gets through, unless the kernel melts. *)
GetsThrough(v) ==
  v \in load.pages /\ RegionKind[v] = "demand" ~> written[v] # None \/ melted

EveryAccessGetsThrough == \A v \in Vpages : GetsThrough(v)
=============================================================================
