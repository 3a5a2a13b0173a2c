------------------------ MODULE AddressSpaceProofs ------------------------
(***************************************************************************)
(* Proofs about the kernel address space.                                  *)
(*                                                                         *)
(* Demand paging, for any CPUs, virtual pages, regions and frames, with    *)
(* handlers that overlap and with handlers that do not: FaultsHandled.     *)
(*                                                                         *)
(* The regions stay sorted and disjoint, their nodes distinct and the      *)
(* devices mapped, for every layout, every set of devices and every number *)
(* of them that the device window holds: RegionsSound.                     *)
(***************************************************************************)
EXTENDS PageFault, Virtmemmgmt, SequenceTheorems, TLAPS
----------------------------------------------------------------------------
(* The inductive invariant *)

BeforePage   == {"run", "locate", "acquire"}
BeforeTable  == BeforePage \cup {"walk", "structAcquire"}
BeforeLeaf   == {"walk", "structAcquire", "structEnter", "structZero", "leaf"}
WithTable    == {"structEnter", "structZero", "leaf", "zero", "return"}
HandlerSteps == BeforeTable \cup WithTable

(* What a handler holds at each of its steps. *)
StagesOK ==
  /\ pc \in [Cpus -> HandlerSteps] /\ bInPageFault \in [Cpus -> BOOLEAN]
  /\ load \in Loads
  /\ \A c \in Cpus : /\ page[c] = None <=> pc[c] \in BeforePage
                     /\ pt[c] = None <=> pc[c] \in BeforeTable
                     /\ pc[c] # "run" => va[c] \in Vpages

(* A frame is used as a page table, or as a page, by an entry or by a      *)
(* handler that has not entered it yet.                                    *)
IsTable(f) == (\E d \in Dirs : dir[d] = f) \/ (\E c \in Cpus : pt[c] = f)
IsData(f)  == (\E c \in Cpus : page[c] = f) \/ (\E g \in Frames, v \in Vpages : table[g][v] = f)

RolesAreDistinct ==
  \A f \in Frames : /\ IsTable(f) => f \notin free /\ ~IsData(f)
                    /\ IsData(f) => f \notin free

(* A page is held by one handler and entered at most once, also in tables  *)
(* that another handler has displaced.                                     *)
PagesAreEnteredOnce ==
  /\ \A c, d \in Cpus : page[c] = page[d] /\ page[c] # None => c = d
  /\ \A c \in Cpus : pc[c] \in BeforeLeaf =>
       \A f \in Frames, v \in Vpages : table[f][v] # page[c]
  /\ \A f, g \in Frames : \A v, w \in Vpages :
       table[f][v] = table[g][w] /\ table[f][v] # None => f = g /\ v = w

(* A table is private until it is entered, and entered once. *)
TablesAreEnteredOnce ==
  /\ \A c \in Cpus : pc[c] = "structEnter" =>
       /\ \A d \in Dirs : dir[d] # pt[c]
       /\ \A d \in Cpus \ {c} : pt[d] # pt[c]
  /\ \A d, e \in Dirs : dir[d] = dir[e] /\ dir[d] # None => d = e

(* The rest holds when handlers do not overlap. *)
OneHandler == \A c, d \in Cpus : pc[c] # "run" /\ pc[d] # "run" => c = d

(* No table is displaced. *)
EntriesAreReachable ==
  \A f \in Frames, v \in Vpages : table[f][v] # None => dir[Dir[v]] = f

(* What the handler has seen, and done, is still so. *)
HandlerSees ==
  \A c \in Cpus :
    /\ pc[c] \in {"locate", "acquire"} \cup BeforeLeaf => FrameOf(va[c]) = None
    /\ pc[c] \in {"structAcquire", "structEnter"} => dir[Dir[va[c]]] = None
    /\ pc[c] \in WithTable \ {"structEnter"} => dir[Dir[va[c]]] = pt[c]
    /\ pc[c] \in {"structEnter", "structZero"} => \A v \in Vpages : table[pt[c]][v] = None
    /\ pc[c] \in {"zero", "return"} => table[pt[c]][va[c]] = page[c]
    /\ pc[c] = "zero" => written[va[c]] = None

FramesAreAccounted ==
  \A f \in Frames : f \in load.frames <=> f \in free \/ IsTable(f) \/ IsData(f)

ZeroedBeforeUse ==
  \A v \in Vpages : FrameOf(v) # None =>
    data[FrameOf(v)] # "old" \/ \E c \in Cpus : pc[c] = "zero" /\ va[c] = v

SerialInv ==
  ~load.overlap => /\ OneHandler /\ EntriesAreReachable /\ HandlerSees
                   /\ FramesAreAccounted /\ WritesSurvive /\ ZeroedBeforeUse

IInv ==
  /\ FaultTypeOK /\ StagesOK /\ RolesAreDistinct /\ PagesAreEnteredOnce
  /\ TablesAreEnteredOnce /\ SerialInv
----------------------------------------------------------------------------
(* The walk *)

LEMMA FrameOfType ==
  ASSUME PageFaultAssumption, FaultTypeOK, NEW v \in Vpages
  PROVE  /\ Dir[v] \in Dirs /\ FrameOf(v) \in Frames \cup {None}
         /\ FrameOf(v) # None => /\ dir[Dir[v]] \in Frames
                                 /\ FrameOf(v) = table[dir[Dir[v]]][v]
  <1>1. Dir[v] \in Dirs
    BY DEF Dirs
  <1>2. dir[Dir[v]] \in Frames \cup {None}
    BY <1>1 DEF FaultTypeOK
  <1>3. CASE dir[Dir[v]] = None
    BY <1>1, <1>3 DEF FrameOf
  <1>4. CASE dir[Dir[v]] \in Frames
    <2>1. FrameOf(v) = table[dir[Dir[v]]][v]
      BY <1>4 DEF FrameOf, PageFaultAssumption
    <2>2. table[dir[Dir[v]]][v] \in Frames \cup {None}
      BY <1>4 DEF FaultTypeOK
    <2> QED BY <1>1, <1>4, <2>1, <2>2
  <1> QED BY <1>2, <1>3, <1>4

(* A page backs one virtual page. *)
LEMMA FramesOnce ==
  ASSUME PageFaultAssumption, FaultTypeOK, PagesAreEnteredOnce,
         NEW v \in Vpages, NEW w \in Vpages, FrameOf(v) = FrameOf(w), FrameOf(v) # None
  PROVE  v = w
  BY FrameOfType DEF PagesAreEnteredOnce
----------------------------------------------------------------------------
(* The steps *)

LEMMA WriteStep ==
  ASSUME PageFaultAssumption, IInv, NEW c \in Cpus, NEW v \in Vpages, Write(c, v),
         load.overlap \/ \A b \in Cpus : ~bInPageFault[b]
  PROVE  IInv'
  <1> USE DEF IInv, Write, tables, cpuVars, PageFaultAssumption,
             HandlerSteps, BeforePage, BeforeTable, BeforeLeaf, WithTable
  <1>1. FaultTypeOK'
    BY DEF FaultTypeOK, StagesOK
  <1>2. StagesOK'
    BY DEF FaultTypeOK, StagesOK
  <1>3. RolesAreDistinct'
    BY DEF RolesAreDistinct, IsTable, IsData, FaultTypeOK, StagesOK
  <1>4. PagesAreEnteredOnce'
    BY DEF PagesAreEnteredOnce, FaultTypeOK, StagesOK
  <1>5. TablesAreEnteredOnce'
    BY DEF TablesAreEnteredOnce, FaultTypeOK, StagesOK
  <1>6. SerialInv'
    <2> SUFFICES ASSUME ~load.overlap
                 PROVE  (/\ OneHandler /\ EntriesAreReachable /\ HandlerSees
                         /\ FramesAreAccounted /\ WritesSurvive /\ ZeroedBeforeUse)'
      BY DEF SerialInv
    <2>0. /\ OneHandler /\ EntriesAreReachable /\ HandlerSees
          /\ FramesAreAccounted /\ WritesSurvive /\ ZeroedBeforeUse
      BY DEF SerialInv
    <2>1. OneHandler'
      BY <2>0 DEF OneHandler, FaultTypeOK, StagesOK
    <2>2. EntriesAreReachable'
      BY <2>0 DEF EntriesAreReachable, FaultTypeOK, StagesOK
    <2>3. HandlerSees'
      BY <2>0 DEF HandlerSees, OneHandler, FrameOf, FaultTypeOK, StagesOK
    <2>4. FramesAreAccounted'
      BY <2>0 DEF FramesAreAccounted, IsTable, IsData, FaultTypeOK, StagesOK
    <2>5. WritesSurvive'
      <3>1. \A w \in Vpages : FrameOf(w)' = FrameOf(w)
        BY DEF FrameOf
      <3>2. FrameOf(v) \in Frames
        BY FrameOfType
      <3>3. \A w \in Vpages : FrameOf(w) = FrameOf(v) => w = v
        BY FramesOnce
      <3> QED BY <2>0, <3>1, <3>2, <3>3 DEF WritesSurvive, FaultTypeOK
    <2>6. ZeroedBeforeUse'
      BY <2>0 DEF ZeroedBeforeUse, FrameOf, FaultTypeOK, StagesOK
    <2> QED BY <2>1, <2>2, <2>3, <2>4, <2>5, <2>6
  <1> QED BY <1>1, <1>2, <1>3, <1>4, <1>5, <1>6

LEMMA WildAccessStep ==
  ASSUME PageFaultAssumption, IInv, NEW c \in Cpus, NEW v \in Vpages, WildAccess(c, v),
         load.overlap \/ \A b \in Cpus : ~bInPageFault[b]
  PROVE  IInv'
  <1> USE DEF IInv, WildAccess, tables, cpuVars, PageFaultAssumption,
             HandlerSteps, BeforePage, BeforeTable, BeforeLeaf, WithTable
  <1>1. FaultTypeOK'
    BY DEF FaultTypeOK, StagesOK
  <1>2. StagesOK'
    BY DEF FaultTypeOK, StagesOK
  <1>3. RolesAreDistinct'
    BY DEF RolesAreDistinct, IsTable, IsData, FaultTypeOK, StagesOK
  <1>4. PagesAreEnteredOnce'
    BY DEF PagesAreEnteredOnce, FaultTypeOK, StagesOK
  <1>5. TablesAreEnteredOnce'
    BY DEF TablesAreEnteredOnce, FaultTypeOK, StagesOK
  <1>6. SerialInv'
    <2> SUFFICES ASSUME ~load.overlap
                 PROVE  (/\ OneHandler /\ EntriesAreReachable /\ HandlerSees
                         /\ FramesAreAccounted /\ WritesSurvive /\ ZeroedBeforeUse)'
      BY DEF SerialInv
    <2>0. /\ OneHandler /\ EntriesAreReachable /\ HandlerSees
          /\ FramesAreAccounted /\ WritesSurvive /\ ZeroedBeforeUse
      BY DEF SerialInv
    <2>1. OneHandler'
      BY <2>0 DEF OneHandler, FaultTypeOK, StagesOK
    <2>2. EntriesAreReachable'
      BY <2>0 DEF EntriesAreReachable, FaultTypeOK, StagesOK
    <2>3. HandlerSees'
      BY <2>0 DEF HandlerSees, OneHandler, FrameOf, FaultTypeOK, StagesOK
    <2>4. FramesAreAccounted'
      BY <2>0 DEF FramesAreAccounted, IsTable, IsData, FaultTypeOK, StagesOK
    <2>5. WritesSurvive'
      BY <2>0 DEF WritesSurvive, FrameOf, FaultTypeOK, StagesOK
    <2>6. ZeroedBeforeUse'
      BY <2>0 DEF ZeroedBeforeUse, FrameOf, FaultTypeOK, StagesOK
    <2> QED BY <2>1, <2>2, <2>3, <2>4, <2>5, <2>6
  <1> QED BY <1>1, <1>2, <1>3, <1>4, <1>5, <1>6

LEMMA FaultStep ==
  ASSUME PageFaultAssumption, IInv, NEW c \in Cpus, NEW v \in Vpages, Fault(c, v),
         load.overlap \/ \A b \in Cpus : ~bInPageFault[b]
  PROVE  IInv'
  <1> USE DEF IInv, Fault, Step, tables, cpuVars, PageFaultAssumption,
             HandlerSteps, BeforePage, BeforeTable, BeforeLeaf, WithTable
  <1>1. FaultTypeOK'
    BY DEF FaultTypeOK, StagesOK
  <1>2. StagesOK'
    BY DEF FaultTypeOK, StagesOK
  <1>3. RolesAreDistinct'
    BY DEF RolesAreDistinct, IsTable, IsData, FaultTypeOK, StagesOK
  <1>4. PagesAreEnteredOnce'
    BY DEF PagesAreEnteredOnce, FaultTypeOK, StagesOK
  <1>5. TablesAreEnteredOnce'
    BY DEF TablesAreEnteredOnce, FaultTypeOK, StagesOK
  <1>6. SerialInv'
    <2> SUFFICES ASSUME ~load.overlap
                 PROVE  (/\ OneHandler /\ EntriesAreReachable /\ HandlerSees
                         /\ FramesAreAccounted /\ WritesSurvive /\ ZeroedBeforeUse)'
      BY DEF SerialInv
    <2>0. /\ OneHandler /\ EntriesAreReachable /\ HandlerSees
          /\ FramesAreAccounted /\ WritesSurvive /\ ZeroedBeforeUse
      BY DEF SerialInv
    <2>1. OneHandler'
      BY <2>0 DEF OneHandler, FaultTypeOK, StagesOK
    <2>2. EntriesAreReachable'
      BY <2>0 DEF EntriesAreReachable, FaultTypeOK, StagesOK
    <2>3. HandlerSees'
      BY <2>0 DEF HandlerSees, OneHandler, FrameOf, FaultTypeOK, StagesOK
    <2>4. FramesAreAccounted'
      BY <2>0 DEF FramesAreAccounted, IsTable, IsData, FaultTypeOK, StagesOK
    <2>5. WritesSurvive'
      BY <2>0 DEF WritesSurvive, FrameOf, FaultTypeOK, StagesOK
    <2>6. ZeroedBeforeUse'
      BY <2>0 DEF ZeroedBeforeUse, FrameOf, FaultTypeOK, StagesOK
    <2> QED BY <2>1, <2>2, <2>3, <2>4, <2>5, <2>6
  <1> QED BY <1>1, <1>2, <1>3, <1>4, <1>5, <1>6

LEMMA LocateRegionStep ==
  ASSUME PageFaultAssumption, IInv, NEW c \in Cpus, LocateRegion(c)
  PROVE  IInv'
  <1> USE DEF IInv, LocateRegion, Step, tables, cpuVars, PageFaultAssumption,
             HandlerSteps, BeforePage, BeforeTable, BeforeLeaf, WithTable
  <1>1. FaultTypeOK'
    BY DEF FaultTypeOK, StagesOK
  <1>2. StagesOK'
    BY DEF FaultTypeOK, StagesOK
  <1>3. RolesAreDistinct'
    BY DEF RolesAreDistinct, IsTable, IsData, FaultTypeOK, StagesOK
  <1>4. PagesAreEnteredOnce'
    BY DEF PagesAreEnteredOnce, FaultTypeOK, StagesOK
  <1>5. TablesAreEnteredOnce'
    BY DEF TablesAreEnteredOnce, FaultTypeOK, StagesOK
  <1>6. SerialInv'
    <2> SUFFICES ASSUME ~load.overlap
                 PROVE  (/\ OneHandler /\ EntriesAreReachable /\ HandlerSees
                         /\ FramesAreAccounted /\ WritesSurvive /\ ZeroedBeforeUse)'
      BY DEF SerialInv
    <2>0. /\ OneHandler /\ EntriesAreReachable /\ HandlerSees
          /\ FramesAreAccounted /\ WritesSurvive /\ ZeroedBeforeUse
      BY DEF SerialInv
    <2>1. OneHandler'
      BY <2>0 DEF OneHandler, FaultTypeOK, StagesOK
    <2>2. EntriesAreReachable'
      BY <2>0 DEF EntriesAreReachable, FaultTypeOK, StagesOK
    <2>3. HandlerSees'
      BY <2>0 DEF HandlerSees, OneHandler, FrameOf, FaultTypeOK, StagesOK
    <2>4. FramesAreAccounted'
      BY <2>0 DEF FramesAreAccounted, IsTable, IsData, FaultTypeOK, StagesOK
    <2>5. WritesSurvive'
      BY <2>0 DEF WritesSurvive, FrameOf, FaultTypeOK, StagesOK
    <2>6. ZeroedBeforeUse'
      BY <2>0 DEF ZeroedBeforeUse, FrameOf, FaultTypeOK, StagesOK
    <2> QED BY <2>1, <2>2, <2>3, <2>4, <2>5, <2>6
  <1> QED BY <1>1, <1>2, <1>3, <1>4, <1>5, <1>6

LEMMA LocateFailsStep ==
  ASSUME PageFaultAssumption, IInv, NEW c \in Cpus, LocateFails(c)
  PROVE  IInv'
  <1> USE DEF IInv, LocateFails, Step, AbortMission, tables, cpuVars, PageFaultAssumption,
             HandlerSteps, BeforePage, BeforeTable, BeforeLeaf, WithTable
  <1>1. FaultTypeOK'
    BY DEF FaultTypeOK, StagesOK
  <1>2. StagesOK'
    BY DEF FaultTypeOK, StagesOK
  <1>3. RolesAreDistinct'
    BY DEF RolesAreDistinct, IsTable, IsData, FaultTypeOK, StagesOK
  <1>4. PagesAreEnteredOnce'
    BY DEF PagesAreEnteredOnce, FaultTypeOK, StagesOK
  <1>5. TablesAreEnteredOnce'
    BY DEF TablesAreEnteredOnce, FaultTypeOK, StagesOK
  <1>6. SerialInv'
    <2> SUFFICES ASSUME ~load.overlap
                 PROVE  (/\ OneHandler /\ EntriesAreReachable /\ HandlerSees
                         /\ FramesAreAccounted /\ WritesSurvive /\ ZeroedBeforeUse)'
      BY DEF SerialInv
    <2>0. /\ OneHandler /\ EntriesAreReachable /\ HandlerSees
          /\ FramesAreAccounted /\ WritesSurvive /\ ZeroedBeforeUse
      BY DEF SerialInv
    <2>1. OneHandler'
      BY <2>0 DEF OneHandler, FaultTypeOK, StagesOK
    <2>2. EntriesAreReachable'
      BY <2>0 DEF EntriesAreReachable, FaultTypeOK, StagesOK
    <2>3. HandlerSees'
      BY <2>0 DEF HandlerSees, OneHandler, FrameOf, FaultTypeOK, StagesOK
    <2>4. FramesAreAccounted'
      BY <2>0 DEF FramesAreAccounted, IsTable, IsData, FaultTypeOK, StagesOK
    <2>5. WritesSurvive'
      BY <2>0 DEF WritesSurvive, FrameOf, FaultTypeOK, StagesOK
    <2>6. ZeroedBeforeUse'
      BY <2>0 DEF ZeroedBeforeUse, FrameOf, FaultTypeOK, StagesOK
    <2> QED BY <2>1, <2>2, <2>3, <2>4, <2>5, <2>6
  <1> QED BY <1>1, <1>2, <1>3, <1>4, <1>5, <1>6

LEMMA AcquireDataStep ==
  ASSUME PageFaultAssumption, IInv, NEW c \in Cpus, AcquireData(c)
  PROVE  IInv'
  <1> USE DEF IInv, AcquireData, Step, PmAcquirePage, tables, cpuVars, PageFaultAssumption,
             HandlerSteps, BeforePage, BeforeTable, BeforeLeaf, WithTable
  <1>0. PICK f \in free : /\ free' = free \ {f} /\ raw' = raw \cup {f}
                          /\ page' = [page EXCEPT ![c] = f]
    OBVIOUS
  <1>r. \A g \in Frames : /\ IsTable(g)' <=> IsTable(g)
                          /\ IsData(g)' <=> IsData(g) \/ g = f
    BY <1>0 DEF IsTable, IsData, FaultTypeOK, StagesOK
  <1>f. f \in Frames /\ ~IsTable(f) /\ ~IsData(f)
    BY <1>0 DEF RolesAreDistinct, FaultTypeOK
  <1>1. FaultTypeOK'
    BY DEF FaultTypeOK, StagesOK
  <1>2. StagesOK'
    BY DEF FaultTypeOK, StagesOK
  <1>3. RolesAreDistinct'
    BY <1>0, <1>r, <1>f DEF RolesAreDistinct
  <1>4. PagesAreEnteredOnce'
    BY <1>0, <1>f DEF PagesAreEnteredOnce, IsData, FaultTypeOK, StagesOK
  <1>5. TablesAreEnteredOnce'
    BY DEF TablesAreEnteredOnce, FaultTypeOK, StagesOK
  <1>6. SerialInv'
    <2> SUFFICES ASSUME ~load.overlap
                 PROVE  (/\ OneHandler /\ EntriesAreReachable /\ HandlerSees
                         /\ FramesAreAccounted /\ WritesSurvive /\ ZeroedBeforeUse)'
      BY DEF SerialInv
    <2>0. /\ OneHandler /\ EntriesAreReachable /\ HandlerSees
          /\ FramesAreAccounted /\ WritesSurvive /\ ZeroedBeforeUse
      BY DEF SerialInv
    <2>1. OneHandler'
      BY <2>0 DEF OneHandler, FaultTypeOK, StagesOK
    <2>2. EntriesAreReachable'
      BY <2>0 DEF EntriesAreReachable, FaultTypeOK, StagesOK
    <2>3. HandlerSees'
      BY <2>0 DEF HandlerSees, OneHandler, FrameOf, FaultTypeOK, StagesOK
    <2>4. FramesAreAccounted'
      BY <2>0, <1>0, <1>r, <1>f DEF FramesAreAccounted
    <2>5. WritesSurvive'
      BY <2>0 DEF WritesSurvive, FrameOf, FaultTypeOK, StagesOK
    <2>6. ZeroedBeforeUse'
      BY <2>0 DEF ZeroedBeforeUse, FrameOf, FaultTypeOK, StagesOK
    <2> QED BY <2>1, <2>2, <2>3, <2>4, <2>5, <2>6
  <1> QED BY <1>1, <1>2, <1>3, <1>4, <1>5, <1>6

LEMMA AcquireDataFailsStep ==
  ASSUME PageFaultAssumption, IInv, NEW c \in Cpus, AcquireDataFails(c)
  PROVE  IInv'
  <1> USE DEF IInv, AcquireDataFails, Step, AbortMission, tables, cpuVars, PageFaultAssumption,
             HandlerSteps, BeforePage, BeforeTable, BeforeLeaf, WithTable
  <1>1. FaultTypeOK'
    BY DEF FaultTypeOK, StagesOK
  <1>2. StagesOK'
    BY DEF FaultTypeOK, StagesOK
  <1>3. RolesAreDistinct'
    BY DEF RolesAreDistinct, IsTable, IsData, FaultTypeOK, StagesOK
  <1>4. PagesAreEnteredOnce'
    BY DEF PagesAreEnteredOnce, FaultTypeOK, StagesOK
  <1>5. TablesAreEnteredOnce'
    BY DEF TablesAreEnteredOnce, FaultTypeOK, StagesOK
  <1>6. SerialInv'
    <2> SUFFICES ASSUME ~load.overlap
                 PROVE  (/\ OneHandler /\ EntriesAreReachable /\ HandlerSees
                         /\ FramesAreAccounted /\ WritesSurvive /\ ZeroedBeforeUse)'
      BY DEF SerialInv
    <2>0. /\ OneHandler /\ EntriesAreReachable /\ HandlerSees
          /\ FramesAreAccounted /\ WritesSurvive /\ ZeroedBeforeUse
      BY DEF SerialInv
    <2>1. OneHandler'
      BY <2>0 DEF OneHandler, FaultTypeOK, StagesOK
    <2>2. EntriesAreReachable'
      BY <2>0 DEF EntriesAreReachable, FaultTypeOK, StagesOK
    <2>3. HandlerSees'
      BY <2>0 DEF HandlerSees, OneHandler, FrameOf, FaultTypeOK, StagesOK
    <2>4. FramesAreAccounted'
      BY <2>0 DEF FramesAreAccounted, IsTable, IsData, FaultTypeOK, StagesOK
    <2>5. WritesSurvive'
      BY <2>0 DEF WritesSurvive, FrameOf, FaultTypeOK, StagesOK
    <2>6. ZeroedBeforeUse'
      BY <2>0 DEF ZeroedBeforeUse, FrameOf, FaultTypeOK, StagesOK
    <2> QED BY <2>1, <2>2, <2>3, <2>4, <2>5, <2>6
  <1> QED BY <1>1, <1>2, <1>3, <1>4, <1>5, <1>6

LEMMA StructPresentStep ==
  ASSUME PageFaultAssumption, IInv, NEW c \in Cpus, StructPresent(c)
  PROVE  IInv'
  <1> USE DEF IInv, StructPresent, Step, tables, cpuVars, PageFaultAssumption,
             HandlerSteps, BeforePage, BeforeTable, BeforeLeaf, WithTable
  <1>0. Dir[va[c]] \in Dirs /\ dir[Dir[va[c]]] \in Frames
    BY DEF FaultTypeOK, StagesOK, Dirs
  <1>r. \A g \in Frames : /\ IsTable(g)' <=> IsTable(g)
                          /\ IsData(g)' <=> IsData(g)
    BY <1>0 DEF IsTable, IsData, FaultTypeOK, StagesOK
  <1>1. FaultTypeOK'
    BY <1>0 DEF FaultTypeOK, StagesOK
  <1>2. StagesOK'
    BY DEF FaultTypeOK, StagesOK
  <1>3. RolesAreDistinct'
    BY <1>r DEF RolesAreDistinct
  <1>4. PagesAreEnteredOnce'
    BY DEF PagesAreEnteredOnce, FaultTypeOK, StagesOK
  <1>5. TablesAreEnteredOnce'
    BY <1>0 DEF TablesAreEnteredOnce, FaultTypeOK, StagesOK
  <1>6. SerialInv'
    <2> SUFFICES ASSUME ~load.overlap
                 PROVE  (/\ OneHandler /\ EntriesAreReachable /\ HandlerSees
                         /\ FramesAreAccounted /\ WritesSurvive /\ ZeroedBeforeUse)'
      BY DEF SerialInv
    <2>0. /\ OneHandler /\ EntriesAreReachable /\ HandlerSees
          /\ FramesAreAccounted /\ WritesSurvive /\ ZeroedBeforeUse
      BY DEF SerialInv
    <2>1. OneHandler'
      BY <2>0 DEF OneHandler, FaultTypeOK, StagesOK
    <2>2. EntriesAreReachable'
      BY <2>0 DEF EntriesAreReachable, FaultTypeOK, StagesOK
    <2>3. HandlerSees'
      BY <2>0 DEF HandlerSees, OneHandler, FrameOf, FaultTypeOK, StagesOK
    <2>4. FramesAreAccounted'
      BY <2>0, <1>r DEF FramesAreAccounted
    <2>5. WritesSurvive'
      BY <2>0 DEF WritesSurvive, FrameOf, FaultTypeOK, StagesOK
    <2>6. ZeroedBeforeUse'
      BY <2>0 DEF ZeroedBeforeUse, FrameOf, FaultTypeOK, StagesOK
    <2> QED BY <2>1, <2>2, <2>3, <2>4, <2>5, <2>6
  <1> QED BY <1>1, <1>2, <1>3, <1>4, <1>5, <1>6

LEMMA StructMissingStep ==
  ASSUME PageFaultAssumption, IInv, NEW c \in Cpus, StructMissing(c)
  PROVE  IInv'
  <1> USE DEF IInv, StructMissing, Step, tables, cpuVars, PageFaultAssumption,
             HandlerSteps, BeforePage, BeforeTable, BeforeLeaf, WithTable
  <1>1. FaultTypeOK'
    BY DEF FaultTypeOK, StagesOK
  <1>2. StagesOK'
    BY DEF FaultTypeOK, StagesOK
  <1>3. RolesAreDistinct'
    BY DEF RolesAreDistinct, IsTable, IsData, FaultTypeOK, StagesOK
  <1>4. PagesAreEnteredOnce'
    BY DEF PagesAreEnteredOnce, FaultTypeOK, StagesOK
  <1>5. TablesAreEnteredOnce'
    BY DEF TablesAreEnteredOnce, FaultTypeOK, StagesOK
  <1>6. SerialInv'
    <2> SUFFICES ASSUME ~load.overlap
                 PROVE  (/\ OneHandler /\ EntriesAreReachable /\ HandlerSees
                         /\ FramesAreAccounted /\ WritesSurvive /\ ZeroedBeforeUse)'
      BY DEF SerialInv
    <2>0. /\ OneHandler /\ EntriesAreReachable /\ HandlerSees
          /\ FramesAreAccounted /\ WritesSurvive /\ ZeroedBeforeUse
      BY DEF SerialInv
    <2>1. OneHandler'
      BY <2>0 DEF OneHandler, FaultTypeOK, StagesOK
    <2>2. EntriesAreReachable'
      BY <2>0 DEF EntriesAreReachable, FaultTypeOK, StagesOK
    <2>3. HandlerSees'
      BY <2>0 DEF HandlerSees, OneHandler, FrameOf, FaultTypeOK, StagesOK
    <2>4. FramesAreAccounted'
      BY <2>0 DEF FramesAreAccounted, IsTable, IsData, FaultTypeOK, StagesOK
    <2>5. WritesSurvive'
      BY <2>0 DEF WritesSurvive, FrameOf, FaultTypeOK, StagesOK
    <2>6. ZeroedBeforeUse'
      BY <2>0 DEF ZeroedBeforeUse, FrameOf, FaultTypeOK, StagesOK
    <2> QED BY <2>1, <2>2, <2>3, <2>4, <2>5, <2>6
  <1> QED BY <1>1, <1>2, <1>3, <1>4, <1>5, <1>6

LEMMA AcquireStructStep ==
  ASSUME PageFaultAssumption, IInv, NEW c \in Cpus, AcquireStruct(c)
  PROVE  IInv'
  <1> USE DEF IInv, AcquireStruct, Step, PmAcquirePage, tables, cpuVars, PageFaultAssumption,
             HandlerSteps, BeforePage, BeforeTable, BeforeLeaf, WithTable
  <1>0. PICK f \in free : /\ free' = free \ {f} /\ raw' = raw \cup {f}
                          /\ pt' = [pt EXCEPT ![c] = f]
    OBVIOUS
  <1>r. \A g \in Frames : /\ IsTable(g)' <=> IsTable(g) \/ g = f
                          /\ IsData(g)' <=> IsData(g)
    BY <1>0 DEF IsTable, IsData, FaultTypeOK, StagesOK
  <1>f. f \in Frames /\ ~IsTable(f) /\ ~IsData(f)
    BY <1>0 DEF RolesAreDistinct, FaultTypeOK
  <1>1. FaultTypeOK'
    BY DEF FaultTypeOK, StagesOK
  <1>2. StagesOK'
    BY DEF FaultTypeOK, StagesOK
  <1>3. RolesAreDistinct'
    BY <1>0, <1>r, <1>f DEF RolesAreDistinct
  <1>4. PagesAreEnteredOnce'
    BY DEF PagesAreEnteredOnce, FaultTypeOK, StagesOK
  <1>5. TablesAreEnteredOnce'
    BY <1>0, <1>f DEF TablesAreEnteredOnce, IsTable, FaultTypeOK, StagesOK
  <1>6. SerialInv'
    <2> SUFFICES ASSUME ~load.overlap
                 PROVE  (/\ OneHandler /\ EntriesAreReachable /\ HandlerSees
                         /\ FramesAreAccounted /\ WritesSurvive /\ ZeroedBeforeUse)'
      BY DEF SerialInv
    <2>0. /\ OneHandler /\ EntriesAreReachable /\ HandlerSees
          /\ FramesAreAccounted /\ WritesSurvive /\ ZeroedBeforeUse
      BY DEF SerialInv
    <2>1. OneHandler'
      BY <2>0 DEF OneHandler, FaultTypeOK, StagesOK
    <2>2. EntriesAreReachable'
      BY <2>0 DEF EntriesAreReachable, FaultTypeOK, StagesOK
    <2>3. HandlerSees'
      <3>1. \A w \in Vpages : table[f][w] = None
        BY <2>0, <1>f DEF EntriesAreReachable, IsTable, Dirs
      <3> QED BY <2>0, <1>0, <3>1 DEF HandlerSees, OneHandler, FrameOf, FaultTypeOK, StagesOK
    <2>4. FramesAreAccounted'
      BY <2>0, <1>0, <1>r, <1>f DEF FramesAreAccounted
    <2>5. WritesSurvive'
      BY <2>0 DEF WritesSurvive, FrameOf, FaultTypeOK, StagesOK
    <2>6. ZeroedBeforeUse'
      BY <2>0 DEF ZeroedBeforeUse, FrameOf, FaultTypeOK, StagesOK
    <2> QED BY <2>1, <2>2, <2>3, <2>4, <2>5, <2>6
  <1> QED BY <1>1, <1>2, <1>3, <1>4, <1>5, <1>6

LEMMA AcquireStructFailsStep ==
  ASSUME PageFaultAssumption, IInv, NEW c \in Cpus, AcquireStructFails(c)
  PROVE  IInv'
  <1> USE DEF IInv, AcquireStructFails, Step, AbortMission, tables, cpuVars, PageFaultAssumption,
             HandlerSteps, BeforePage, BeforeTable, BeforeLeaf, WithTable
  <1>0. page[c] \in Frames
    BY DEF FaultTypeOK, StagesOK
  <1>r. \A g \in Frames : /\ IsTable(g)' <=> IsTable(g)
                          /\ IsData(g)' <=> IsData(g) /\ g # page[c]
    BY <1>0 DEF IsTable, IsData, PagesAreEnteredOnce, FaultTypeOK, StagesOK
  <1>f. IsData(page[c])
    BY DEF IsData
  <1>1. FaultTypeOK'
    BY <1>0 DEF FaultTypeOK, StagesOK
  <1>2. StagesOK'
    BY DEF FaultTypeOK, StagesOK
  <1>3. RolesAreDistinct'
    BY <1>0, <1>r, <1>f DEF RolesAreDistinct
  <1>4. PagesAreEnteredOnce'
    BY DEF PagesAreEnteredOnce, FaultTypeOK, StagesOK
  <1>5. TablesAreEnteredOnce'
    BY DEF TablesAreEnteredOnce, FaultTypeOK, StagesOK
  <1>6. SerialInv'
    <2> SUFFICES ASSUME ~load.overlap
                 PROVE  (/\ OneHandler /\ EntriesAreReachable /\ HandlerSees
                         /\ FramesAreAccounted /\ WritesSurvive /\ ZeroedBeforeUse)'
      BY DEF SerialInv
    <2>0. /\ OneHandler /\ EntriesAreReachable /\ HandlerSees
          /\ FramesAreAccounted /\ WritesSurvive /\ ZeroedBeforeUse
      BY DEF SerialInv
    <2>1. OneHandler'
      BY <2>0 DEF OneHandler, FaultTypeOK, StagesOK
    <2>2. EntriesAreReachable'
      BY <2>0 DEF EntriesAreReachable, FaultTypeOK, StagesOK
    <2>3. HandlerSees'
      BY <2>0 DEF HandlerSees, OneHandler, FrameOf, FaultTypeOK, StagesOK
    <2>4. FramesAreAccounted'
      BY <2>0, <1>0, <1>r, <1>f DEF FramesAreAccounted
    <2>5. WritesSurvive'
      BY <2>0 DEF WritesSurvive, FrameOf, FaultTypeOK, StagesOK
    <2>6. ZeroedBeforeUse'
      BY <2>0 DEF ZeroedBeforeUse, FrameOf, FaultTypeOK, StagesOK
    <2> QED BY <2>1, <2>2, <2>3, <2>4, <2>5, <2>6
  <1> QED BY <1>1, <1>2, <1>3, <1>4, <1>5, <1>6

LEMMA EnterStructStep ==
  ASSUME PageFaultAssumption, IInv, NEW c \in Cpus, EnterStruct(c)
  PROVE  IInv'
  <1> USE DEF IInv, EnterStruct, Step, tables, cpuVars, PageFaultAssumption,
             HandlerSteps, BeforePage, BeforeTable, BeforeLeaf, WithTable
  <1>0. Dir[va[c]] \in Dirs /\ pt[c] \in Frames
    BY DEF FaultTypeOK, StagesOK, Dirs
  <1>1. FaultTypeOK'
    BY DEF FaultTypeOK, StagesOK
  <1>2. StagesOK'
    BY DEF FaultTypeOK, StagesOK
  <1>3. RolesAreDistinct'
    BY DEF RolesAreDistinct, IsTable, IsData, FaultTypeOK, StagesOK
  <1>4. PagesAreEnteredOnce'
    BY DEF PagesAreEnteredOnce, FaultTypeOK, StagesOK
  <1>5. TablesAreEnteredOnce'
    BY DEF TablesAreEnteredOnce, FaultTypeOK, StagesOK
  <1>6. SerialInv'
    <2> SUFFICES ASSUME ~load.overlap
                 PROVE  (/\ OneHandler /\ EntriesAreReachable /\ HandlerSees
                         /\ FramesAreAccounted /\ WritesSurvive /\ ZeroedBeforeUse)'
      BY DEF SerialInv
    <2>0. /\ OneHandler /\ EntriesAreReachable /\ HandlerSees
          /\ FramesAreAccounted /\ WritesSurvive /\ ZeroedBeforeUse
      BY DEF SerialInv
    <2>1. OneHandler'
      BY <2>0 DEF OneHandler, FaultTypeOK, StagesOK
    <2>2. EntriesAreReachable'
      BY <2>0, <1>0 DEF EntriesAreReachable, HandlerSees, FaultTypeOK, Dirs
    <2>3. HandlerSees'
      <3>1. \A w \in Vpages : table[pt[c]][w] = None
        BY <2>0 DEF HandlerSees
      <3>2. dir'[Dir[va[c]]] = pt[c] /\ FrameOf(va[c])' = None
        BY <1>0, <3>1 DEF FrameOf, FaultTypeOK, StagesOK
      <3> QED BY <2>0, <3>1, <3>2 DEF HandlerSees, OneHandler, FaultTypeOK, StagesOK
    <2>4. FramesAreAccounted'
      <3>1. dir[Dir[va[c]]] = None
        BY <2>0 DEF HandlerSees
      <3>2. \A g \in Frames : /\ IsTable(g)' <=> IsTable(g)
                              /\ IsData(g)' <=> IsData(g)
        BY <1>0, <3>1 DEF IsTable, IsData, FaultTypeOK
      <3> QED BY <2>0, <3>2 DEF FramesAreAccounted
    <2>5. WritesSurvive'
      <3>1. \A w \in Vpages : FrameOf(w) # None => FrameOf(w)' = FrameOf(w)
        BY <2>0, <1>0 DEF HandlerSees, FrameOf, FaultTypeOK, Dirs
      <3>2. \A w \in Vpages : FrameOf(w) = None => FrameOf(w)' = None
        BY <2>0, <1>0 DEF HandlerSees, FrameOf, FaultTypeOK, Dirs
      <3> QED BY <2>0, <3>1, <3>2 DEF WritesSurvive
    <2>6. ZeroedBeforeUse'
      <3>1. \A w \in Vpages : FrameOf(w) # None => FrameOf(w)' = FrameOf(w)
        BY <2>0, <1>0 DEF HandlerSees, FrameOf, FaultTypeOK, Dirs
      <3>2. \A w \in Vpages : FrameOf(w) = None => FrameOf(w)' = None
        BY <2>0, <1>0 DEF HandlerSees, FrameOf, FaultTypeOK, Dirs
      <3> QED BY <2>0, <3>1, <3>2 DEF ZeroedBeforeUse, StagesOK
    <2> QED BY <2>1, <2>2, <2>3, <2>4, <2>5, <2>6
  <1> QED BY <1>1, <1>2, <1>3, <1>4, <1>5, <1>6

LEMMA ZeroStructStep ==
  ASSUME PageFaultAssumption, IInv, NEW c \in Cpus, ZeroStruct(c)
  PROVE  IInv'
  <1> USE DEF IInv, ZeroStruct, Step, tables, cpuVars, PageFaultAssumption,
             HandlerSteps, BeforePage, BeforeTable, BeforeLeaf, WithTable
  <1>0. pt[c] \in Frames
    BY DEF FaultTypeOK, StagesOK
  <1>t. ASSUME ~load.overlap PROVE \A f \in Frames, v \in Vpages : table'[f][v] = table[f][v]
    <2>1. \A v \in Vpages : table[pt[c]][v] = None
      BY <1>t DEF SerialInv, HandlerSees
    <2>2. \A f \in Frames : table'[f] = IF f = pt[c] THEN [v \in Vpages |-> None] ELSE table[f]
      BY <1>0 DEF FaultTypeOK
    <2> QED BY <2>1, <2>2
  <1>1. FaultTypeOK'
    BY DEF FaultTypeOK, StagesOK
  <1>2. StagesOK'
    BY DEF FaultTypeOK, StagesOK
  <1>3. RolesAreDistinct'
    BY DEF RolesAreDistinct, IsTable, IsData, FaultTypeOK, StagesOK
  <1>4. PagesAreEnteredOnce'
    BY DEF PagesAreEnteredOnce, FaultTypeOK, StagesOK
  <1>5. TablesAreEnteredOnce'
    BY DEF TablesAreEnteredOnce, FaultTypeOK, StagesOK
  <1>6. SerialInv'
    <2> SUFFICES ASSUME ~load.overlap
                 PROVE  (/\ OneHandler /\ EntriesAreReachable /\ HandlerSees
                         /\ FramesAreAccounted /\ WritesSurvive /\ ZeroedBeforeUse)'
      BY DEF SerialInv
    <2>0. /\ OneHandler /\ EntriesAreReachable /\ HandlerSees
          /\ FramesAreAccounted /\ WritesSurvive /\ ZeroedBeforeUse
      BY DEF SerialInv
    <2>1. OneHandler'
      BY <2>0 DEF OneHandler, FaultTypeOK, StagesOK
    <2>2. EntriesAreReachable'
      BY <2>0 DEF EntriesAreReachable, FaultTypeOK, StagesOK
    <2>3. HandlerSees'
      BY <2>0 DEF HandlerSees, OneHandler, FrameOf, FaultTypeOK, StagesOK
    <2>4. FramesAreAccounted'
      <3>1. \A g \in Frames : /\ IsTable(g)' <=> IsTable(g)
                              /\ IsData(g)' <=> IsData(g)
        BY <1>t DEF IsTable, IsData
      <3> QED BY <2>0, <3>1 DEF FramesAreAccounted
    <2>5. WritesSurvive'
      <3>1. \A w \in Vpages : FrameOf(w)' = FrameOf(w)
        <4>1. \A w \in Vpages : dir[Dir[w]] \in Frames \cup {None}
          BY FrameOfType DEF FaultTypeOK
        <4>2. UNCHANGED dir
          OBVIOUS
        <4>3. ASSUME NEW w \in Vpages PROVE FrameOf(w)' = FrameOf(w)
          <5>1. CASE dir[Dir[w]] = None
            BY <4>2, <5>1 DEF FrameOf
          <5>2. CASE dir[Dir[w]] \in Frames
            <6>1. table'[dir[Dir[w]]][w] = table[dir[Dir[w]]][w]
              BY <1>t, <5>2
            <6> QED BY <4>2, <5>2, <6>1 DEF FrameOf
          <5> QED BY <4>1, <5>1, <5>2
        <4> QED BY <4>3
      <3> QED BY <2>0, <3>1 DEF WritesSurvive
    <2>6. ZeroedBeforeUse'
      BY <2>0 DEF ZeroedBeforeUse, FrameOf, FaultTypeOK, StagesOK
    <2> QED BY <2>1, <2>2, <2>3, <2>4, <2>5, <2>6
  <1> QED BY <1>1, <1>2, <1>3, <1>4, <1>5, <1>6

LEMMA EnterLeafStep ==
  ASSUME PageFaultAssumption, IInv, NEW c \in Cpus, EnterLeaf(c)
  PROVE  IInv'
  <1> USE DEF IInv, EnterLeaf, Step, tables, cpuVars, PageFaultAssumption,
             HandlerSteps, BeforePage, BeforeTable, BeforeLeaf, WithTable
  <1>0. /\ Dir[va[c]] \in Dirs /\ pt[c] \in Frames /\ page[c] \in Frames /\ va[c] \in Vpages
        /\ table'[pt[c]][va[c]] = page[c]
        /\ \A f \in Frames, v \in Vpages :
             f # pt[c] \/ v # va[c] => table'[f][v] = table[f][v]
    <2>1. pt[c] \in Frames /\ page[c] \in Frames /\ va[c] \in Vpages /\ Dir[va[c]] \in Dirs
      BY DEF FaultTypeOK, StagesOK, Dirs
    <2>2. \A f \in Frames : table'[f] = IF f = pt[c] THEN [table[f] EXCEPT ![va[c]] = page[c]]
                                                    ELSE table[f]
      BY <2>1 DEF FaultTypeOK
    <2>3. table[pt[c]] \in [Vpages -> Frames \cup {None}]
      BY <2>1 DEF FaultTypeOK
    <2> QED BY <2>1, <2>2, <2>3
  <1>1. FaultTypeOK'
    BY DEF FaultTypeOK, StagesOK
  <1>2. StagesOK'
    BY DEF FaultTypeOK, StagesOK
  <1>3. RolesAreDistinct'
    BY DEF RolesAreDistinct, IsTable, IsData, FaultTypeOK, StagesOK
  <1>4. PagesAreEnteredOnce'
    BY DEF PagesAreEnteredOnce, FaultTypeOK, StagesOK
  <1>5. TablesAreEnteredOnce'
    BY DEF TablesAreEnteredOnce, FaultTypeOK, StagesOK
  <1>6. SerialInv'
    <2> SUFFICES ASSUME ~load.overlap
                 PROVE  (/\ OneHandler /\ EntriesAreReachable /\ HandlerSees
                         /\ FramesAreAccounted /\ WritesSurvive /\ ZeroedBeforeUse)'
      BY DEF SerialInv
    <2>0. /\ OneHandler /\ EntriesAreReachable /\ HandlerSees
          /\ FramesAreAccounted /\ WritesSurvive /\ ZeroedBeforeUse
      BY DEF SerialInv
    <2>1. OneHandler'
      BY <2>0 DEF OneHandler, FaultTypeOK, StagesOK
    <2>2. EntriesAreReachable'
      BY <2>0, <1>0 DEF EntriesAreReachable, HandlerSees
    <2>3. HandlerSees'
      <3>1. written[va[c]] = None
        BY <2>0 DEF HandlerSees, WritesSurvive, StagesOK
      <3>2. dir[Dir[va[c]]] = pt[c]
        BY <2>0 DEF HandlerSees
      <3> QED BY <2>0, <1>0, <3>1, <3>2 DEF HandlerSees, OneHandler, StagesOK
    <2>4. FramesAreAccounted'
      <3>1. table[pt[c]][va[c]] = None
        BY <2>0, <1>0 DEF HandlerSees, FrameOf
      <3>2. \A g \in Frames : /\ IsTable(g)' <=> IsTable(g)
                              /\ IsData(g)' <=> IsData(g)
        BY <1>0, <3>1 DEF IsTable, IsData
      <3> QED BY <2>0, <3>2 DEF FramesAreAccounted
    <2>5. WritesSurvive'
      <3>1. FrameOf(va[c]) = None /\ dir[Dir[va[c]]] = pt[c]
        BY <2>0 DEF HandlerSees
      <3>2. \A w \in Vpages : FrameOf(w) # None => FrameOf(w)' = FrameOf(w)
        <4>1. \A w \in Vpages : dir[Dir[w]] \in Frames \cup {None}
          BY DEF FaultTypeOK, Dirs
        <4> QED BY <1>0, <3>1, <4>1 DEF FrameOf
      <3> QED BY <2>0, <3>2 DEF WritesSurvive
    <2>6. ZeroedBeforeUse'
      BY <2>0 DEF ZeroedBeforeUse, FrameOf, FaultTypeOK, StagesOK
    <2> QED BY <2>1, <2>2, <2>3, <2>4, <2>5, <2>6
  <1> QED BY <1>1, <1>2, <1>3, <1>4, <1>5, <1>6

LEMMA ZeroDataStep ==
  ASSUME PageFaultAssumption, IInv, NEW c \in Cpus, ZeroData(c)
  PROVE  IInv'
  <1> USE DEF IInv, ZeroData, Step, tables, cpuVars, PageFaultAssumption,
             HandlerSteps, BeforePage, BeforeTable, BeforeLeaf, WithTable
  <1>0. page[c] \in Frames /\ va[c] \in Vpages /\ pt[c] \in Frames
    BY DEF FaultTypeOK, StagesOK
  <1>f. \A w \in Vpages : FrameOf(w)' = FrameOf(w)
    BY DEF FrameOf
  <1>g. ~load.overlap => \A w \in Vpages : FrameOf(w) = page[c] <=> w = va[c]
    <2> SUFFICES ASSUME ~load.overlap PROVE \A w \in Vpages : FrameOf(w) = page[c] <=> w = va[c]
      OBVIOUS
    <2>1. FrameOf(va[c]) = page[c]
      BY <1>0 DEF SerialInv, HandlerSees, FrameOf
    <2> QED BY <1>0, <2>1, FramesOnce
  <1>1. FaultTypeOK'
    BY DEF FaultTypeOK, StagesOK
  <1>2. StagesOK'
    BY DEF FaultTypeOK, StagesOK
  <1>3. RolesAreDistinct'
    BY DEF RolesAreDistinct, IsTable, IsData, FaultTypeOK, StagesOK
  <1>4. PagesAreEnteredOnce'
    BY DEF PagesAreEnteredOnce, FaultTypeOK, StagesOK
  <1>5. TablesAreEnteredOnce'
    BY DEF TablesAreEnteredOnce, FaultTypeOK, StagesOK
  <1>6. SerialInv'
    <2> SUFFICES ASSUME ~load.overlap
                 PROVE  (/\ OneHandler /\ EntriesAreReachable /\ HandlerSees
                         /\ FramesAreAccounted /\ WritesSurvive /\ ZeroedBeforeUse)'
      BY DEF SerialInv
    <2>0. /\ OneHandler /\ EntriesAreReachable /\ HandlerSees
          /\ FramesAreAccounted /\ WritesSurvive /\ ZeroedBeforeUse
      BY DEF SerialInv
    <2>1. OneHandler'
      BY <2>0 DEF OneHandler, FaultTypeOK, StagesOK
    <2>2. EntriesAreReachable'
      BY <2>0 DEF EntriesAreReachable, FaultTypeOK, StagesOK
    <2>3. HandlerSees'
      BY <2>0 DEF HandlerSees, OneHandler, FrameOf, FaultTypeOK, StagesOK
    <2>4. FramesAreAccounted'
      BY <2>0 DEF FramesAreAccounted, IsTable, IsData, FaultTypeOK, StagesOK
    <2>5. WritesSurvive'
      <3>1. written[va[c]] = None
        BY <2>0 DEF HandlerSees
      <3>2. \A w \in Vpages : FrameOf(w) \in Frames \cup {None}
        BY FrameOfType
      <3> QED BY <2>0, <1>0, <1>f, <1>g, <3>1, <3>2 DEF WritesSurvive, FaultTypeOK
    <2>6. ZeroedBeforeUse'
      <3>2. \A w \in Vpages : FrameOf(w) \in Frames \cup {None}
        BY FrameOfType
      <3> QED BY <2>0, <1>0, <1>f, <1>g, <3>2 DEF ZeroedBeforeUse, OneHandler, FaultTypeOK, StagesOK
    <2> QED BY <2>1, <2>2, <2>3, <2>4, <2>5, <2>6
  <1> QED BY <1>1, <1>2, <1>3, <1>4, <1>5, <1>6

LEMMA ReturnStep ==
  ASSUME PageFaultAssumption, IInv, NEW c \in Cpus, Return(c)
  PROVE  IInv'
  <1> USE DEF IInv, Return, Step, tables, cpuVars, PageFaultAssumption,
             HandlerSteps, BeforePage, BeforeTable, BeforeLeaf, WithTable
  <1>1. FaultTypeOK'
    BY DEF FaultTypeOK, StagesOK
  <1>2. StagesOK'
    BY DEF FaultTypeOK, StagesOK
  <1>3. RolesAreDistinct'
    BY DEF RolesAreDistinct, IsTable, IsData, FaultTypeOK, StagesOK
  <1>4. PagesAreEnteredOnce'
    BY DEF PagesAreEnteredOnce, FaultTypeOK, StagesOK
  <1>5. TablesAreEnteredOnce'
    BY DEF TablesAreEnteredOnce, FaultTypeOK, StagesOK
  <1>6. SerialInv'
    <2> SUFFICES ASSUME ~load.overlap
                 PROVE  (/\ OneHandler /\ EntriesAreReachable /\ HandlerSees
                         /\ FramesAreAccounted /\ WritesSurvive /\ ZeroedBeforeUse)'
      BY DEF SerialInv
    <2>0. /\ OneHandler /\ EntriesAreReachable /\ HandlerSees
          /\ FramesAreAccounted /\ WritesSurvive /\ ZeroedBeforeUse
      BY DEF SerialInv
    <2>1. OneHandler'
      BY <2>0 DEF OneHandler, FaultTypeOK, StagesOK
    <2>2. EntriesAreReachable'
      BY <2>0 DEF EntriesAreReachable, FaultTypeOK, StagesOK
    <2>3. HandlerSees'
      BY <2>0 DEF HandlerSees, OneHandler, FrameOf, FaultTypeOK, StagesOK
    <2>4. FramesAreAccounted'
      <3>1. /\ pt[c] \in Frames /\ va[c] \in Vpages /\ Dir[va[c]] \in Dirs
            /\ dir[Dir[va[c]]] = pt[c] /\ table[pt[c]][va[c]] = page[c]
        BY <2>0 DEF HandlerSees, FaultTypeOK, StagesOK, Dirs
      <3>2. \A g \in Frames : /\ IsTable(g)' <=> IsTable(g)
                              /\ IsData(g)' <=> IsData(g)
        <4>1. \A d \in Cpus : /\ pt'[d] = IF d = c THEN None ELSE pt[d]
                              /\ page'[d] = IF d = c THEN None ELSE page[d]
          BY DEF FaultTypeOK
        <4>2. \A g \in Frames : IsTable(g)' <=> IsTable(g)
          BY <3>1, <4>1 DEF IsTable
        <4>3. \A g \in Frames : IsData(g)' <=> IsData(g)
          <5>1. ASSUME NEW g \in Frames, NEW d \in Cpus, page[d] = g PROVE IsData(g)'
            <6>1. CASE d = c
              BY <3>1, <5>1, <6>1 DEF IsData
            <6>2. CASE d # c
              BY <4>1, <5>1, <6>2 DEF IsData
            <6> QED BY <6>1, <6>2
          <5>2. ASSUME NEW g \in Frames, NEW d \in Cpus, page'[d] = g PROVE IsData(g)
            BY <4>1, <5>2 DEF IsData
          <5> QED BY <5>1, <5>2 DEF IsData
        <4> QED BY <4>2, <4>3
      <3> QED BY <2>0, <3>2 DEF FramesAreAccounted
    <2>5. WritesSurvive'
      BY <2>0 DEF WritesSurvive, FrameOf, FaultTypeOK, StagesOK
    <2>6. ZeroedBeforeUse'
      BY <2>0 DEF ZeroedBeforeUse, FrameOf, FaultTypeOK, StagesOK
    <2> QED BY <2>1, <2>2, <2>3, <2>4, <2>5, <2>6
  <1> QED BY <1>1, <1>2, <1>3, <1>4, <1>5, <1>6

LEMMA InitIInv == ASSUME PageFaultAssumption PROVE FaultInit => IInv
  <1> SUFFICES ASSUME FaultInit PROVE IInv
    OBVIOUS
  <1> USE DEF FaultInit, PageFaultAssumption
  <1>0. load.frames \subseteq Frames
    OBVIOUS
  <1>1. FaultTypeOK
    <2>1. table \in [Frames -> [Vpages -> Frames \cup {None}]]
      OBVIOUS
    <2>2. data \in [Frames -> {"old", "zero"} \cup Cpus]
      OBVIOUS
    <2>3. \A c \in Cpus : bInPageFault[c] = (pc[c] # "run")
      OBVIOUS
    <2>4. dir \in [Dirs -> Frames \cup {None}] /\ written \in [Vpages -> Cpus \cup {None}]
      OBVIOUS
    <2>5. /\ va \in [Cpus -> Vpages \cup {None}]
          /\ page \in [Cpus -> Frames \cup {None}] /\ pt \in [Cpus -> Frames \cup {None}]
      OBVIOUS
    <2> QED BY <1>0, <2>1, <2>2, <2>3, <2>4, <2>5 DEF FaultTypeOK
  <1>2. StagesOK
    BY DEF StagesOK, HandlerSteps, BeforePage, BeforeTable
  <1>3. \A f \in Frames : ~IsTable(f) /\ ~IsData(f)
    BY DEF IsTable, IsData
  <1>4. \A v \in Vpages : FrameOf(v) = None
    BY DEF FrameOf, Dirs
  <1>5. RolesAreDistinct /\ PagesAreEnteredOnce /\ TablesAreEnteredOnce
    BY <1>3 DEF RolesAreDistinct, PagesAreEnteredOnce, TablesAreEnteredOnce, BeforeLeaf
  <1>6. SerialInv
    <2>1. OneHandler /\ EntriesAreReachable /\ HandlerSees
      BY DEF OneHandler, EntriesAreReachable, HandlerSees, BeforeLeaf, WithTable
    <2>2. FramesAreAccounted
      BY <1>3 DEF FramesAreAccounted
    <2>3. WritesSurvive /\ ZeroedBeforeUse
      BY <1>4 DEF WritesSurvive, ZeroedBeforeUse
    <2> QED BY <2>1, <2>2, <2>3 DEF SerialInv
  <1> QED BY <1>1, <1>2, <1>5, <1>6 DEF IInv

LEMMA NextIInv == ASSUME PageFaultAssumption PROVE IInv /\ [FaultNext]_faultVars => IInv'
  <1> SUFFICES ASSUME IInv, [FaultNext]_faultVars PROVE IInv'
    OBVIOUS
  <1>1. ASSUME NEW c \in Cpus, Handle(c) PROVE IInv'
    <2>1. CASE LocateRegion(c) \/ LocateFails(c) \/ AcquireData(c) \/ AcquireDataFails(c)
      BY <2>1, LocateRegionStep, LocateFailsStep, AcquireDataStep, AcquireDataFailsStep
    <2>2. CASE \/ StructPresent(c) \/ StructMissing(c)
               \/ AcquireStruct(c) \/ AcquireStructFails(c)
      BY <2>2, StructPresentStep, StructMissingStep, AcquireStructStep, AcquireStructFailsStep
    <2>3. CASE \/ EnterStruct(c) \/ ZeroStruct(c)
               \/ EnterLeaf(c) \/ ZeroData(c) \/ Return(c)
      BY <2>3, EnterStructStep, ZeroStructStep, EnterLeafStep, ZeroDataStep, ReturnStep
    <2> QED BY <1>1, <2>1, <2>2, <2>3 DEF Handle
  <1>2. ASSUME NEW c \in Cpus, NEW v \in Vpages, Access(c, v) PROVE IInv'
    BY <1>2, WriteStep, FaultStep, WildAccessStep DEF Access
  <1>3. CASE UNCHANGED faultVars
    <2> USE <1>3 DEF faultVars, tables, cpuVars, IInv
    <2>1. (FaultTypeOK /\ StagesOK)'
      BY DEF FaultTypeOK, StagesOK
    <2>2. (RolesAreDistinct /\ PagesAreEnteredOnce /\ TablesAreEnteredOnce)'
      BY DEF RolesAreDistinct, PagesAreEnteredOnce, TablesAreEnteredOnce, IsTable, IsData
    <2>3. SerialInv'
      BY DEF SerialInv, OneHandler, EntriesAreReachable, HandlerSees, FramesAreAccounted,
             IsTable, IsData, WritesSurvive, ZeroedBeforeUse, FrameOf
    <2> QED BY <2>1, <2>2, <2>3
  <1> QED BY <1>1, <1>2, <1>3 DEF FaultNext
----------------------------------------------------------------------------
(* The theorem *)

LEMMA OneUse == ASSUME PageFaultAssumption, IInv PROVE FramesHaveOneUse
  <1> USE DEF IInv
  <1>1. \A f \in TableFrames : f \in Frames /\ IsTable(f)
    BY DEF TableFrames, IsTable, FaultTypeOK
  <1>2. \A f \in DataFrames : f \in Frames /\ IsData(f)
    <2> SUFFICES ASSUME NEW v \in Vpages, FrameOf(v) # None
                 PROVE  FrameOf(v) \in Frames /\ IsData(FrameOf(v))
      BY DEF DataFrames
    <2> QED BY FrameOfType DEF IsData
  <1>3. (TableFrames \cup DataFrames) \cap free = {} /\ TableFrames \cap DataFrames = {}
    BY <1>1, <1>2 DEF RolesAreDistinct
  <1> QED BY <1>3, FramesOnce DEF FramesHaveOneUse, TablesAreEnteredOnce

LEMMA NoneLost == ASSUME PageFaultAssumption, IInv PROVE NoFrameIsLost
  <1> SUFFICES ASSUME ~load.overlap, \A c \in Cpus : pc[c] = "run"
               PROVE  free \cup TableFrames \cup DataFrames = load.frames
    BY DEF NoFrameIsLost
  <1> USE DEF IInv
  <1>1. \A f \in Frames : IsTable(f) <=> f \in TableFrames
    BY DEF IsTable, TableFrames, StagesOK, BeforeTable, BeforePage, PageFaultAssumption
  <1>2. \A f \in Frames : IsData(f) <=> f \in DataFrames
    <2>1. ASSUME NEW f \in Frames, IsData(f) PROVE f \in DataFrames
      <3>1. PICK g \in Frames, v \in Vpages : table[g][v] = f
        BY <2>1 DEF IsData, StagesOK, BeforePage, PageFaultAssumption
      <3>2. FrameOf(v) = f
        BY <3>1 DEF SerialInv, EntriesAreReachable, FrameOf, PageFaultAssumption
      <3> QED BY <3>2 DEF DataFrames, PageFaultAssumption
    <2>2. ASSUME NEW f \in DataFrames PROVE IsData(f)
      <3>1. PICK v \in Vpages : f = FrameOf(v) /\ f # None
        BY DEF DataFrames
      <3> QED BY <3>1, FrameOfType DEF IsData
    <2> QED BY <2>1, <2>2
  <1>3. load.frames \subseteq Frames /\ free \subseteq Frames
    BY DEF StagesOK, FaultTypeOK, PageFaultAssumption
  <1>4. TableFrames \subseteq Frames
    BY DEF TableFrames, FaultTypeOK
  <1>5. DataFrames \subseteq Frames
    BY FrameOfType DEF DataFrames
  <1> QED BY <1>1, <1>2, <1>3, <1>4, <1>5 DEF SerialInv, FramesAreAccounted

(* IntmgmtPageFault: however handlers overlap, a reachable frame is not    *)
(* free, is not both page and page table and is found one way only; and    *)
(* without overlap no frame is lost, no write is lost, and no page shows   *)
(* the old content of its frame.                                           *)
THEOREM FaultsHandled == ASSUME PageFaultAssumption PROVE FaultSpec => []FaultsAreHandled
  <1>1. FaultInit => IInv
    BY InitIInv
  <1>2. IInv /\ [FaultNext]_faultVars => IInv'
    BY NextIInv
  <1>3. IInv => FaultsAreHandled
    <2> SUFFICES ASSUME IInv PROVE FaultsAreHandled
      OBVIOUS
    <2>1. SerialWritesSurvive
      BY DEF IInv, SerialInv, SerialWritesSurvive
    <2>2. NothingOldIsSeen
      BY DEF IInv, SerialInv, ZeroedBeforeUse, NothingOldIsSeen
    <2> QED BY <2>1, <2>2, OneUse, NoneLost DEF IInv, FaultsAreHandled
  <1> QED BY <1>1, <1>2, <1>3, PTL DEF FaultSpec
-----------------------------------------------------------------------------
(* The regions of the address space *)


(* Neither the head of the device window nor the allocator of nodes has a   *)
(* limit in the code.  What the theorem asks for instead: the devices fit   *)
(* into the window at span pages each, and the third page of nodes, whose   *)
(* addresses repeat those of the second, is not needed or not to be had.    *)
WindowHolds(span) ==
  /\ \A d \in Devices : d.size + LargePage - 1 <= span
  /\ MmioStart + MaxDevices * span <= BinaryStart

NodesSuffice == MaxRnaPages <= 2 \/ MaxDevices + 4 <= 2 * SignBit

RegionSet == [VaddrStart : Nat, VaddrEnd : Nat,
              Flags : SUBSET {"static", "write", "exec", "anywhere", "largePages"}]

PageSet == [This : Int, Prev : Int, Bitmap : SUBSET Nat, NrSlots : Nat]
-----------------------------------------------------------------------------
(* The inductive invariant *)

Shape ==
  /\ vmrs \in Seq(RegionSet) /\ Len(vmrs) >= 2 /\ NrVMRs = Len(vmrs)
  /\ nDev \in 0 .. MaxDevices
  /\ Head_ \in Nat /\ MmioStart <= Head_
  /\ \A v \in DOMAIN mapped : mapped[v] \in Nat

(* The device window is not used up. *)
HeadInWindow(span) == Head_ <= MmioStart + nDev * span

(* The binary and the frame buffer end the list; the end of the latter may *)
(* lie before its start.                                                   *)
StaticsAreLast ==
  /\ vmrs[Len(vmrs) - 1].VaddrStart = BinaryStart
  /\ vmrs[Len(vmrs) - 1].VaddrEnd = BinaryStart + BinarySize
  /\ vmrs[Len(vmrs)].VaddrStart = FrameBuffer

(* The others: the low map, the heap and what was below the head.  The code *)
(* does not refuse a range that overlaps a region; that none does follows   *)
(* from where each caller's ranges are.                                     *)
InPart(r, part) == r.VaddrStart = part.start /\ r.VaddrEnd = part.end

OthersHaveTheirPlace ==
  \A i \in 1 .. Len(vmrs) - 2 :
     \/ InPart(vmrs[i], LowMap) \/ InPart(vmrs[i], HeapRange)
     \/ MmioStart <= vmrs[i].VaddrStart /\ vmrs[i].VaddrEnd <= Head_

Ordered ==
  /\ \A i \in 1 .. Len(vmrs) - 1 : vmrs[i].VaddrStart < vmrs[i].VaddrEnd
  /\ \A i, j \in 1 .. Len(vmrs) : i < j => vmrs[i].VaddrEnd <= vmrs[j].VaddrStart

(* The nodes go through the first page up to the slot of the sign bit,     *)
(* which takes all that are left, and then likewise through the second.    *)
SlotsTaken(k) == IF k < SignBit THEN 0 .. k ELSE SlotIDs

NodeAt(j) == IF j <= SignBit THEN <<1, j>> ELSE <<0, j - SignBit>>

NodesInOrder ==
  /\ rna \in Seq(PageSet) /\ Len(rna) \in {1, 2}
  /\ nodes \in Seq(Nat \X Nat) /\ \A j \in DOMAIN nodes : nodes[j] = NodeAt(j)
  /\ rna[1].This = 1
  /\ Len(rna) = 1 => Len(nodes) \in 1 .. SignBit /\ rna[1].Bitmap = SlotsTaken(Len(nodes))
  /\ Len(rna) = 2 => /\ Len(nodes) \in SignBit + 1 .. 2 * SignBit
                     /\ rna[1].Bitmap = SlotIDs /\ rna[2].This = 0
                     /\ rna[2].Bitmap = SlotsTaken(Len(nodes) - SignBit)

Had(start) == IF HasRegion(start) THEN 1 ELSE 0

NodesAreCounted ==
  /\ Len(nodes) = Len(vmrs)
  /\ Len(vmrs) <= 2 + Had(LowMap.start) + Had(HeapRange.start) + nDev

DevicesAreBelowHead ==
  \A d \in devs : /\ d \in [vaddr : Nat, paddr : Nat, size : Nat]
                  /\ MmioStart <= d.vaddr /\ d.vaddr + d.size <= Head_

SpaceIInv(span) ==
  /\ Shape /\ HeadInWindow(span)
  /\ StaticsAreLast /\ OthersHaveTheirPlace /\ Ordered
  /\ NodesInOrder /\ NodesAreCounted
  /\ DevicesAreBelowHead /\ DevicesStayMapped
-----------------------------------------------------------------------------
(* The operators *)

LEMMA SpaceConstants ==
  /\ MmioStart \in Nat /\ BinaryStart \in Nat /\ BinarySize \in Nat \ {0} /\ FrameBuffer \in Nat
  /\ LargePage \in Nat \ {0} /\ MaxDevices \in Nat /\ FrameSize \in Nat /\ SignBit \in Nat \ {0}
  /\ LowMap.start \in Nat /\ LowMap.end \in Nat /\ HeapRange.start \in Nat /\ HeapRange.end \in Nat
  /\ LowMap.end <= HeapRange.start /\ HeapRange.start <= HeapRange.end /\ HeapRange.end <= MmioStart
  /\ BinaryStart + BinarySize <= FrameBuffer
<1>1. SignBit \in Nat \ {0}
  BY RnaAssumption
<1>2. /\ MmioStart \in Nat /\ BinaryStart \in Nat /\ BinarySize \in Nat /\ FrameBuffer \in Nat
      /\ LargePage \in Nat /\ MaxDevices \in Nat /\ FrameSize \in Nat
  BY VmmAssumption
<1>3. LowMap \in [start : Nat, end : Nat] /\ HeapRange \in [start : Nat, end : Nat]
  BY VmmAssumption
<1> QED
  BY <1>1, <1>2, <1>3, VmmAssumption

Inserts(t, s, p, e, S) ==
  /\ t \in Seq(S) /\ Len(t) = Len(s) + 1
  /\ \A j \in 1 .. Len(s) + 1 : t[j] = IF j < p THEN s[j] ELSE IF j = p THEN e ELSE s[j - 1]

LEMMA InsertAtFacts ==
  ASSUME NEW S, NEW s \in Seq(S), NEW p \in 1 .. Len(s) + 1, NEW e \in S
  PROVE  Inserts(InsertAt(s, p, e), s, p, e, S)
<1> DEFINE a == SubSeq(s, 1, p - 1)
           b == SubSeq(s, p, Len(s))
<1>1. a \in Seq(S) /\ Len(a) = p - 1 /\ \A j \in 1 .. p - 1 : a[j] = s[j]
  BY SubSeqProperties
<1>2. b \in Seq(S) /\ Len(b) = Len(s) - p + 1 /\ \A j \in 1 .. Len(s) - p + 1 : b[j] = s[p + j - 1]
  BY SubSeqProperties
<1>3. InsertAt(s, p, e) = (a \o <<e>>) \o b
  BY DEF InsertAt
<1> HIDE DEF a, b
<1>4. /\ a \o <<e>> \in Seq(S) /\ Len(a \o <<e>>) = p
      /\ \A j \in 1 .. p : (a \o <<e>>)[j] = IF j < p THEN s[j] ELSE e
  BY <1>1
<1> DEFINE c == a \o <<e>>
<1> HIDE DEF c
<1>0. Len(s) \in Nat /\ p \in Int
  OBVIOUS
<1>9. c \in Seq(S) /\ Len(c) = p /\ \A j \in 1 .. p : c[j] = IF j < p THEN s[j] ELSE e
  BY <1>4 DEF c
<1>5. /\ c \o b \in Seq(S) /\ Len(c \o b) = Len(s) + 1
      /\ \A j \in 1 .. Len(s) + 1 : (c \o b)[j] = IF j <= p THEN c[j] ELSE b[j - p]
  <2> HIDE DEF b
  <2>1. /\ c \o b \in Seq(S) /\ Len(c \o b) = Len(c) + Len(b)
        /\ \A j \in 1 .. Len(c) + Len(b) : (c \o b)[j] = IF j <= Len(c) THEN c[j] ELSE b[j - Len(c)]
    BY <1>2, <1>9, ConcatProperties, Zenon
  <2>2. Len(c) + Len(b) = Len(s) + 1
    BY <1>0, <1>2, <1>9
  <2> QED
    BY <2>1, <2>2, <1>9
<1>6. ASSUME NEW j \in 1 .. Len(s) + 1
      PROVE  (c \o b)[j] = IF j < p THEN s[j] ELSE IF j = p THEN e ELSE s[j - 1]
  <2>1. CASE j <= p
    BY <2>1, <1>0, <1>9, <1>5
  <2>2. CASE j > p
    <3>1. j - p \in 1 .. Len(s) - p + 1 /\ p + (j - p) - 1 = j - 1
      BY <2>2, <1>0
    <3> QED
      BY <2>2, <3>1, <1>2, <1>5
  <2>3. j <= p \/ j > p
    BY <1>0
  <2> QED
    BY <2>1, <2>2, <2>3, Zenon
<1> QED
  BY <1>3, <1>5, <1>6, Zenon DEF c, Inserts

(* Rounding up to a multiple moves by less than the multiple. *)
LEMMA RoundUp ==
  ASSUME NEW n \in Nat, NEW a \in Nat, a > 0
  PROVE  /\ ((n + a - 1) \div a) * a \in Nat
         /\ n <= ((n + a - 1) \div a) * a
         /\ ((n + a - 1) \div a) * a <= n + a - 1
<1> DEFINE q == (n + a - 1) \div a
<1>1. q \in Nat /\ a * q <= n + a - 1 /\ n + a - 1 < a * q + a
  OBVIOUS
<1> HIDE DEF q
<1>2. q * a = a * q /\ a * q \in Nat
  BY <1>1
<1>3. ((n + a - 1) \div a) * a = q * a
  BY DEF q
<1> QED
  BY <1>1, <1>2, <1>3

(* A range below the binary that overlaps no region is given the place     *)
(* between the regions below and above it.                                 *)
Apart(start, end) ==
  \A i \in 1 .. Len(vmrs) - 1 : vmrs[i].VaddrEnd <= start \/ end <= vmrs[i].VaddrStart

Splits(p, start, end) ==
  /\ p \in 1 .. Len(vmrs) - 1
  /\ \A j \in 1 .. p - 1 : vmrs[j].VaddrEnd <= start
  /\ \A j \in p .. Len(vmrs) : end <= vmrs[j].VaddrStart

RegionFacts == \A i \in 1 .. Len(vmrs) : vmrs[i].VaddrStart \in Nat /\ vmrs[i].VaddrEnd \in Nat

LEMMA RegionTypes ==
  ASSUME vmrs \in Seq(RegionSet)
  PROVE  /\ RegionFacts /\ Len(vmrs) \in Nat /\ DOMAIN vmrs = 1 .. Len(vmrs)
         /\ \A i \in 1 .. Len(vmrs) : vmrs[i] \in RegionSet
<1> HIDE DEF RegionSet
<1>1. Len(vmrs) \in Nat /\ DOMAIN vmrs = 1 .. Len(vmrs) /\ \A i \in 1 .. Len(vmrs) : vmrs[i] \in RegionSet
  OBVIOUS
<1> QED
  BY <1>1 DEF RegionSet, RegionFacts

LEMMA FindPlace ==
  ASSUME vmrs \in Seq(RegionSet), Len(vmrs) >= 2, StaticsAreLast, Ordered,
         NEW start \in Nat, NEW end \in Nat, start < end, end <= BinaryStart, Apart(start, end),
         VmFindInsertPoint(start, end) # 0
  PROVE  Splits(VmFindInsertPoint(start, end), start, end)
<1> DEFINE Stops(i) == GoesBefore(i, end) \/ GoesAfter(i, start, end)
           first == {i \in DOMAIN vmrs : Stops(i) /\ \A j \in 1 .. i - 1 : ~Stops(j)}
           i == CHOOSE i \in first : TRUE
           n == Len(vmrs)
<1>1. RegionFacts /\ n \in Nat /\ DOMAIN vmrs = 1 .. n
  BY RegionTypes
<1>2. first # {} /\ VmFindInsertPoint(start, end) = IF GoesBefore(i, end) THEN i ELSE i + 1
  BY DEF VmFindInsertPoint
<1>3. i \in 1 .. n /\ Stops(i) /\ \A j \in 1 .. i - 1 : ~Stops(j)
  BY <1>1, <1>2
<1> HIDE DEF i
<1>4. i <= n - 1
  <2>1. GoesBefore(n - 1, end)
    BY <1>1, VmmAssumption DEF GoesBefore, StaticsAreLast
  <2> QED
    BY <2>1, <1>1, <1>3
<1>5. CASE GoesBefore(i, end)
  <2>1. \A j \in i .. n : end <= vmrs[j].VaddrStart
    <3> SUFFICES ASSUME NEW j \in i .. n, i < j PROVE end <= vmrs[j].VaddrStart
      BY <1>1, <1>3, <1>5 DEF GoesBefore
    <3>1. end <= vmrs[i].VaddrStart /\ vmrs[i].VaddrStart < vmrs[i].VaddrEnd /\ vmrs[i].VaddrEnd <= vmrs[j].VaddrStart
      BY <1>1, <1>3, <1>4, <1>5 DEF GoesBefore, Ordered
    <3> QED
      BY <3>1, <1>1, <1>3 DEF RegionFacts
  <2>2. ASSUME NEW j \in 1 .. i - 1 PROVE vmrs[j].VaddrEnd <= start
    <3>1. j \in 1 .. n - 1
      <4> HIDE DEF Stops
      <4> QED
        BY <1>1, <1>3, <1>4
    <3>2. ~GoesBefore(j, end)
      BY <1>3, Zenon
    <3> QED
      BY <3>1, <3>2, <1>1 DEF GoesBefore, Apart, RegionFacts
  <2> QED
    BY <1>1, <1>2, <1>3, <1>4, <1>5, <2>1, <2>2 DEF Splits
<1>6. CASE ~GoesBefore(i, end)
  <2>1. vmrs[i].VaddrEnd <= start /\ end < vmrs[i + 1].VaddrStart /\ start < vmrs[i + 1].VaddrStart
    BY <1>1, <1>3, <1>4, <1>6 DEF GoesAfter, RegionFacts
  <2>2. i + 1 <= n - 1
    <3>1. i # n - 1
      BY <1>1, <1>6, VmmAssumption DEF StaticsAreLast, GoesBefore
    <3>2. i \in 1 .. n
      BY <1>3
    <3>3. n \in Nat
      BY <1>1
    <3> HIDE DEF n
    <3> QED
      BY <3>1, <3>2, <3>3, <1>4
  <2>3. \A j \in 1 .. i : vmrs[j].VaddrEnd <= start
    <3> SUFFICES ASSUME NEW j \in 1 .. i, j < i PROVE vmrs[j].VaddrEnd <= start
      BY <1>1, <1>3, <2>1
    <3>1. vmrs[j].VaddrEnd <= vmrs[i].VaddrStart /\ vmrs[i].VaddrStart < vmrs[i].VaddrEnd
      BY <1>1, <1>3, <1>4 DEF Ordered
    <3> QED
      BY <3>1, <2>1, <1>1, <1>3 DEF RegionFacts
  <2>4. \A j \in i + 1 .. n : end <= vmrs[j].VaddrStart
    <3> SUFFICES ASSUME NEW j \in i + 1 .. n, i + 1 < j PROVE end <= vmrs[j].VaddrStart
      BY <1>1, <1>3, <2>1, <2>2 DEF RegionFacts
    <3>1. vmrs[i + 1].VaddrStart < vmrs[i + 1].VaddrEnd /\ vmrs[i + 1].VaddrEnd <= vmrs[j].VaddrStart
      BY <1>1, <1>3, <2>2 DEF Ordered
    <3> QED
      BY <3>1, <2>1, <2>2, <1>1, <1>3 DEF RegionFacts
  <2> QED
    BY <1>1, <1>2, <1>3, <1>6, <2>2, <2>3, <2>4 DEF Splits
<1> QED
  BY <1>5, <1>6

(* With such a place the list stays in order and keeps its end. *)
LEMMA InsertKeepsOrder ==
  ASSUME vmrs \in Seq(RegionSet), Len(vmrs) >= 2, StaticsAreLast, Ordered,
         NEW r \in RegionSet, NEW p, r.VaddrStart < r.VaddrEnd,
         Splits(p, r.VaddrStart, r.VaddrEnd), vmrs' = InsertAt(vmrs, p, r)
  PROVE  /\ vmrs' \in Seq(RegionSet) /\ Len(vmrs') = Len(vmrs) + 1
         /\ StaticsAreLast' /\ Ordered'
         /\ \A i \in 1 .. Len(vmrs') - 2 : vmrs'[i] = r \/ \E j \in 1 .. Len(vmrs) - 2 : vmrs'[i] = vmrs[j]
         /\ \A j \in 1 .. Len(vmrs) : \E i \in 1 .. Len(vmrs') : vmrs'[i] = vmrs[j]
         /\ \E i \in 1 .. Len(vmrs') : vmrs'[i] = r
<1> DEFINE n == Len(vmrs)
<1>1. RegionFacts /\ n \in Nat /\ r.VaddrStart \in Nat /\ r.VaddrEnd \in Nat
  BY RegionTypes DEF RegionSet
<1>2. p \in 1 .. n - 1
  BY DEF Splits
<1>3. /\ vmrs' \in Seq(RegionSet) /\ Len(vmrs') = n + 1
      /\ \A j \in 1 .. p - 1 : vmrs'[j] = vmrs[j]
      /\ vmrs'[p] = r
      /\ \A j \in p .. n : vmrs'[j + 1] = vmrs[j]
  <2> HIDE DEF RegionSet
  <2>1. p \in 1 .. Len(vmrs) + 1
    BY <1>1, <1>2
  <2>2. /\ vmrs' \in Seq(RegionSet) /\ Len(vmrs') = n + 1
        /\ \A j \in 1 .. n + 1 : vmrs'[j] = IF j < p THEN vmrs[j] ELSE IF j = p THEN r ELSE vmrs[j - 1]
    <3>1. Inserts(InsertAt(vmrs, p, r), vmrs, p, r, RegionSet)
      BY <2>1, InsertAtFacts
    <3> QED
      BY <3>1, Zenon DEF Inserts
  <2>3. ASSUME NEW j \in p .. n PROVE vmrs'[j + 1] = vmrs[j]
    <3>1. j + 1 \in 1 .. n + 1 /\ ~(j + 1 < p) /\ j + 1 # p /\ (j + 1) - 1 = j
      BY <1>1, <1>2
    <3> QED
      BY <3>1, <2>2, Zenon
  <2>4. ASSUME NEW j \in 1 .. p - 1 PROVE vmrs'[j] = vmrs[j]
    <3>1. j \in 1 .. n + 1 /\ j < p
      BY <1>1, <1>2
    <3> QED
      BY <3>1, <2>2, Zenon
  <2>5. p \in 1 .. n + 1 /\ ~(p < p)
    BY <1>1, <1>2
  <2> QED
    BY <2>2, <2>3, <2>4, <2>5, Zenon
<1> DEFINE Old(i) == IF i < p THEN i ELSE i - 1
<1>0. ASSUME NEW i \in 1 .. n + 1, i # p
      PROVE  vmrs'[i] = vmrs[Old(i)] /\ Old(i) \in 1 .. n
  <2>1. CASE i < p
    BY <2>1, <1>1, <1>2, <1>3
  <2>2. CASE i > p
    <3>1. i - 1 \in p .. n /\ (i - 1) + 1 = i
      BY <2>2, <1>1, <1>2
    <3>2. vmrs'[(i - 1) + 1] = vmrs[i - 1]
      BY <3>1, <1>3, Zenon
    <3> QED
      BY <2>2, <3>1, <3>2, <1>1, <1>2
  <2> QED
    BY <2>1, <2>2, <1>0, <1>1, <1>2
<1>4. StaticsAreLast'
  <2>1. vmrs'[n] = vmrs[n - 1] /\ vmrs'[n + 1] = vmrs[n]
    BY <1>1, <1>2, <1>3
  <2> QED
    BY <2>1, <1>1, <1>3 DEF StaticsAreLast
<1>5. ASSUME NEW i \in 1 .. n PROVE vmrs'[i].VaddrStart < vmrs'[i].VaddrEnd
  <2>1. CASE i = p
    BY <2>1, <1>3
  <2>2. CASE i # p
    <3>1. vmrs'[i] = vmrs[Old(i)] /\ Old(i) \in 1 .. n - 1
      BY <2>2, <1>0, <1>1, <1>2
    <3> QED
      BY <3>1 DEF Ordered
  <2> QED
    BY <2>1, <2>2
<1>6. ASSUME NEW i \in 1 .. n + 1, NEW j \in 1 .. n + 1, i < j
      PROVE  vmrs'[i].VaddrEnd <= vmrs'[j].VaddrStart
  <2>1. CASE i # p /\ j # p
    <3>1. vmrs'[i] = vmrs[Old(i)] /\ vmrs'[j] = vmrs[Old(j)] /\ Old(i) \in 1 .. n /\ Old(j) \in 1 .. n
      BY <2>1, <1>0
    <3>2. Old(i) < Old(j)
      BY <2>1, <1>1, <1>2, <1>6
    <3> QED
      BY <3>1, <3>2 DEF Ordered
  <2>2. CASE i = p
    <3>1. vmrs'[j] = vmrs[Old(j)] /\ Old(j) \in p .. n
      BY <2>2, <1>0, <1>1, <1>2, <1>6
    <3> QED
      BY <2>2, <3>1, <1>3 DEF Splits
  <2>3. CASE j = p
    <3>1. vmrs'[i] = vmrs[Old(i)] /\ Old(i) \in 1 .. p - 1
      BY <2>3, <1>0, <1>1, <1>2, <1>6
    <3> QED
      BY <2>3, <3>1, <1>3 DEF Splits
  <2> QED
    BY <2>1, <2>2, <2>3
<1>7. Ordered'
  BY <1>1, <1>3, <1>5, <1>6 DEF Ordered
<1>8. ASSUME NEW i \in 1 .. n - 1, vmrs'[i] # r
      PROVE  \E j \in 1 .. n - 2 : vmrs'[i] = vmrs[j]
  <2>1. i # p /\ i \in 1 .. n + 1
    BY <1>1, <1>3, <1>8
  <2>2. Old(i) \in 1 .. n - 2
    BY <2>1, <1>1, <1>2
  <2> QED
    BY <2>1, <2>2, <1>0
<1>9. ASSUME NEW j \in 1 .. n
      PROVE  \E i \in 1 .. n + 1 : vmrs'[i] = vmrs[j]
  <2>1. CASE j < p
    <3>1. j \in 1 .. p - 1 /\ j \in 1 .. n + 1
      BY <2>1, <1>1, <1>2
    <3> QED
      BY <3>1, <1>3, Zenon
  <2>2. CASE j >= p
    <3>1. j + 1 \in 1 .. n + 1 /\ j \in p .. n
      BY <2>2, <1>1, <1>2
    <3> QED
      BY <3>1, <1>3, Zenon
  <2> QED
    BY <2>1, <2>2, <1>1, <1>2
<1>10. p \in 1 .. n + 1 /\ vmrs'[p] = r
  BY <1>1, <1>2, <1>3
<1>11. Len(vmrs') - 2 = n - 1 /\ Len(vmrs) - 2 = n - 2
  BY <1>1, <1>3
<1> QED
  BY <1>3, <1>4, <1>7, <1>8, <1>9, <1>10, <1>11, Zenon DEF n

-----------------------------------------------------------------------------
(* The nodes *)

LEMMA SlotFacts ==
  ASSUME NEW k \in Nat
  PROVE  /\ k >= SignBit => SlotsTaken(k) = SlotIDs
         /\ k < SignBit => /\ SlotsTaken(k) # SlotIDs
                           /\ LowestFree(SlotsTaken(k)) = k + 1
                           /\ SlotsTaken(k) \cup BitOf(k + 1) = SlotsTaken(k + 1)
<1> USE RnaAssumption
<1>1. ASSUME k < SignBit PROVE SlotsTaken(k) # SlotIDs /\ k + 1 \in SlotIDs \ SlotsTaken(k)
  BY <1>1 DEF SlotsTaken, SlotIDs
<1>2. ASSUME k < SignBit PROVE LowestFree(SlotsTaken(k)) = k + 1
  <2>1. \A t \in SlotIDs \ SlotsTaken(k) : t \in Int /\ k + 1 <= t
    BY <1>2 DEF SlotsTaken, SlotIDs
  <2>2. \A s \in SlotIDs \ SlotsTaken(k) : (\A t \in SlotIDs \ SlotsTaken(k) : s <= t) => s = k + 1
    BY <1>1, <1>2, <2>1
  <2> QED
    BY <1>1, <1>2, <2>1, <2>2 DEF LowestFree
<1>3. ASSUME k < SignBit PROVE SlotsTaken(k) \cup BitOf(k + 1) = SlotsTaken(k + 1)
  <2>1. CASE k + 1 = SignBit
    BY <1>3, <2>1 DEF SlotsTaken, SlotIDs, BitOf
  <2>2. CASE k + 1 # SignBit
    BY <1>3, <2>2 DEF SlotsTaken, BitOf
  <2> QED
    BY <2>1, <2>2
<1>4. k >= SignBit => SlotsTaken(k) = SlotIDs
  BY DEF SlotsTaken
<1> QED
  BY <1>1, <1>2, <1>3, <1>4, Zenon

(* The node after k others of a page is in its slot k + 1. *)
Takes(pages, i, k) ==
  /\ rna' \in Seq(PageSet) /\ Len(rna') = Len(pages)
  /\ rna'[i].Bitmap = SlotsTaken(k + 1) /\ rna'[i].This = pages[i].This
  /\ \A j \in 1 .. Len(pages) : j # i => rna'[j] = pages[j]
  /\ nodes' = Append(nodes, <<pages[i].This, k + 1>>)

LEMMA TakeSlotFacts ==
  ASSUME NEW pages \in Seq(PageSet), NEW i \in 1 .. Len(pages), NEW k \in Nat, k < SignBit,
         pages[i].Bitmap = SlotsTaken(k), TakeSlot(pages, i)
  PROVE  Takes(pages, i, k)
<1> DEFINE new == [pages[i] EXCEPT !.Bitmap = SlotsTaken(k + 1), !.NrSlots = @ + 1]
<1>1. pages[i] \in PageSet
  <2> HIDE DEF PageSet
  <2> QED
    BY ElementOfSeq
<1>2. LowestFree(pages[i].Bitmap) = k + 1 /\ pages[i].Bitmap \cup BitOf(k + 1) = SlotsTaken(k + 1)
  BY SlotFacts
<1>3. rna' = [pages EXCEPT ![i] = new] /\ nodes' = Append(nodes, <<pages[i].This, k + 1>>)
  BY <1>2 DEF TakeSlot
<1>4. SlotsTaken(k + 1) \in SUBSET Nat
  BY RnaAssumption DEF SlotsTaken, SlotIDs
<1>5. new \in PageSet /\ new.Bitmap = SlotsTaken(k + 1) /\ new.This = pages[i].This
  <2>1. ASSUME NEW g \in PageSet, NEW b \in SUBSET Nat
        PROVE  /\ [g EXCEPT !.Bitmap = b, !.NrSlots = @ + 1] \in PageSet
               /\ [g EXCEPT !.Bitmap = b, !.NrSlots = @ + 1].Bitmap = b
               /\ [g EXCEPT !.Bitmap = b, !.NrSlots = @ + 1].This = g.This
    <3> DEFINE h == [g EXCEPT !.Bitmap = b]
    <3>1. h \in PageSet /\ h.Bitmap = b /\ h.This = g.This /\ h.NrSlots = g.NrSlots
      BY DEF PageSet
    <3>2. [g EXCEPT !.Bitmap = b, !.NrSlots = @ + 1] = [h EXCEPT !.NrSlots = h.NrSlots + 1]
      OBVIOUS
    <3> HIDE DEF h
    <3>3. ASSUME NEW n \in Nat
          PROVE  /\ [h EXCEPT !.NrSlots = n] \in PageSet /\ [h EXCEPT !.NrSlots = n].Bitmap = b
                 /\ [h EXCEPT !.NrSlots = n].This = g.This
      BY <3>1 DEF PageSet
    <3>4. h.NrSlots + 1 \in Nat
      BY <3>1 DEF PageSet
    <3> QED
      BY <3>2, <3>3, <3>4, Zenon
  <2> HIDE DEF PageSet
  <2> QED
    BY <2>1, <1>1, <1>4
<1> HIDE DEF new, PageSet
<1>6. rna' \in Seq(PageSet) /\ Len(rna') = Len(pages) /\ rna'[i] = new
      /\ \A j \in 1 .. Len(pages) : j # i => rna'[j] = pages[j]
  BY <1>3, <1>5
<1> QED
  BY <1>3, <1>5, <1>6 DEF Takes

LEMMA RnaStep ==
  ASSUME NodesInOrder, RnaAcquireNode, MaxRnaPages <= 2 \/ Len(nodes) < 2 * SignBit
  PROVE  NodesInOrder' /\ Len(nodes') = Len(nodes) + 1
<1> USE RnaAssumption
<1> DEFINE k == Len(nodes)
<1>1. /\ Len(rna) \in {1, 2} /\ rna[1].This = 1 /\ k \in Nat \ {0}
      /\ nodes \in Seq(Nat \X Nat) /\ (\A j \in 1 .. k : nodes[j] = NodeAt(j)) /\ rna \in Seq(PageSet)
      /\ DOMAIN rna = 1 .. Len(rna)
  <2> HIDE DEF PageSet
  <2> QED
    BY DEF NodesInOrder
<1>2. ASSUME NEW x \in Nat \X Nat, nodes' = Append(nodes, x), x = NodeAt(k + 1)
      PROVE  /\ nodes' \in Seq(Nat \X Nat) /\ Len(nodes') = k + 1
             /\ \A j \in DOMAIN nodes' : nodes'[j] = NodeAt(j)
  <2> DEFINE N == Nat \X Nat
  <2> HIDE DEF N
  <2>1. nodes \in Seq(N) /\ x \in N
    BY <1>1 DEF N
  <2>2. nodes' \in Seq(N) /\ Len(nodes') = k + 1 /\ DOMAIN nodes' = 1 .. k + 1
        /\ nodes'[k + 1] = x /\ \A j \in 1 .. k : nodes'[j] = nodes[j]
    BY <2>1, <1>2, <1>1
  <2>3. \A j \in 1 .. k + 1 : j = k + 1 \/ j \in 1 .. k
    BY <1>1
  <2> QED
    BY <2>2, <2>3, <1>1, <1>2, Zenon DEF N
<1>3. CASE Len(rna) = 1 /\ HasRoom(1) /\ TakeSlot(rna, 1)
  <2>1. k < SignBit /\ rna[1].Bitmap = SlotsTaken(k)
    <3>1. k \in 1 .. SignBit /\ rna[1].Bitmap = SlotsTaken(k)
      BY <1>3 DEF NodesInOrder
    <3>2. SlotsTaken(k) # SlotIDs
      BY <1>3, <3>1 DEF HasRoom
    <3> QED
      BY <3>1, <3>2, SlotFacts
  <2>2. Takes(rna, 1, k)
    <3>1. 1 \in 1 .. Len(rna) /\ k \in Nat
      BY <1>1, <1>3
    <3> QED
      BY <1>1, <1>3, <2>1, <3>1, TakeSlotFacts
  <2>3. <<1, k + 1>> = NodeAt(k + 1) /\ <<1, k + 1>> \in Nat \X Nat
    BY <2>1, <1>1 DEF NodeAt
  <2>4. nodes' = Append(nodes, <<1, k + 1>>)
    BY <2>2, <1>1 DEF Takes
  <2>5. /\ nodes' \in Seq(Nat \X Nat) /\ Len(nodes') = k + 1
        /\ \A j \in DOMAIN nodes' : nodes'[j] = NodeAt(j)
    BY <2>3, <2>4, <1>2
  <2>6. rna' \in Seq(PageSet) /\ Len(rna') = 1 /\ rna'[1].This = 1 /\ rna'[1].Bitmap = SlotsTaken(k + 1)
    BY <2>2, <1>1, <1>3 DEF Takes
  <2>7. k + 1 \in 1 .. SignBit
    BY <2>1, <1>1
  <2> QED
    BY <2>5, <2>6, <2>7 DEF NodesInOrder
<1>4. CASE Len(rna) = 2 /\ HasRoom(2) /\ TakeSlot(rna, 2)
  <2> DEFINE m == k - SignBit
  <2>1. m \in Nat /\ m < SignBit /\ rna[2].Bitmap = SlotsTaken(m) /\ rna[2].This = 0 /\ rna[1].Bitmap = SlotIDs
    <3>1. k \in SignBit + 1 .. 2 * SignBit /\ rna[2].Bitmap = SlotsTaken(m) /\ rna[2].This = 0 /\ rna[1].Bitmap = SlotIDs
      BY <1>4 DEF NodesInOrder
    <3>2. SlotsTaken(m) # SlotIDs
      BY <1>4, <3>1 DEF HasRoom
    <3>3. m \in Nat
      BY <3>1
    <3>4. m >= SignBit => SlotsTaken(m) = SlotIDs
      BY <3>3, SlotFacts
    <3> QED
      BY <3>1, <3>2, <3>3, <3>4
  <2>2. Takes(rna, 2, m)
    <3>1. 2 \in 1 .. Len(rna)
      BY <1>4
    <3> QED
      BY <1>1, <1>4, <2>1, <3>1, TakeSlotFacts
  <2>3. <<0, m + 1>> = NodeAt(k + 1) /\ <<0, m + 1>> \in Nat \X Nat
    <3>1. m + 1 = k + 1 - SignBit /\ ~(k + 1 <= SignBit) /\ m + 1 \in Nat
      <4>1. m \in Nat /\ k \in Nat /\ SignBit \in Nat
        BY <2>1, <1>1
      <4> QED
        BY <4>1
    <3> HIDE DEF m
    <3> QED
      BY <3>1 DEF NodeAt
  <2>4. nodes' = Append(nodes, <<0, m + 1>>)
    BY <2>1, <2>2 DEF Takes
  <2>5. /\ nodes' \in Seq(Nat \X Nat) /\ Len(nodes') = k + 1
        /\ \A j \in DOMAIN nodes' : nodes'[j] = NodeAt(j)
    BY <2>3, <2>4, <1>2
  <2>6. /\ rna' \in Seq(PageSet) /\ Len(rna') = 2 /\ rna'[2].This = 0
        /\ rna'[2].Bitmap = SlotsTaken(m + 1) /\ rna'[1] = rna[1]
    BY <2>1, <2>2, <1>1, <1>4 DEF Takes
  <2>7. k + 1 \in SignBit + 1 .. 2 * SignBit /\ k + 1 - SignBit = m + 1
    BY <2>1, <1>1
  <2> QED
    <3>1. rna'[1].This = 1 /\ rna'[1].Bitmap = SlotIDs /\ Len(rna') # 1 /\ Len(rna') \in {1, 2}
      BY <2>1, <2>6, <1>1
    <3>2. Len(nodes') - SignBit = m + 1 /\ Len(nodes') \in SignBit + 1 .. 2 * SignBit
      BY <2>5, <2>7
    <3> HIDE DEF m, PageSet
    <3>3. rna'[2].Bitmap = SlotsTaken(Len(nodes') - SignBit)
      BY <2>6, <3>2, Zenon
    <3> QED
      BY <2>5, <2>6, <3>1, <3>2, <3>3, Zenon DEF NodesInOrder
<1>5. CASE RnaAcquireFromNewPage
  <2>1. Len(rna) = 1
    <3> SUFFICES ASSUME Len(rna) = 2 PROVE FALSE
      BY <1>1
    <3>1. rna[2].Bitmap = SlotIDs /\ MaxRnaPages > 2
      BY <1>1, <1>5 DEF RnaAcquireFromNewPage, HasRoom
    <3>2. k \in SignBit + 1 .. 2 * SignBit /\ SlotsTaken(k - SignBit) = SlotIDs
      BY <3>1 DEF NodesInOrder
    <3>3. k - SignBit \in Nat
      BY <3>2
    <3>4. k - SignBit < SignBit => SlotsTaken(k - SignBit) # SlotIDs
      BY <3>3, SlotFacts
    <3> QED
      BY <3>1, <3>2, <3>3, <3>4
  <2>2. k = SignBit /\ rna[1].Bitmap = SlotIDs
    <3>1. rna[1].Bitmap = SlotIDs
      BY <1>1, <1>5 DEF RnaAcquireFromNewPage, HasRoom
    <3>2. k \in 1 .. SignBit /\ SlotsTaken(k) = SlotIDs
      BY <3>1, <2>1 DEF NodesInOrder
    <3>3. k < SignBit => SlotsTaken(k) # SlotIDs
      BY <1>1, SlotFacts
    <3> QED
      BY <3>1, <3>2, <3>3
  <2> DEFINE new == RnaPage(0, rna[Len(rna)].This)
             pages == Append(rna, new)
  <2>3. new \in PageSet /\ new.This = 0 /\ new.Bitmap = SlotsTaken(0)
    <3>1. rna[1].This \in Int
      BY <1>1
    <3>2. {0} = SlotsTaken(0)
      BY DEF SlotsTaken
    <3> QED
      BY <3>1, <3>2, <2>1 DEF RnaPage, PageSet
  <2>4. TakeSlot(pages, 2)
    BY <1>5, <2>1 DEF RnaAcquireFromNewPage
  <2> HIDE DEF new
  <2>5. pages \in Seq(PageSet) /\ Len(pages) = 2 /\ pages[1] = rna[1] /\ pages[2] = new
    <3> HIDE DEF PageSet
    <3>1. /\ pages \in Seq(PageSet) /\ Len(pages) = Len(rna) + 1
          /\ pages[Len(rna) + 1] = new /\ \A j \in 1 .. Len(rna) : pages[j] = rna[j]
      BY <1>1, <2>3, AppendProperties
    <3> HIDE DEF pages
    <3> QED
      BY <3>1, <2>1
  <2> HIDE DEF pages
  <2>6. Takes(pages, 2, 0)
    <3>1. 2 \in 1 .. Len(pages) /\ 0 \in Nat /\ 0 < SignBit
      BY <2>5
    <3> QED
      BY <2>3, <2>4, <2>5, <3>1, TakeSlotFacts
  <2>7. nodes' = Append(nodes, <<0, 1>>)
    BY <2>3, <2>5, <2>6 DEF Takes
  <2>8. <<0, 1>> = NodeAt(k + 1) /\ <<0, 1>> \in Nat \X Nat
    BY <2>2 DEF NodeAt
  <2>9. /\ nodes' \in Seq(Nat \X Nat) /\ Len(nodes') = k + 1
        /\ \A j \in DOMAIN nodes' : nodes'[j] = NodeAt(j)
    BY <2>7, <2>8, <1>2
  <2>10. /\ rna' \in Seq(PageSet) /\ Len(rna') = 2 /\ rna'[2].This = 0
         /\ rna'[2].Bitmap = SlotsTaken(1) /\ rna'[1] = rna[1]
    BY <2>3, <2>5, <2>6 DEF Takes
  <2>11. k + 1 \in SignBit + 1 .. 2 * SignBit /\ k + 1 - SignBit = 1
    BY <2>2
  <2> QED
    <3>1. rna'[1].This = 1 /\ rna'[1].Bitmap = SlotIDs /\ Len(rna') # 1 /\ Len(rna') \in {1, 2}
      BY <2>2, <2>10, <1>1
    <3>2. Len(nodes') - SignBit = 1 /\ Len(nodes') \in SignBit + 1 .. 2 * SignBit
      BY <2>9, <2>11
    <3> HIDE DEF PageSet
    <3>3. rna'[2].Bitmap = SlotsTaken(Len(nodes') - SignBit)
      BY <2>10, <3>2, Zenon
    <3> QED
      BY <2>9, <2>10, <3>1, <3>2, <3>3, Zenon DEF NodesInOrder
<1>6. CASE RnaAcquireFromPage
  <2>1. PICK i \in DOMAIN rna : HasRoom(i) /\ TakeSlot(rna, i)
    BY <1>6 DEF RnaAcquireFromPage
  <2>2. Len(rna) = 2 => i = 2
    <3>1. Len(rna) = 2 => rna[1].Bitmap = SlotIDs
      BY DEF NodesInOrder
    <3> QED
      BY <1>1, <2>1, <3>1 DEF HasRoom
  <2>3. Len(rna) = 1 => i = 1
    BY <1>1, <2>1
  <2> QED
    BY <1>1, <2>1, <2>2, <2>3, <1>3, <1>4, Zenon
<1> QED
  BY <1>5, <1>6 DEF RnaAcquireNode

-----------------------------------------------------------------------------
(* What every caller shares: a region is acquired, and pages are mapped. *)

Grown(r) ==
  /\ vmrs' \in Seq(RegionSet) /\ Len(vmrs') = Len(vmrs) + 1 /\ NrVMRs' = Len(vmrs')
  /\ StaticsAreLast' /\ Ordered' /\ NodesInOrder' /\ Len(nodes') = Len(vmrs')
  /\ \A i \in 1 .. Len(vmrs') - 2 : vmrs'[i] = r \/ \E j \in 1 .. Len(vmrs) - 2 : vmrs'[i] = vmrs[j]
  /\ \A j \in 1 .. Len(vmrs) : \E i \in 1 .. Len(vmrs') : vmrs'[i] = vmrs[j]
  /\ \E i \in 1 .. Len(vmrs') : vmrs'[i] = r

FlagSet == SUBSET {"static", "write", "exec", "anywhere", "largePages"}

LEMMA AcquireStep ==
  ASSUME Shape, StaticsAreLast, Ordered, NodesInOrder, NodesAreCounted, NodesSuffice,
         Len(vmrs) < 4 + MaxDevices,
         NEW start \in Nat, NEW end \in Nat, NEW flags \in FlagSet, end <= BinaryStart, Apart(start, end),
         VmAcquireRegion(start, end, flags)
  PROVE  Grown(Region(start, end, flags)) /\ start < end
<1> DEFINE r == Region(start, end, flags)
           p == VmFindInsertPoint(start, end)
<1>1. start < end /\ p # 0 /\ RnaAcquireNode /\ vmrs' = InsertAt(vmrs, p, r) /\ NrVMRs' = NrVMRs + 1
  BY DEF VmAcquireRegion, Acceptable
<1>2. r \in RegionSet /\ r.VaddrStart = start /\ r.VaddrEnd = end
  BY DEF Region, RegionSet, FlagSet
<1>3. vmrs \in Seq(RegionSet) /\ Len(vmrs) >= 2 /\ NrVMRs = Len(vmrs) /\ Len(vmrs) \in Nat
  BY RegionTypes DEF Shape
<1>4. Splits(p, start, end)
  BY <1>1, <1>3, FindPlace
<1>5. NodesInOrder' /\ Len(nodes') = Len(nodes) + 1
  <2>1. Len(nodes) = Len(vmrs)
    BY DEF NodesAreCounted
  <2>2. MaxRnaPages <= 2 \/ Len(nodes) < 2 * SignBit
    BY <2>1, <1>3, SpaceConstants DEF NodesSuffice
  <2> QED
    BY <2>2, <1>1, RnaStep
<1> HIDE DEF r, p, RegionSet
<1>6. /\ vmrs' \in Seq(RegionSet) /\ Len(vmrs') = Len(vmrs) + 1
      /\ StaticsAreLast' /\ Ordered'
      /\ \A i \in 1 .. Len(vmrs') - 2 : vmrs'[i] = r \/ \E j \in 1 .. Len(vmrs) - 2 : vmrs'[i] = vmrs[j]
      /\ \A j \in 1 .. Len(vmrs) : \E i \in 1 .. Len(vmrs') : vmrs'[i] = vmrs[j]
      /\ \E i \in 1 .. Len(vmrs') : vmrs'[i] = r
  <2>1. r.VaddrStart < r.VaddrEnd /\ Splits(p, r.VaddrStart, r.VaddrEnd)
    BY <1>1, <1>2, <1>4, Zenon
  <2> QED
    BY <2>1, <1>1, <1>2, <1>3, InsertKeepsOrder, Zenon
<1>7. NrVMRs' = Len(vmrs') /\ Len(nodes') = Len(vmrs')
  BY <1>1, <1>3, <1>5, <1>6 DEF NodesAreCounted
<1> QED
  BY <1>1, <1>5, <1>6, <1>7, Zenon DEF Grown, r

LEMMA GrownHas ==
  ASSUME Shape, NEW r, Grown(r)
  PROVE  HasRegion(r.VaddrStart)' /\ \A x : HasRegion(x) => HasRegion(x)'
<1>1. DOMAIN vmrs = 1 .. Len(vmrs) /\ DOMAIN vmrs' = 1 .. Len(vmrs')
  <2> HIDE DEF RegionSet
  <2> QED
    BY DEF Shape, Grown
<1> QED
  BY <1>1, Zenon DEF HasRegion, Grown

(* The counters of regions; the low map and the heap come once. *)
LEMMA GrownCounts ==
  ASSUME Shape, NodesAreCounted, NEW r, Grown(r), nDev' \in Nat, nDev \in Nat,
         \/ nDev' = nDev + 1
         \/ nDev' = nDev /\ r.VaddrStart = LowMap.start /\ ~HasRegion(LowMap.start)
         \/ nDev' = nDev /\ r.VaddrStart = HeapRange.start /\ ~HasRegion(HeapRange.start)
  PROVE  NodesAreCounted'
<1>1. /\ Had(LowMap.start) \in {0, 1} /\ Had(HeapRange.start) \in {0, 1}
      /\ Had(LowMap.start)' \in {0, 1} /\ Had(HeapRange.start)' \in {0, 1}
      /\ Had(LowMap.start) <= Had(LowMap.start)' /\ Had(HeapRange.start) <= Had(HeapRange.start)'
  BY GrownHas DEF Had
<1>2. /\ r.VaddrStart = LowMap.start /\ ~HasRegion(LowMap.start) => Had(LowMap.start)' = 1 /\ Had(LowMap.start) = 0
      /\ r.VaddrStart = HeapRange.start /\ ~HasRegion(HeapRange.start) => Had(HeapRange.start)' = 1 /\ Had(HeapRange.start) = 0
  BY GrownHas DEF Had
<1>3. Len(vmrs') = Len(vmrs) + 1 /\ Len(nodes') = Len(vmrs') /\ Len(vmrs) \in Nat
  BY RegionTypes DEF Grown, Shape
<1>4. Len(vmrs) <= 2 + Had(LowMap.start) + Had(HeapRange.start) + nDev
  BY DEF NodesAreCounted
<1>5. Len(vmrs') <= 2 + Had(LowMap.start)' + Had(HeapRange.start)' + nDev'
  BY <1>1, <1>2, <1>3, <1>4
<1> QED
  BY <1>3, <1>5 DEF NodesAreCounted

LEMMA GrownPlaces ==
  ASSUME Shape, OthersHaveTheirPlace, NEW r, Grown(r), Head_' \in Nat, Head_ <= Head_',
         \/ InPart(r, LowMap) \/ InPart(r, HeapRange)
         \/ MmioStart <= r.VaddrStart /\ r.VaddrEnd <= Head_'
  PROVE  OthersHaveTheirPlace'
<1> SUFFICES ASSUME NEW i \in 1 .. Len(vmrs') - 2
             PROVE  \/ InPart(vmrs'[i], LowMap) \/ InPart(vmrs'[i], HeapRange)
                    \/ MmioStart <= vmrs'[i].VaddrStart /\ vmrs'[i].VaddrEnd <= Head_'
  BY DEF OthersHaveTheirPlace, InPart
<1>1. CASE vmrs'[i] = r
  BY <1>1, Zenon
<1>2. CASE vmrs'[i] # r
  <2>1. PICK j \in 1 .. Len(vmrs) - 2 : vmrs'[i] = vmrs[j]
    BY <1>2 DEF Grown
  <2>2. Head_ \in Nat /\ Len(vmrs) \in Nat /\ RegionFacts
    BY RegionTypes DEF Shape
  <2>3. vmrs[j].VaddrEnd \in Nat
    BY <2>1, <2>2 DEF RegionFacts
  <2>4. \/ InPart(vmrs[j], LowMap) \/ InPart(vmrs[j], HeapRange)
        \/ MmioStart <= vmrs[j].VaddrStart /\ vmrs[j].VaddrEnd <= Head_
    BY <2>1, Zenon DEF OthersHaveTheirPlace
  <2>5. vmrs[j].VaddrEnd <= Head_ => vmrs[j].VaddrEnd <= Head_'
    BY <2>2, <2>3
  <2> QED
    BY <2>1, <2>4, <2>5, Zenon
<1> QED
  BY <1>1, <1>2, Zenon

(* Small pages: the n pages from start on are mapped in order. *)
MapsPages(start, paddr, n) ==
  /\ DOMAIN mapped' = DOMAIN mapped \cup (start .. start + n - 1)
  /\ \A v \in start .. start + n - 1 : mapped'[v] = paddr + (v - start)
  /\ \A v \in DOMAIN mapped : v \notin start .. start + n - 1 => mapped'[v] = mapped[v]

LEMMA MapFacts ==
  ASSUME NEW start \in Nat, NEW end \in Nat, NEW paddr \in Nat, NEW n \in Nat, NEW flags,
         "largePages" \notin flags, VmMapStatic(start, end, flags, paddr, n)
  PROVE  MapsPages(start, paddr, n)
<1> DEFINE pages == {start + k * 1 : k \in 0 .. n - 1}
<1>1. pages = start .. start + n - 1
  <2>1. ASSUME NEW v \in start .. start + n - 1 PROVE v \in pages
    <3>1. v - start \in 0 .. n - 1 /\ start + (v - start) * 1 = v
      OBVIOUS
    <3> QED
      BY <3>1
  <2>2. ASSUME NEW k \in 0 .. n - 1 PROVE start + k * 1 \in start .. start + n - 1
    OBVIOUS
  <2> QED
    BY <2>1, <2>2
<1>2. mapped' = [v \in DOMAIN mapped \cup pages |-> IF v \in pages THEN paddr + (v - start) ELSE mapped[v]]
  BY DEF VmMapStatic, RegionPageSize
<1> HIDE DEF pages
<1> QED
  BY <1>1, <1>2 DEF MapsPages

(* Pages outside the part of the window in use disturb no device. *)
LEMMA MapKeeps ==
  ASSUME Shape, DevicesAreBelowHead, DevicesStayMapped,
         NEW start \in Nat, NEW paddr \in Nat, NEW n \in Nat, MapsPages(start, paddr, n),
         start >= Head_ \/ start + n <= MmioStart
  PROVE  /\ \A v \in DOMAIN mapped' : mapped'[v] \in Nat
         /\ \A d \in devs : \A k \in 0 .. d.size - 1 :
               d.vaddr + k \in DOMAIN mapped' /\ mapped'[d.vaddr + k] = d.paddr + k
<1>1. ASSUME NEW v \in DOMAIN mapped' PROVE mapped'[v] \in Nat
  <2>1. CASE v \in start .. start + n - 1
    BY <2>1 DEF MapsPages
  <2>2. CASE v \notin start .. start + n - 1
    BY <2>2, <1>1 DEF MapsPages, Shape
  <2> QED
    BY <2>1, <2>2
<1>2. ASSUME NEW d \in devs, NEW k \in 0 .. d.size - 1
      PROVE  d.vaddr + k \in DOMAIN mapped' /\ mapped'[d.vaddr + k] = d.paddr + k
  <2>1. d.vaddr \in Nat /\ d.size \in Nat /\ MmioStart <= d.vaddr /\ d.vaddr + d.size <= Head_
    BY <1>2 DEF DevicesAreBelowHead
  <2>2. d.vaddr + k \in DOMAIN mapped /\ mapped[d.vaddr + k] = d.paddr + k
    BY <1>2 DEF DevicesStayMapped
  <2>3. d.vaddr + k \notin start .. start + n - 1
    <3>1. Head_ \in Nat /\ MmioStart \in Nat /\ k \in Nat /\ k < d.size
      BY <2>1, SpaceConstants DEF Shape
    <3>2. MmioStart <= d.vaddr + k /\ d.vaddr + k < Head_
      BY <2>1, <3>1
    <3> QED
      BY <2>1, <3>1, <3>2
  <2> QED
    BY <2>2, <2>3 DEF MapsPages
<1> QED
  BY <1>1, <1>2

-----------------------------------------------------------------------------
(* The steps *)

LEMMA BelowLast ==
  ASSUME NEW n \in Nat, NEW i \in 1 .. n - 1, i # n - 1
  PROVE  i \in 1 .. n - 2 /\ i \in 1 .. n
OBVIOUS

LEMMA WindowFacts ==
  ASSUME NEW span \in Nat, WindowHolds(span), nDev \in Nat, nDev < MaxDevices
  PROVE  /\ MmioStart + nDev * span + span <= BinaryStart
         /\ (nDev + 1) * span = nDev * span + span /\ nDev * span \in Nat
<1> USE SpaceConstants
<1>1. (nDev + 1) * span = nDev * span + span /\ nDev * span \in Nat
  OBVIOUS
<1>2. PICK m \in Nat : MaxDevices = nDev + 1 + m
  <2>1. MaxDevices - nDev - 1 \in Nat /\ MaxDevices = nDev + 1 + (MaxDevices - nDev - 1)
    OBVIOUS
  <2> QED
    BY <2>1
<1>3. MaxDevices * span = nDev * span + span + m * span /\ m * span \in Nat
  BY <1>2
<1> QED
  BY <1>1, <1>3 DEF WindowHolds

LEMMA WindowExists ==
  ASSUME NEW span \in Nat, WindowHolds(span)
  PROVE  MmioStart <= BinaryStart
<1>1. MaxDevices * span \in Nat
  BY SpaceConstants
<1> QED
  BY <1>1, SpaceConstants DEF WindowHolds

LEMMA SpaceInitStep ==
  ASSUME NEW span \in Nat, SpaceInit
  PROVE  SpaceIInv(span)
<1> USE SpaceConstants
<1> DEFINE binary == Region(BinaryStart, BinaryStart + BinarySize, {"static", "exec", "largePages"})
           frame  == Region(FrameBuffer, BinaryStart + FrameSize, {"static", "write", "largePages"})
<1>1. vmrs = <<binary, frame>>
  BY DEF SpaceInit
<1>2. /\ binary \in RegionSet /\ binary.VaddrStart = BinaryStart /\ binary.VaddrEnd = BinaryStart + BinarySize
      /\ frame \in RegionSet /\ frame.VaddrStart = FrameBuffer
  BY DEF Region, RegionSet
<1> HIDE DEF binary, frame
<1>3. vmrs \in Seq(RegionSet) /\ Len(vmrs) = 2 /\ vmrs[1] = binary /\ vmrs[2] = frame
  <2> HIDE DEF RegionSet
  <2> QED
    BY <1>1, <1>2
<1>4. Shape
  BY <1>3 DEF SpaceInit, Shape
<1>5. HeadInWindow(span)
  BY DEF SpaceInit, HeadInWindow
<1>6. StaticsAreLast /\ OthersHaveTheirPlace
  BY <1>2, <1>3 DEF StaticsAreLast, OthersHaveTheirPlace
<1>7. Ordered
  BY <1>2, <1>3 DEF Ordered
<1>8. NodesInOrder
  <2>1. /\ rna = <<[This |-> 1, Prev |-> IVLDPGID, Bitmap |-> {0, 1, 2}, NrSlots |-> 3]>>
        /\ nodes = << <<1, 1>>, <<1, 2>> >>
    BY DEF SpaceInit
  <2> DEFINE unit == [This |-> 1, Prev |-> IVLDPGID, Bitmap |-> {0, 1, 2}, NrSlots |-> 3]
  <2>3. unit \in PageSet /\ unit.This = 1 /\ unit.Bitmap = {0, 1, 2}
    BY DEF PageSet, IVLDPGID
  <2>4. rna = <<unit>>
    BY <2>1
  <2> HIDE DEF unit
  <2>5. rna \in Seq(PageSet) /\ Len(rna) = 1 /\ rna[1] = unit
    <3> HIDE DEF PageSet
    <3> QED
      BY <2>3, <2>4
  <2>6. nodes \in Seq(Nat \X Nat) /\ Len(nodes) = 2 /\ nodes[1] = <<1, 1>> /\ nodes[2] = <<1, 2>> /\ DOMAIN nodes = 1 .. 2
    BY <2>1
  <2>7. SignBit >= 3
    BY RnaAssumption
  <2>8. SlotsTaken(2) = {0, 1, 2} /\ NodeAt(1) = <<1, 1>> /\ NodeAt(2) = <<1, 2>>
    BY <2>7 DEF SlotsTaken, NodeAt
  <2>9. \A j \in DOMAIN nodes : nodes[j] = NodeAt(j)
    <3>1. \A j \in DOMAIN nodes : j = 1 \/ j = 2
      BY <2>6
    <3> QED
      BY <2>6, <2>8, <3>1, Zenon
  <2>10. Len(nodes) \in 1 .. SignBit /\ Len(rna) # 2 /\ Len(rna) \in {1, 2}
    BY <2>5, <2>6, <2>7
  <2>11. rna[1].This = 1 /\ rna[1].Bitmap = SlotsTaken(Len(nodes))
    BY <2>3, <2>5, <2>6, <2>8, Zenon
  <2> HIDE DEF PageSet
  <2> QED
    BY <2>5, <2>6, <2>9, <2>10, <2>11, Zenon DEF NodesInOrder
<1>9. NodesAreCounted
  <2>1. Len(nodes) = 2 /\ nDev = 0
    BY DEF SpaceInit
  <2>2. Had(LowMap.start) \in {0, 1} /\ Had(HeapRange.start) \in {0, 1}
    BY DEF Had
  <2> QED
    BY <2>1, <2>2, <1>3 DEF NodesAreCounted
<1>10. DevicesAreBelowHead /\ DevicesStayMapped
  BY DEF SpaceInit, DevicesAreBelowHead, DevicesStayMapped
<1> QED
  BY <1>4, <1>5, <1>6, <1>7, <1>8, <1>9, <1>10 DEF SpaceIInv

LEMMA HeapStep ==
  ASSUME NEW span \in Nat, WindowHolds(span), NodesSuffice, SpaceIInv(span), AcquireHeapRegion
  PROVE  SpaceIInv(span)'
<1> USE SpaceConstants
<1> DEFINE r == Region(HeapRange.start, HeapRange.end, {"write"})
<1>1. /\ Shape /\ HeadInWindow(span) /\ StaticsAreLast /\ OthersHaveTheirPlace /\ Ordered
      /\ NodesInOrder /\ NodesAreCounted /\ DevicesAreBelowHead /\ DevicesStayMapped
  BY DEF SpaceIInv
<1>2. Head_' = Head_ /\ mapped' = mapped /\ devs' = devs /\ nDev' = nDev
      /\ ~HasRegion(HeapRange.start) /\ VmAcquireRegion(HeapRange.start, HeapRange.end, {"write"})
  BY DEF AcquireHeapRegion
<1>3. nDev \in 0 .. MaxDevices /\ Head_ \in Nat /\ MmioStart <= Head_ /\ Len(vmrs) \in Nat /\ Len(vmrs) >= 2
      /\ RegionFacts /\ DOMAIN vmrs = 1 .. Len(vmrs)
  BY <1>1, RegionTypes DEF Shape
<1>4. Len(vmrs) < 4 + MaxDevices
  <2>1. Had(HeapRange.start) = 0 /\ Had(LowMap.start) \in {0, 1}
    BY <1>2 DEF Had
  <2> QED
    BY <2>1, <1>1, <1>3 DEF NodesAreCounted
<1>5. Apart(HeapRange.start, HeapRange.end)
  <2> SUFFICES ASSUME NEW i \in 1 .. Len(vmrs) - 1
               PROVE  vmrs[i].VaddrEnd <= HeapRange.start \/ HeapRange.end <= vmrs[i].VaddrStart
    BY DEF Apart
  <2>1. CASE i = Len(vmrs) - 1
    BY <2>1, <1>1, WindowExists DEF StaticsAreLast
  <2>2. CASE i # Len(vmrs) - 1
    <3>1. i \in 1 .. Len(vmrs) - 2 /\ i \in DOMAIN vmrs /\ vmrs[i].VaddrStart \in Nat /\ vmrs[i].VaddrEnd \in Nat
      <4>1. i \in 1 .. Len(vmrs) - 2 /\ i \in 1 .. Len(vmrs)
        BY <2>2, <1>3, BelowLast
      <4> QED
        BY <4>1, <1>3, Zenon DEF RegionFacts
    <3>2. ~InPart(vmrs[i], HeapRange)
      BY <3>1, <1>2 DEF InPart, HasRegion
    <3>3. InPart(vmrs[i], LowMap) \/ MmioStart <= vmrs[i].VaddrStart
      BY <3>1, <3>2, <1>1 DEF OthersHaveTheirPlace
    <3> QED
      BY <3>1, <3>3 DEF InPart
  <2> QED
    BY <2>1, <2>2
<1>6. Grown(r)
  <2>1. HeapRange.end <= BinaryStart /\ {"write"} \in FlagSet
    BY WindowExists DEF FlagSet
  <2> QED
    BY <2>1, <1>1, <1>2, <1>4, <1>5, AcquireStep
<1>7. r.VaddrStart = HeapRange.start /\ r.VaddrEnd = HeapRange.end
  BY DEF Region
<1> HIDE DEF r
<1>8. Shape'
  <2> HIDE DEF RegionSet
  <2> QED
    BY <1>1, <1>2, <1>3, <1>6 DEF Shape, Grown
<1>9. HeadInWindow(span)'
  BY <1>1, <1>2 DEF HeadInWindow
<1>10. OthersHaveTheirPlace'
  BY <1>1, <1>2, <1>3, <1>6, <1>7, GrownPlaces DEF InPart
<1>11. NodesAreCounted'
  BY <1>1, <1>2, <1>3, <1>6, <1>7, GrownCounts
<1>12. DevicesAreBelowHead' /\ DevicesStayMapped'
  BY <1>1, <1>2 DEF DevicesAreBelowHead, DevicesStayMapped
<1> QED
  BY <1>6, <1>8, <1>9, <1>10, <1>11, <1>12 DEF SpaceIInv, Grown

LEMMA LowMapStep ==
  ASSUME NEW span \in Nat, WindowHolds(span), NodesSuffice, SpaceIInv(span), AcquireLowMap
  PROVE  SpaceIInv(span)'
<1> USE SpaceConstants
<1> DEFINE flags == {"static", "write", "exec", "anywhere"}
           r == Region(LowMap.start, LowMap.end, flags)
           n == Steps(LowMap.start, LowMap.end, flags)
<1>1. /\ Shape /\ HeadInWindow(span) /\ StaticsAreLast /\ OthersHaveTheirPlace /\ Ordered
      /\ NodesInOrder /\ NodesAreCounted /\ DevicesAreBelowHead /\ DevicesStayMapped
  BY DEF SpaceIInv
<1>2. Head_' = Head_ /\ devs' = devs /\ nDev' = nDev
      /\ ~HasRegion(LowMap.start) /\ VmAcquireRegion(LowMap.start, LowMap.end, flags)
      /\ VmMapStatic(LowMap.start, LowMap.end, flags, LowMap.start, n)
  BY DEF AcquireLowMap
<1>3. nDev \in 0 .. MaxDevices /\ Head_ \in Nat /\ MmioStart <= Head_ /\ Len(vmrs) \in Nat /\ Len(vmrs) >= 2
      /\ RegionFacts /\ DOMAIN vmrs = 1 .. Len(vmrs)
  BY <1>1, RegionTypes DEF Shape
<1>4. Len(vmrs) < 4 + MaxDevices
  <2>1. Had(LowMap.start) = 0 /\ Had(HeapRange.start) \in {0, 1}
    BY <1>2 DEF Had
  <2> QED
    BY <2>1, <1>1, <1>3 DEF NodesAreCounted
<1>0. LowMap.start < LowMap.end
  BY <1>2 DEF VmAcquireRegion, Acceptable
<1>5. Apart(LowMap.start, LowMap.end)
  <2> SUFFICES ASSUME NEW i \in 1 .. Len(vmrs) - 1
               PROVE  vmrs[i].VaddrEnd <= LowMap.start \/ LowMap.end <= vmrs[i].VaddrStart
    BY DEF Apart
  <2>0. vmrs[i].VaddrStart < vmrs[i].VaddrEnd
    BY <1>1 DEF Ordered
  <2>1. CASE i = Len(vmrs) - 1
    BY <2>1, <1>1, WindowExists DEF StaticsAreLast
  <2>2. CASE i # Len(vmrs) - 1
    <3>1. i \in 1 .. Len(vmrs) - 2 /\ i \in DOMAIN vmrs /\ vmrs[i].VaddrStart \in Nat /\ vmrs[i].VaddrEnd \in Nat
      <4>1. i \in 1 .. Len(vmrs) - 2 /\ i \in 1 .. Len(vmrs)
        BY <2>2, <1>3, BelowLast
      <4> QED
        BY <4>1, <1>3, Zenon DEF RegionFacts
    <3>2. ~InPart(vmrs[i], LowMap)
      BY <3>1, <1>2 DEF InPart, HasRegion
    <3>3. InPart(vmrs[i], HeapRange) \/ MmioStart <= vmrs[i].VaddrStart
      BY <3>1, <3>2, <1>1 DEF OthersHaveTheirPlace
    <3> QED
      BY <3>1, <3>3, <2>0 DEF InPart
  <2> QED
    BY <2>1, <2>2
<1>6. Grown(r)
  <2>1. LowMap.end <= BinaryStart /\ flags \in FlagSet
    BY WindowExists DEF FlagSet
  <2> QED
    BY <2>1, <1>1, <1>2, <1>4, <1>5, AcquireStep
<1>7. r.VaddrStart = LowMap.start /\ r.VaddrEnd = LowMap.end
  BY DEF Region
<1>8. n = LowMap.end - LowMap.start /\ n \in Nat
  BY <1>0 DEF Steps, RegionPageSize
<1>9. MapsPages(LowMap.start, LowMap.start, n)
  <2>1. "largePages" \notin flags
    OBVIOUS
  <2> QED
    BY <2>1, <1>2, <1>8, MapFacts
<1> HIDE DEF r, n, flags
<1>10. /\ \A v \in DOMAIN mapped' : mapped'[v] \in Nat
       /\ \A d \in devs : \A k \in 0 .. d.size - 1 :
             d.vaddr + k \in DOMAIN mapped' /\ mapped'[d.vaddr + k] = d.paddr + k
  <2>1. LowMap.start + n <= MmioStart
    BY <1>8
  <2> QED
    BY <2>1, <1>1, <1>8, <1>9, MapKeeps
<1>11. Shape'
  <2> HIDE DEF RegionSet
  <2> QED
    BY <1>1, <1>2, <1>3, <1>6, <1>10 DEF Shape, Grown
<1>12. HeadInWindow(span)'
  BY <1>1, <1>2 DEF HeadInWindow
<1>13. OthersHaveTheirPlace'
  BY <1>1, <1>2, <1>3, <1>6, <1>7, GrownPlaces DEF InPart
<1>14. NodesAreCounted'
  BY <1>1, <1>2, <1>3, <1>6, <1>7, GrownCounts
<1>15. DevicesAreBelowHead' /\ DevicesStayMapped'
  BY <1>1, <1>2, <1>10 DEF DevicesAreBelowHead, DevicesStayMapped
<1> QED
  BY <1>6, <1>11, <1>12, <1>13, <1>14, <1>15 DEF SpaceIInv, Grown

(* The head moves by at most span, past what it has given out before. *)
LEMMA DeviceStep ==
  ASSUME NEW span \in Nat, WindowHolds(span), NodesSuffice, SpaceIInv(span),
         NEW d \in Devices, MmioMapDevice(d)
  PROVE  SpaceIInv(span)'
<1> USE SpaceConstants
<1> DEFINE unit  == IF d.large THEN LargePage ELSE 1
           start == MmioAllocateRange(unit, d.size).base
           end   == start + d.size
           flags == {"static", "write"}
           r     == Region(start, end, flags)
           new   == [vaddr |-> start, paddr |-> d.paddr, size |-> d.size]
<1>1. /\ Shape /\ HeadInWindow(span) /\ StaticsAreLast /\ OthersHaveTheirPlace /\ Ordered
      /\ NodesInOrder /\ NodesAreCounted /\ DevicesAreBelowHead /\ DevicesStayMapped
  BY DEF SpaceIInv
<1>2. nDev < MaxDevices /\ nDev' = nDev + 1
  BY DEF MmioMapDevice
<1>3. nDev \in Nat /\ nDev \in 0 .. MaxDevices /\ Head_ \in Nat /\ MmioStart <= Head_ /\ Len(vmrs) \in Nat
      /\ Len(vmrs) >= 2 /\ RegionFacts /\ DOMAIN vmrs = 1 .. Len(vmrs) /\ nDev' \in 0 .. MaxDevices
  BY <1>1, <1>2, RegionTypes DEF Shape
<1>4. d.paddr \in Nat /\ d.size \in Nat /\ d.size + LargePage - 1 <= span
  <2>1. d \in [paddr : Nat, size : Nat, large : BOOLEAN]
    BY VmmAssumption
  <2> QED
    BY <2>1 DEF WindowHolds
<1>5. start \in Nat /\ end \in Nat /\ Head_ <= start /\ end <= Head_ + span
  <2>1. unit \in Nat /\ unit > 0 /\ unit <= LargePage
    OBVIOUS
  <2> HIDE DEF unit
  <2>2. start = ((Head_ + unit - 1) \div unit) * unit
    BY DEF MmioAllocateRange
  <2>3. start \in Nat /\ Head_ <= start /\ start <= Head_ + unit - 1
    BY <2>1, <2>2, <1>3, RoundUp
  <2> HIDE DEF start
  <2>4. PICK z : z = d.size
    OBVIOUS
  <2>5. z \in Nat /\ z + LargePage - 1 <= span
    BY <2>4, <1>4
  <2>6. start + z \in Nat /\ start + z <= Head_ + span
    BY <2>1, <2>3, <2>5, <1>3
  <2> QED
    BY <2>3, <2>4, <2>6
<1>6. MmioAllocateRange(unit, d.size).head = end
  BY DEF MmioAllocateRange
<1>7. Head_ + span <= BinaryStart /\ Head_ + span <= MmioStart + (nDev + 1) * span
      /\ Head_ <= MmioStart + (nDev + 1) * span /\ (nDev + 1) * span \in Nat
  <2>1. /\ MmioStart + nDev * span + span <= BinaryStart
        /\ (nDev + 1) * span = nDev * span + span /\ nDev * span \in Nat
    BY <1>2, <1>3, WindowFacts
  <2>2. Head_ <= MmioStart + nDev * span
    BY <1>1 DEF HeadInWindow
  <2> DEFINE x == nDev * span
             y == (nDev + 1) * span
  <2> HIDE DEF x, y
  <2>3. /\ MmioStart + x + span <= BinaryStart /\ y = x + span /\ x \in Nat /\ Head_ <= MmioStart + x
    BY <2>1, <2>2 DEF x, y
  <2>4. Head_ + span <= BinaryStart /\ Head_ + span <= MmioStart + y /\ Head_ <= MmioStart + y /\ y \in Nat
    BY <2>3, <1>3
  <2> QED
    BY <2>4 DEF y
<1>8. CASE UNCHANGED <<Head_, vmrs, NrVMRs, mapped, devs, rnaVars>>
  <2>1. Head_' = Head_ /\ vmrs' = vmrs /\ NrVMRs' = NrVMRs /\ mapped' = mapped /\ devs' = devs /\ rna' = rna /\ nodes' = nodes
    BY <1>8 DEF rnaVars
  <2>2. Shape' /\ HeadInWindow(span)'
    BY <2>1, <1>1, <1>2, <1>3, <1>7 DEF Shape, HeadInWindow
  <2>3. StaticsAreLast' /\ OthersHaveTheirPlace' /\ Ordered' /\ NodesInOrder'
    BY <2>1, <1>1 DEF StaticsAreLast, OthersHaveTheirPlace, Ordered, NodesInOrder, InPart
  <2>4. NodesAreCounted'
    <3>1. Had(LowMap.start)' = Had(LowMap.start) /\ Had(HeapRange.start)' = Had(HeapRange.start)
          /\ Had(LowMap.start) \in {0, 1} /\ Had(HeapRange.start) \in {0, 1}
      BY <2>1 DEF Had, HasRegion
    <3> QED
      BY <3>1, <2>1, <1>1, <1>2, <1>3 DEF NodesAreCounted
  <2>5. DevicesAreBelowHead' /\ DevicesStayMapped'
    BY <2>1, <1>1 DEF DevicesAreBelowHead, DevicesStayMapped
  <2> QED
    BY <2>2, <2>3, <2>4, <2>5 DEF SpaceIInv
<1> HIDE DEF unit, start
<1>9. ASSUME Head_' = end
      PROVE  /\ Head_' \in Nat /\ Head_ <= Head_' /\ MmioStart <= Head_' /\ HeadInWindow(span)'
             /\ \A e \in devs : e \in [vaddr : Nat, paddr : Nat, size : Nat]
                                /\ MmioStart <= e.vaddr /\ e.vaddr + e.size <= Head_'
  <2>1. Head_' \in Nat /\ Head_ <= Head_' /\ MmioStart <= Head_'
    <3>1. start <= end
      <4>1. PICK z : z = d.size
        OBVIOUS
      <4>2. z \in Nat /\ start \in Nat /\ end = start + z
        BY <4>1, <1>4, <1>5
      <4> HIDE DEF end
      <4> QED
        BY <4>2
    <3> HIDE DEF end
    <3>2. start \in Nat /\ end \in Nat /\ Head_ \in Nat /\ MmioStart <= Head_ /\ Head_ <= start
      BY <1>3, <1>5
    <3> QED
      BY <3>1, <3>2, <1>9
  <2>2. HeadInWindow(span)'
    <3>1. end <= MmioStart + (nDev + 1) * span
      <4> DEFINE y == (nDev + 1) * span
      <4> HIDE DEF y
      <4>1. Head_ + span <= MmioStart + y /\ y \in Nat
        BY <1>7 DEF y
      <4>2. end <= MmioStart + y
        BY <4>1, <1>3, <1>5
      <4> QED
        BY <4>2 DEF y
    <3> QED
      BY <3>1, <1>2, <1>9 DEF HeadInWindow
  <2>3. ASSUME NEW e \in devs
        PROVE  e \in [vaddr : Nat, paddr : Nat, size : Nat] /\ MmioStart <= e.vaddr /\ e.vaddr + e.size <= Head_'
    <3>1. e \in [vaddr : Nat, paddr : Nat, size : Nat] /\ MmioStart <= e.vaddr /\ e.vaddr + e.size <= Head_
      BY <1>1 DEF DevicesAreBelowHead
    <3> QED
      BY <3>1, <2>1, <1>3
  <2> QED
    BY <2>1, <2>2, <2>3, <1>1
<1>10. CASE Head_' = end /\ VmAcquireFails(start, end, flags) /\ UNCHANGED <<mapped, devs>>
  <2>1. vmrs' = vmrs /\ NrVMRs' = NrVMRs /\ mapped' = mapped /\ devs' = devs /\ rna' = rna /\ nodes' = nodes
    BY <1>10 DEF VmAcquireFails, rnaVars
  <2>2. /\ Head_' \in Nat /\ Head_ <= Head_' /\ MmioStart <= Head_' /\ HeadInWindow(span)'
        /\ \A e \in devs : e \in [vaddr : Nat, paddr : Nat, size : Nat]
                           /\ MmioStart <= e.vaddr /\ e.vaddr + e.size <= Head_'
    BY <1>9, <1>10
  <2>3. Shape'
    BY <2>1, <2>2, <1>1, <1>3 DEF Shape
  <2>4. StaticsAreLast' /\ Ordered' /\ NodesInOrder'
    BY <2>1, <1>1 DEF StaticsAreLast, Ordered, NodesInOrder
  <2>5. OthersHaveTheirPlace'
    <3> SUFFICES ASSUME NEW i \in 1 .. Len(vmrs) - 2, MmioStart <= vmrs[i].VaddrStart, vmrs[i].VaddrEnd <= Head_
                 PROVE  vmrs[i].VaddrEnd <= Head_'
      BY <2>1, <1>1 DEF OthersHaveTheirPlace, InPart
    <3>1. vmrs[i].VaddrEnd \in Nat
      BY <1>3 DEF RegionFacts
    <3> QED
      BY <3>1, <2>2, <1>3
  <2>6. NodesAreCounted'
    <3>1. Had(LowMap.start)' = Had(LowMap.start) /\ Had(HeapRange.start)' = Had(HeapRange.start)
          /\ Had(LowMap.start) \in {0, 1} /\ Had(HeapRange.start) \in {0, 1}
      BY <2>1 DEF Had, HasRegion
    <3> QED
      BY <3>1, <2>1, <1>1, <1>2, <1>3 DEF NodesAreCounted
  <2>7. DevicesAreBelowHead' /\ DevicesStayMapped'
    BY <2>1, <2>2, <1>1 DEF DevicesAreBelowHead, DevicesStayMapped
  <2> QED
    BY <2>2, <2>3, <2>4, <2>5, <2>6, <2>7 DEF SpaceIInv
<1>11. ASSUME Head_' = end, VmAcquireRegion(start, end, flags), NEW n \in 0 .. Steps(start, end, flags),
              VmMapStatic(start, end, flags, d.paddr, n),
              devs' = IF n < Steps(start, end, flags) THEN devs ELSE devs \cup {new}
       PROVE  SpaceIInv(span)'
  <2>1. Len(vmrs) < 4 + MaxDevices
    <3>1. Had(LowMap.start) \in {0, 1} /\ Had(HeapRange.start) \in {0, 1}
      BY DEF Had
    <3> QED
      BY <3>1, <1>1, <1>2, <1>3 DEF NodesAreCounted
  <2>2. Apart(start, end)
    <3> SUFFICES ASSUME NEW i \in 1 .. Len(vmrs) - 1
                 PROVE  vmrs[i].VaddrEnd <= start \/ end <= vmrs[i].VaddrStart
      BY DEF Apart
    <3>1. CASE i = Len(vmrs) - 1
      <4>1. end <= BinaryStart
        BY <1>3, <1>5, <1>7
      <4> QED
        BY <3>1, <4>1, <1>1 DEF StaticsAreLast
    <3>2. CASE i # Len(vmrs) - 1
      <4>1. i \in 1 .. Len(vmrs) - 2 /\ i \in 1 .. Len(vmrs)
        BY <3>2, <1>3, BelowLast
      <4>2. vmrs[i].VaddrEnd \in Nat
        BY <4>1, <1>3, Zenon DEF RegionFacts
      <4>3. InPart(vmrs[i], LowMap) \/ InPart(vmrs[i], HeapRange) \/ vmrs[i].VaddrEnd <= Head_
        BY <4>1, <1>1, Zenon DEF OthersHaveTheirPlace
      <4>4. vmrs[i].VaddrEnd <= MmioStart \/ vmrs[i].VaddrEnd <= Head_
        BY <4>2, <4>3 DEF InPart
      <4>5. PICK z : z = vmrs[i].VaddrEnd
        OBVIOUS
      <4>6. z \in Nat /\ (z <= MmioStart \/ z <= Head_)
        BY <4>2, <4>4, <4>5
      <4>7. z <= start
        BY <4>6, <1>3, <1>5
      <4> QED
        BY <4>5, <4>7
    <3> QED
      BY <3>1, <3>2
  <2>3. Grown(r) /\ start < end
    <3>1. end <= BinaryStart /\ flags \in FlagSet
      BY <1>3, <1>5, <1>7 DEF FlagSet
    <3> HIDE DEF flags, end
    <3>2. end \in Nat
      BY <1>5
    <3> QED
      BY <2>1, <2>2, <3>1, <3>2, <1>1, <1>5, <1>11, AcquireStep
  <2>4. r.VaddrStart = start /\ r.VaddrEnd = end
    BY DEF Region
  <2>5. Steps(start, end, flags) = d.size
    BY <1>4, <1>5 DEF Steps, RegionPageSize
  <2>6. n \in Nat /\ n <= d.size
    BY <2>5, <1>4
  <2>7. MapsPages(start, d.paddr, n)
    <3>1. "largePages" \notin flags
      OBVIOUS
    <3> HIDE DEF flags, end
    <3>2. end \in Nat
      BY <1>5
    <3> QED
      BY <3>1, <3>2, <2>6, <1>4, <1>5, <1>11, MapFacts
  <2>8. /\ \A v \in DOMAIN mapped' : mapped'[v] \in Nat
        /\ \A e \in devs : \A k \in 0 .. e.size - 1 :
              e.vaddr + k \in DOMAIN mapped' /\ mapped'[e.vaddr + k] = e.paddr + k
    BY <2>6, <2>7, <1>1, <1>3, <1>4, <1>5, MapKeeps
  <2>9. /\ Head_' \in Nat /\ Head_ <= Head_' /\ MmioStart <= Head_' /\ HeadInWindow(span)'
        /\ \A e \in devs : e \in [vaddr : Nat, paddr : Nat, size : Nat]
                           /\ MmioStart <= e.vaddr /\ e.vaddr + e.size <= Head_'
    BY <1>9, <1>11
  <2>10. new \in [vaddr : Nat, paddr : Nat, size : Nat] /\ MmioStart <= new.vaddr /\ new.vaddr + new.size <= Head_'
    <3>1. new.vaddr = start /\ new.size = d.size /\ new \in [vaddr : Nat, paddr : Nat, size : Nat]
      BY <1>4, <1>5
    <3>2. MmioStart <= start /\ start + d.size <= Head_'
      BY <1>3, <1>5, <1>11
    <3> HIDE DEF new
    <3> QED
      BY <3>1, <3>2, Zenon
  <2>11. n = d.size => \A k \in 0 .. new.size - 1 :
                          new.vaddr + k \in DOMAIN mapped' /\ mapped'[new.vaddr + k] = new.paddr + k
    <3> SUFFICES ASSUME n = d.size, NEW k \in 0 .. d.size - 1
                 PROVE  start + k \in DOMAIN mapped' /\ mapped'[start + k] = d.paddr + k
      OBVIOUS
    <3>1. start + k \in start .. start + n - 1 /\ (start + k) - start = k
      BY <1>4, <1>5
    <3> QED
      BY <3>1, <2>7 DEF MapsPages
  <2>12. devs' = devs \/ (devs' = devs \cup {new} /\ n = d.size)
    BY <2>5, <2>6, <1>4, <1>11
  <2> HIDE DEF r, new, end, flags
  <2>13. Shape'
    <3> HIDE DEF RegionSet
    <3> QED
      BY <2>3, <2>8, <2>9, <1>3, <1>1 DEF Shape, Grown
  <2>14. OthersHaveTheirPlace'
    <3>1. MmioStart <= r.VaddrStart /\ r.VaddrEnd <= Head_'
      BY <2>4, <1>3, <1>5, <1>11
    <3> QED
      BY <3>1, <2>3, <2>9, <1>1, GrownPlaces
  <2>15. NodesAreCounted'
    BY <2>3, <1>1, <1>2, <1>3, GrownCounts
  <2>16. DevicesAreBelowHead' /\ DevicesStayMapped'
    BY <2>8, <2>9, <2>10, <2>11, <2>12, Zenon DEF DevicesAreBelowHead, DevicesStayMapped
  <2> QED
    BY <2>3, <2>9, <2>13, <2>14, <2>15, <2>16 DEF SpaceIInv, Grown
<1> QED
  <2> USE DEF start, unit
  <2>1. CASE Aligned(d.paddr, unit) /\ Aligned(d.paddr + d.size, unit)
    <3>1. Head_' = end
      BY <2>1, <1>6 DEF MmioMapDevice
    <3>2. \/ VmAcquireFails(start, end, flags) /\ UNCHANGED <<mapped, devs>>
          \/ /\ VmAcquireRegion(start, end, flags)
             /\ \E n \in 0 .. Steps(start, end, flags) :
                   /\ VmMapStatic(start, end, flags, d.paddr, n)
                   /\ devs' = IF n < Steps(start, end, flags) THEN devs ELSE devs \cup {new}
      BY <2>1, Zenon DEF MmioMapDevice
    <3> HIDE DEF start, unit, end, flags, new
    <3> QED
      BY <3>1, <3>2, <1>10, <1>11
  <2>2. CASE ~(Aligned(d.paddr, unit) /\ Aligned(d.paddr + d.size, unit))
    <3>1. UNCHANGED <<Head_, vmrs, NrVMRs, mapped, devs, rnaVars>>
      BY <2>2, Zenon DEF MmioMapDevice
    <3> QED
      BY <3>1, <1>8
  <2> QED
    BY <2>1, <2>2

-----------------------------------------------------------------------------
LEMMA SpaceIInvImplies ==
  ASSUME NEW span \in Nat, SpaceIInv(span)
  PROVE  RegionsAreSound
<1> USE SpaceConstants
<1>1. Shape /\ Ordered /\ NodesInOrder /\ NodesAreCounted /\ DevicesStayMapped
  BY DEF SpaceIInv
<1>2. RegionFacts /\ Len(vmrs) \in Nat /\ Len(vmrs) >= 2 /\ DOMAIN vmrs = 1 .. Len(vmrs)
  BY <1>1, RegionTypes DEF Shape
<1>3. SpaceTypeOK
  <2>1. \A i \in DOMAIN vmrs : vmrs[i].VaddrStart \in Nat /\ vmrs[i].VaddrEnd \in Nat
    BY <1>2, Zenon DEF RegionFacts
  <2>2. NrVMRs = Len(vmrs) /\ NrVMRs = Len(nodes)
    BY <1>1 DEF Shape, NodesAreCounted
  <2>3. Head_ >= MmioStart /\ \A v \in DOMAIN mapped : mapped[v] \in Nat
    BY <1>1 DEF Shape
  <2> QED
    BY <2>1, <2>2, <2>3 DEF SpaceTypeOK
<1>4. NodesAreDistinct
  <2>1. DOMAIN nodes = 1 .. Len(nodes) /\ Len(nodes) \in Nat /\ \A j \in DOMAIN nodes : nodes[j] = NodeAt(j)
    BY <1>1 DEF NodesInOrder
  <2>2. ASSUME NEW i \in Nat \ {0}, NEW j \in Nat \ {0}, NodeAt(i) = NodeAt(j)
        PROVE  i = j
    BY <2>2 DEF NodeAt
  <2>3. ASSUME NEW i \in Nat \ {0} PROVE NodeAt(i)[2] # 0
    BY DEF NodeAt
  <2>4. \A i \in DOMAIN nodes : i \in Nat \ {0}
    BY <2>1
  <2>5. ASSUME NEW i \in DOMAIN nodes, NEW j \in DOMAIN nodes, nodes[i] = nodes[j]
        PROVE  i = j
    BY <2>1, <2>2, <2>4, <2>5
  <2>6. ASSUME NEW i \in DOMAIN nodes PROVE nodes[i][2] # 0
    BY <2>1, <2>3, <2>4
  <2> QED
    BY <2>5, <2>6 DEF NodesAreDistinct
<1>5. ListIsSorted
  <2> SUFFICES ASSUME NEW i \in 1 .. Len(vmrs) - 1
               PROVE  vmrs[i].VaddrStart < vmrs[i + 1].VaddrStart
    BY DEF ListIsSorted
  <2>1. i \in 1 .. Len(vmrs) /\ i + 1 \in 1 .. Len(vmrs) /\ i < i + 1
    BY <1>2
  <2>2. vmrs[i].VaddrStart < vmrs[i].VaddrEnd /\ vmrs[i].VaddrEnd <= vmrs[i + 1].VaddrStart
    BY <2>1, <1>1 DEF Ordered
  <2> QED
    BY <2>1, <2>2, <1>2 DEF RegionFacts
<1>6. RegionsAreDisjoint
  <2> SUFFICES ASSUME NEW i \in 1 .. Len(vmrs), NEW j \in 1 .. Len(vmrs), i # j
               PROVE  ~VmVrangeOverlapsRegion(vmrs[i], vmrs[j].VaddrStart, vmrs[j].VaddrEnd)
    BY <1>2 DEF RegionsAreDisjoint
  <2>1. /\ vmrs[i].VaddrStart \in Nat /\ vmrs[i].VaddrEnd \in Nat
        /\ vmrs[j].VaddrStart \in Nat /\ vmrs[j].VaddrEnd \in Nat
    BY <1>2 DEF RegionFacts
  <2>2. vmrs[i].VaddrEnd <= vmrs[j].VaddrStart \/ vmrs[j].VaddrEnd <= vmrs[i].VaddrStart
    BY <1>1, <1>2 DEF Ordered
  <2> QED
    BY <2>1, <2>2 DEF VmVrangeOverlapsRegion
<1> QED
  BY <1>1, <1>3, <1>4, <1>5, <1>6 DEF RegionsAreSound

LEMMA SpaceIInvInductive ==
  ASSUME NEW span \in Nat, WindowHolds(span), NodesSuffice, SpaceIInv(span), [SpaceNext]_vmmVars
  PROVE  SpaceIInv(span)'
<1>1. CASE UNCHANGED vmmVars
  BY <1>1 DEF vmmVars, SpaceIInv, Shape, HeadInWindow, StaticsAreLast, OthersHaveTheirPlace, InPart,
     Ordered, NodesInOrder, NodesAreCounted, Had, HasRegion, DevicesAreBelowHead, DevicesStayMapped
<1>2. CASE SpaceNext
  BY <1>2, HeapStep, LowMapStep, DeviceStep DEF SpaceNext
<1> QED
  BY <1>1, <1>2

(* The regions of the kernel address space are sorted and disjoint, each   *)
(* has a node of its own, and a device that was mapped stays mapped, for   *)
(* every layout and every set of devices, whatever order the heap, the low *)
(* map and the devices come in, and however nodes run out and mappings     *)
(* fail half way.  VmAcquireRegion does not refuse overlapping ranges: the *)
(* proof shows that none of its callers asks for one as long as the device *)
(* window is not used up.                                                  *)
THEOREM RegionsSound ==
  ASSUME NEW span \in Nat, WindowHolds(span), NodesSuffice
  PROVE  SpaceSpec => []RegionsAreSound
<1>1. SpaceInit => SpaceIInv(span)
  BY SpaceInitStep
<1>2. SpaceIInv(span) /\ [SpaceNext]_vmmVars => SpaceIInv(span)'
  BY SpaceIInvInductive
<1>3. SpaceIInv(span) => RegionsAreSound
  BY SpaceIInvImplies
<1> QED
  BY <1>1, <1>2, <1>3, PTL DEF SpaceSpec
=============================================================================
