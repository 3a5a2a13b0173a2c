----------------------------- MODULE BootProofs -----------------------------
(***************************************************************************)
(* The loader hands over as promised, for every computer: any number of    *)
(* video modes, file systems and memory descriptors, and page tables of    *)
(* any size.                                                               *)
(***************************************************************************)
EXTENDS YchBoot, SequenceTheorems, TLAPS
-----------------------------------------------------------------------------
(* The inductive invariant *)

BeforeExit ==
  {"locate handles", "open handle", "open volume", "read bootelvt", "read kernel", "locate gop",
   "query modes", "size map", "allocate map", "get map", "exit"}
AfterCopy == {"kernel pages", "frame buffer pages", "identity pages", "call kernel", "kernel"}
BootSteps == BeforeExit \cup {"copy map"} \cup AfterCopy \cup {"returned", "lost"}

NrModes == Len(computer.modes)

LoaderTypes ==
  /\ computer \in Computers /\ step \in BootSteps
  /\ modeIndex \in 1 .. NrModes + 1 /\ answered \subseteq 1 .. modeIndex - 1
  /\ best \in 0 .. NrModes /\ video \in Modes
  /\ memory \in [Areas -> {"free", "garbage", "bootelvt", "kernel", "pool", "map"}]
  /\ fw \in [version : Nat, count : Nat, up : BOOLEAN, events : Nat]
  /\ fwMap \in [size : Nat, key : Nat, copied : Nat]

Suitable == {k \in answered : Is16by9(Mode(k)) /\ Mode(k).bgr}
NotLarger(m, n) == m.h < n.h \/ (m.h = n.h /\ m.w <= n.w)

(* A mode that ends the search is the last one that is looked at, so that  *)
(* whatever was found counts.                                              *)
SearchIsRight ==
  /\ \A s \in Suitable : EndsSearch(Mode(s)) => modeIndex = NrModes + 1 /\ \A k \in answered : k <= s
  /\ best = 0 => Suitable = {}
  /\ best # 0 => best \in Suitable /\ \A k \in Suitable : NotLarger(Mode(k), Mode(best))
  /\ video = computer.default \/ \E k \in Suitable : video = Mode(k)

(* The firmware is up until the loader ends it with the key of the map it  *)
(* has; the area of the map is nobody else's.                              *)
FirmwareIsUp == step \in BeforeExit \cup {"returned"} => fw.up = TRUE
MapAreaIsFree ==
  computer.roomy = TRUE =>
    /\ step \in BeforeExit \cup {"copy map"} => memory["map area"] = "free"
    /\ step \in AfterCopy => memory["map area"] = "map"
KeyIsFresh ==
  computer.quiet = TRUE =>
    /\ fw.events = 0
    /\ step = "allocate map" => fwMap.size = fw.count + SLACK
    /\ step = "get map" => fw.count <= fwMap.size
    /\ step \in {"exit", "copy map"} => fwMap.key = fw.version
    /\ step = "copy map" => fw.up = FALSE
    /\ step \in AfterCopy => fwMap.copied = fw.version /\ fw.up = FALSE

(* What Bootelvt has written of its tables. *)
KernelPages == [e \in 0 .. ENTRIES - 1 |-> IF e < KERNEL_PAGES THEN Entry("kernel", e) ELSE None]
BufferSlot(n, s) == IF s < n THEN Entry("frame buffer", s) ELSE None
FinalSlot(n, s) ==
  CASE s = ENTRIES      -> Entry("table", 2)
    [] s = 2 * ENTRIES  -> Entry("table", 3)
    [] s >= 3 * ENTRIES -> Entry("low", s - 3 * ENTRIES)
    [] OTHER            -> BufferSlot(n, s)

TablesProgress ==
  /\ step \in BeforeExit \cup {"copy map", "kernel pages"} =>
       KRNL_PD = [e \in 0 .. ENTRIES - 1 |-> None]
  /\ step \in BeforeExit \cup {"copy map", "kernel pages", "frame buffer pages"} =>
       slots = [s \in Slots |-> None]
  /\ step \in AfterCopy \ {"kernel pages"} => KRNL_PD = KernelPages
  /\ step = "identity pages" =>
       slots = [s \in Slots |-> BufferSlot(FrameBufferPages(video.fb), s)]
  /\ step \in {"call kernel", "kernel"} =>
       slots = [s \in Slots |-> FinalSlot(FrameBufferPages(video.fb), s)]

BootIInv ==
  LoaderTypes /\ SearchIsRight /\ FirmwareIsUp /\ MapAreaIsFree /\ KeyIsFresh /\ TablesProgress
-----------------------------------------------------------------------------
(* What a step leaves alone *)

LEMMA SearchKept ==
  ASSUME SearchIsRight, UNCHANGED <<computer, loader>>
  PROVE  SearchIsRight'
  <1>1. UNCHANGED <<computer, modeIndex, best, answered, video>>
    BY DEF loader
  <1>2. NrModes' = NrModes /\ \A k : Mode(k)' = Mode(k)
    BY <1>1 DEF NrModes, Mode
  <1>3. \A m : EndsSearch(m)' <=> EndsSearch(m)
    BY <1>1 DEF EndsSearch
  <1>4. Suitable' = Suitable
    BY <1>1, <1>2 DEF Suitable
  <1> QED BY <1>1, <1>2, <1>3, <1>4 DEF SearchIsRight, NotLarger

LEMMA TypesKept ==
  ASSUME LoaderTypes, UNCHANGED <<computer, loader>>, step' \in BootSteps,
         memory' \in [Areas -> {"free", "garbage", "bootelvt", "kernel", "pool", "map"}],
         fw' \in [version : Nat, count : Nat, up : BOOLEAN, events : Nat],
         fwMap' \in [size : Nat, key : Nat, copied : Nat]
  PROVE  LoaderTypes'
  BY DEF LoaderTypes, loader, NrModes

(* A step before the end of the firmware that touches neither the map area *)
(* nor the map, the firmware nor the tables.                               *)
LEMMA EarlyStep ==
  ASSUME BootIInv, step \in BeforeExit, step' \in (BeforeExit \ {"allocate map", "get map", "exit"}) \cup {"returned", "lost"},
         UNCHANGED <<computer, fw, fwMap, tables>>,
         computer.roomy = TRUE => memory'["map area"] = memory["map area"]
  PROVE  FirmwareIsUp' /\ MapAreaIsFree' /\ KeyIsFresh' /\ TablesProgress'
  <1>1. UNCHANGED <<KRNL_PD, slots>>
    BY DEF tables
  <1>2. FirmwareIsUp'
    BY DEF BootIInv, FirmwareIsUp, BeforeExit
  <1>3. MapAreaIsFree'
    BY DEF BootIInv, MapAreaIsFree, BeforeExit, AfterCopy
  <1>4. KeyIsFresh'
    BY DEF BootIInv, KeyIsFresh, BeforeExit, AfterCopy
  <1>5. TablesProgress'
    BY <1>1 DEF BootIInv, TablesProgress, BeforeExit, AfterCopy
  <1> QED BY <1>2, <1>3, <1>4, <1>5

LEMMA OnlyStepMoves ==
  ASSUME BootIInv, step \in BeforeExit, step' \in (BeforeExit \ {"allocate map", "get map", "exit"}) \cup {"returned", "lost"},
         UNCHANGED <<computer, loader, memory, fw, fwMap, tables>>
  PROVE  BootIInv'
  <1>1. LoaderTypes'
    BY TypesKept DEF BootIInv, LoaderTypes, BootSteps
  <1>2. SearchIsRight'
    BY SearchKept DEF BootIInv
  <1> QED BY <1>1, <1>2, EarlyStep DEF BootIInv
-----------------------------------------------------------------------------
(* Each step keeps the invariant *)

LEMMA BootInitIInv == BootInit /\ BootAssumption => BootIInv
  <1> SUFFICES ASSUME BootInit, BootAssumption PROVE BootIInv OBVIOUS
  <1>1. /\ computer \in Computers /\ computer.modes \in Seq(Modes) /\ computer.default \in Modes
        /\ {computer.hypervisor, computer.roomy, computer.quiet} \subseteq BOOLEAN
    BY DEF BootInit, BootAssumption
  <1>2. Len(computer.modes) \in Nat
    BY <1>1
  <1>3. fw \in [version : Nat, count : Nat, up : BOOLEAN, events : Nat] /\ fw.up = TRUE
        /\ (computer.quiet = TRUE => fw.events = 0)
    BY <1>1 DEF BootInit
  <1>4. LoaderTypes
    <2>1. /\ modeIndex \in 1 .. NrModes + 1 /\ answered \subseteq 1 .. modeIndex - 1
          /\ best \in 0 .. NrModes
      <3>1. NrModes \in Nat
        BY <1>2 DEF NrModes
      <3>2. modeIndex = 1 /\ best = 0 /\ answered = {}
        BY DEF BootInit
      <3> QED BY <3>1, <3>2
    <2>2. fwMap \in [size : Nat, key : Nat, copied : Nat]
      BY DEF BootInit
    <2>3. memory \in [Areas -> {"free", "garbage", "bootelvt", "kernel", "pool", "map"}]
      BY DEF BootInit
    <2>4. step \in BootSteps /\ video \in Modes
      BY <1>1 DEF BootInit, BootSteps, BeforeExit
    <2> QED BY <1>1, <1>3, <2>1, <2>2, <2>3, <2>4 DEF LoaderTypes
  <1>5. Suitable = {}
    BY DEF BootInit, Suitable
  <1>6. SearchIsRight
    BY <1>5 DEF BootInit, SearchIsRight
  <1>7. FirmwareIsUp /\ KeyIsFresh
    BY <1>3 DEF BootInit, FirmwareIsUp, KeyIsFresh, AfterCopy
  <1>8. MapAreaIsFree
    BY DEF BootInit, MapAreaIsFree, AfterCopy, Areas
  <1>9. TablesProgress
    BY DEF BootInit, TablesProgress, BeforeExit, AfterCopy
  <1> QED BY <1>4, <1>6, <1>7, <1>8, <1>9 DEF BootIInv

LEMMA FileStep ==
  ASSUME BootIInv, LocateHandleBuffer \/ HandleProtocol \/ OpenVolume \/ LocateProtocol
  PROVE  BootIInv'
  <1>1. /\ step \in BeforeExit
        /\ step' \in (BeforeExit \ {"allocate map", "get map", "exit"}) \cup {"returned", "lost"}
        /\ UNCHANGED <<computer, loader, memory, fw, fwMap, tables>>
    BY DEF LocateHandleBuffer, HandleProtocol, OpenVolume, LocateProtocol, Then, BeforeExit
  <1> QED BY <1>1, OnlyStepMoves

(* A file is read to its own area, and its pool lies elsewhere. *)
LEMMA ReadFileStep ==
  ASSUME BootIInv, ReadBootelvt \/ ReadKernel
  PROVE  BootIInv'
  <1>1. PICK file \in {"bootelvt", "kernel"} : ReadFile(file)
    BY DEF ReadBootelvt, ReadKernel
  <1>2. /\ step \in BeforeExit
        /\ step' \in (BeforeExit \ {"allocate map", "get map", "exit"}) \cup {"returned", "lost"}
        /\ UNCHANGED <<computer, loader, fw, fwMap, tables>>
    BY DEF ReadBootelvt, ReadKernel, ReadFile, BeforeExit
  <1>3. \/ UNCHANGED memory
        \/ \E pool \in PoolAreas : memory' = [memory EXCEPT ![pool] = "garbage", ![file] = file]
    BY <1>1 DEF ReadFile
  <1>4. memory \in [Areas -> {"free", "garbage", "bootelvt", "kernel", "pool", "map"}]
    BY DEF BootIInv, LoaderTypes
  <1>5. memory' \in [Areas -> {"free", "garbage", "bootelvt", "kernel", "pool", "map"}]
    BY <1>1, <1>3, <1>4
  <1>6. computer.roomy = TRUE => memory'["map area"] = memory["map area"]
    BY <1>1, <1>3, <1>4 DEF PoolAreas, Areas
  <1>7. LoaderTypes'
    BY <1>2, <1>5, TypesKept DEF BootIInv, LoaderTypes, BootSteps
  <1>8. SearchIsRight'
    BY <1>2, SearchKept DEF BootIInv
  <1>9. FirmwareIsUp' /\ MapAreaIsFree' /\ KeyIsFresh' /\ TablesProgress'
    BY <1>2, <1>6, EarlyStep
  <1> QED BY <1>7, <1>8, <1>9 DEF BootIInv

LEMMA ModeTypes ==
  ASSUME BootAssumption, LoaderTypes
  PROVE  /\ NrModes \in Nat
         /\ \A k \in 1 .. NrModes : Mode(k) \in Modes /\ Mode(k).h \in Nat /\ Mode(k).w \in Nat
  <1>1. computer.modes \in Seq(Modes)
    BY DEF BootAssumption, LoaderTypes
  <1>2. NrModes \in Nat /\ \A k \in 1 .. NrModes : Mode(k) \in Modes
    BY <1>1 DEF NrModes, Mode
  <1> QED BY <1>2 DEF Modes

LEMMA QueryModeStep ==
  ASSUME BootAssumption, BootIInv, QueryMode
  PROVE  BootIInv'
  <1>1. /\ NrModes \in Nat
        /\ \A k \in 1 .. NrModes : Mode(k) \in Modes /\ Mode(k).h \in Nat /\ Mode(k).w \in Nat
    BY ModeTypes DEF BootIInv
  <1>2. modeIndex \in 1 .. NrModes /\ answered \subseteq 1 .. modeIndex - 1 /\ best \in 0 .. NrModes
    <2>1. modeIndex <= NrModes
      BY DEF QueryMode, NrModes
    <2> QED BY <1>1, <2>1 DEF BootIInv, LoaderTypes
  <1>3. UNCHANGED <<computer, step, video, memory, fw, fwMap, tables>> /\ step = "query modes"
    BY DEF QueryMode
  <1>4. NrModes' = NrModes /\ (\A k : Mode(k)' = Mode(k)) /\ (\A d : EndsSearch(d)' <=> EndsSearch(d))
    <2>1. NrModes' = NrModes /\ \A k : Mode(k)' = Mode(k)
      BY <1>3 DEF NrModes, Mode
    <2>2. \A d : EndsSearch(d)' <=> EndsSearch(d)
      <3>1. computer' = computer
        BY <1>3
      <3> QED BY <3>1 DEF EndsSearch
    <2> QED BY <2>1, <2>2
  <1>5. FirmwareIsUp' /\ MapAreaIsFree' /\ KeyIsFresh' /\ TablesProgress'
    BY <1>3, EarlyStep DEF BeforeExit
  <1> DEFINE m == Mode(modeIndex)
             fits == Is16by9(m) /\ m.bgr
  <1>6. \A s \in Suitable : s \in answered /\ ~EndsSearch(Mode(s))
    BY <1>1, <1>2 DEF BootIInv, SearchIsRight, Suitable
  <1>7. CASE modeIndex' = modeIndex + 1 /\ UNCHANGED <<best, answered>>
    <2>1. modeIndex' \in 1 .. NrModes + 1 /\ answered' \subseteq 1 .. modeIndex' - 1
      BY <1>1, <1>2, <1>7
    <2>2. LoaderTypes'
      BY <1>3, <1>4, <1>7, <2>1 DEF BootIInv, LoaderTypes
    <2>3. Suitable' = Suitable
      BY <1>4, <1>7 DEF Suitable
    <2>4. SearchIsRight'
      BY <1>3, <1>4, <1>6, <1>7, <2>3 DEF BootIInv, SearchIsRight, NotLarger
    <2> QED BY <1>5, <2>2, <2>4 DEF BootIInv
  <1>8. CASE /\ answered' = answered \cup {modeIndex}
             /\ best' = IF fits /\ (best = 0 \/ Better(m, Mode(best))) THEN modeIndex ELSE best
             /\ modeIndex' = IF fits /\ EndsSearch(m) THEN NrModes + 1 ELSE modeIndex + 1
    <2>1. modeIndex' \in 1 .. NrModes + 1 /\ answered' \subseteq 1 .. modeIndex' - 1
      <3>1. modeIndex' \in modeIndex + 1 .. NrModes + 1
        BY <1>1, <1>2, <1>8
      <3> QED BY <1>1, <1>2, <1>8, <3>1
    <2>2. best' \in 0 .. NrModes
      BY <1>1, <1>2, <1>8
    <2>3. LoaderTypes'
      BY <1>3, <1>4, <2>1, <2>2 DEF BootIInv, LoaderTypes
    <2>4. Suitable' = IF fits THEN Suitable \cup {modeIndex} ELSE Suitable
      BY <1>4, <1>8 DEF Suitable
    <2>5. \A s \in Suitable' : EndsSearch(Mode(s)) =>
             modeIndex' = NrModes + 1 /\ \A k \in answered' : k <= s
      <3> SUFFICES ASSUME NEW s \in Suitable', EndsSearch(Mode(s))
                   PROVE  modeIndex' = NrModes + 1 /\ \A k \in answered' : k <= s
        OBVIOUS
      <3>1. s = modeIndex /\ fits
        BY <1>6, <2>4
      <3>2. modeIndex' = NrModes + 1
        BY <1>8, <3>1
      <3>3. \A k \in answered' : k <= modeIndex
        BY <1>1, <1>2, <1>8
      <3> QED BY <3>1, <3>2, <3>3
    <2>6. best' = 0 => Suitable' = {}
      BY <1>1, <1>2, <1>8, <2>4 DEF BootIInv, SearchIsRight
    <2>7. ASSUME best' # 0
          PROVE  best' \in Suitable' /\ \A k \in Suitable' : NotLarger(Mode(k), Mode(best'))
      <3>1. \A k \in Suitable : k \in 1 .. NrModes
        BY <1>1, <1>2 DEF Suitable
      <3>2. best # 0 => best \in Suitable /\ \A k \in Suitable : NotLarger(Mode(k), Mode(best))
        BY DEF BootIInv, SearchIsRight
      <3>3. best = 0 => Suitable = {}
        BY DEF BootIInv, SearchIsRight
      <3>4. m.h \in Nat /\ m.w \in Nat
        BY <1>1, <1>2
      <3>5. CASE ~fits
        BY <1>8, <2>4, <2>7, <3>2, <3>5
      <3>6. CASE fits /\ best = 0
        BY <1>8, <2>4, <3>3, <3>4, <3>6 DEF NotLarger
      <3>7. CASE fits /\ best # 0 /\ Better(m, Mode(best))
        <4>1. best' = modeIndex /\ NotLarger(m, m)
          BY <1>8, <3>4, <3>7 DEF NotLarger
        <4>2. \A k \in Suitable : NotLarger(Mode(k), m)
          BY <1>1, <3>1, <3>2, <3>4, <3>7 DEF NotLarger, Better
        <4> QED BY <2>4, <3>7, <4>1, <4>2
      <3>8. CASE fits /\ best # 0 /\ ~Better(m, Mode(best))
        <4>1. best' = best
          BY <1>8, <3>8
        <4>2. NotLarger(m, Mode(best))
          BY <1>1, <3>1, <3>2, <3>4, <3>8 DEF NotLarger, Better
        <4> QED BY <2>4, <3>2, <3>8, <4>1, <4>2
      <3> QED BY <3>5, <3>6, <3>7, <3>8
    <2>8. Suitable \subseteq Suitable'
      BY <2>4
    <2>9. SearchIsRight'
      BY <1>3, <1>4, <2>5, <2>6, <2>7, <2>8 DEF BootIInv, SearchIsRight, NotLarger
    <2> QED BY <1>5, <2>3, <2>9 DEF BootIInv
  <1> QED BY <1>7, <1>8 DEF QueryMode, NrModes

LEMMA SetModeStep ==
  ASSUME BootAssumption, BootIInv, SetMode
  PROVE  BootIInv'
  <1>1. /\ NrModes \in Nat
        /\ \A k \in 1 .. NrModes : Mode(k) \in Modes
    BY ModeTypes DEF BootIInv
  <1>2. /\ UNCHANGED <<computer, modeIndex, best, answered, memory, fw, fwMap, tables>>
        /\ step = "query modes" /\ step' = "size map"
    BY DEF SetMode
  <1>3. video' = video \/ (best # 0 /\ video' = Mode(best))
    BY DEF SetMode
  <1>4. FirmwareIsUp' /\ MapAreaIsFree' /\ KeyIsFresh' /\ TablesProgress'
    BY <1>2, EarlyStep DEF BeforeExit
  <1>5. NrModes' = NrModes /\ (\A k : Mode(k)' = Mode(k)) /\ (\A d : EndsSearch(d)' <=> EndsSearch(d))
    <2>1. NrModes' = NrModes /\ \A k : Mode(k)' = Mode(k)
      BY <1>2 DEF NrModes, Mode
    <2>2. \A d : EndsSearch(d)' <=> EndsSearch(d)
      <3>1. computer' = computer
        BY <1>2
      <3> QED BY <3>1 DEF EndsSearch
    <2> QED BY <2>1, <2>2
  <1>6. best # 0 => best \in 1 .. NrModes /\ best \in Suitable
    BY <1>1 DEF BootIInv, LoaderTypes, SearchIsRight
  <1>7. video' \in Modes
    BY <1>1, <1>3, <1>6 DEF BootIInv, LoaderTypes
  <1>8. LoaderTypes'
    BY <1>2, <1>5, <1>7 DEF BootIInv, LoaderTypes, BootSteps, BeforeExit
  <1>9. Suitable' = Suitable
    BY <1>2, <1>5 DEF Suitable
  <1>10. (video = computer.default \/ \E k \in Suitable : video = Mode(k))'
    BY <1>2, <1>3, <1>5, <1>6, <1>9 DEF BootIInv, SearchIsRight
  <1>11. SearchIsRight'
    BY <1>2, <1>5, <1>9, <1>10 DEF BootIInv, SearchIsRight, NotLarger
  <1> QED BY <1>4, <1>8, <1>11 DEF BootIInv
-----------------------------------------------------------------------------
(* The memory map and the end of the firmware *)

LEMMA TablesKept ==
  ASSUME TablesProgress, UNCHANGED tables,
         step \in BeforeExit \cup {"copy map"},
         step' \in BeforeExit \cup {"copy map", "kernel pages", "returned", "lost"}
  PROVE  TablesProgress'
  <1>1. UNCHANGED <<KRNL_PD, slots>>
    BY DEF tables
  <1> QED BY <1>1 DEF TablesProgress, BeforeExit, AfterCopy

LEMMA RecordTypes ==
  ASSUME LoaderTypes
  PROVE  /\ fw.version \in Nat /\ fw.count \in Nat /\ fw.events \in Nat /\ fw.up \in BOOLEAN
         /\ fwMap.size \in Nat /\ fwMap.key \in Nat /\ fwMap.copied \in Nat
         /\ fw = [version |-> fw.version, count |-> fw.count, up |-> fw.up, events |-> fw.events]
         /\ fwMap = [size |-> fwMap.size, key |-> fwMap.key, copied |-> fwMap.copied]
  BY DEF LoaderTypes

LEMMA GetMemoryMapSizeStep ==
  ASSUME BootAssumption, BootIInv, GetMemoryMapSize
  PROVE  BootIInv'
  <1>1. /\ step = "size map" /\ step' \in {"allocate map", "returned"}
        /\ UNCHANGED <<computer, loader, memory, fw, tables>>
    BY DEF GetMemoryMapSize, Then
  <1>2. LoaderTypes /\ SLACK \in Nat
    BY DEF BootIInv, BootAssumption
  <1>3. fwMap' = [size |-> fw.count + SLACK, key |-> fwMap.key, copied |-> fwMap.copied]
    BY <1>2, RecordTypes DEF GetMemoryMapSize
  <1>4. fwMap' \in [size : Nat, key : Nat, copied : Nat] /\ fwMap'.size = fw.count + SLACK
    BY <1>2, <1>3, RecordTypes
  <1>5. LoaderTypes'
    BY <1>1, <1>2, <1>4, TypesKept DEF LoaderTypes, BootSteps, BeforeExit
  <1>6. SearchIsRight'
    BY <1>1, SearchKept DEF BootIInv
  <1>7. FirmwareIsUp' /\ MapAreaIsFree'
    BY <1>1 DEF BootIInv, FirmwareIsUp, MapAreaIsFree, BeforeExit, AfterCopy
  <1>8. KeyIsFresh'
    BY <1>1, <1>4 DEF BootIInv, KeyIsFresh, AfterCopy
  <1>9. TablesProgress'
    BY <1>1, TablesKept DEF BootIInv, BeforeExit
  <1> QED BY <1>5, <1>6, <1>7, <1>8, <1>9 DEF BootIInv

(* Two more descriptors are what the loader has room for. *)
LEMMA AllocatePoolStep ==
  ASSUME BootAssumption, BootIInv, AllocatePool
  PROVE  BootIInv'
  <1>1. /\ step = "allocate map" /\ step' \in {"get map", "returned"}
        /\ UNCHANGED <<computer, loader, fwMap, tables>>
    BY DEF AllocatePool
  <1>2. LoaderTypes /\ SLACK \in Nat /\ SLACK >= 2
    BY DEF BootIInv, BootAssumption
  <1>3. \/ UNCHANGED <<memory, fw>> /\ step' = "returned"
        \/ /\ \E pool \in PoolAreas : memory' = [memory EXCEPT ![pool] = "pool"]
           /\ \E more \in 0 .. 2 : fw' = [fw EXCEPT !.version = @ + 1, !.count = @ + more]
    BY DEF AllocatePool
  <1>4. memory' \in [Areas -> {"free", "garbage", "bootelvt", "kernel", "pool", "map"}]
    BY <1>2, <1>3 DEF LoaderTypes
  <1>5. computer.roomy = TRUE => memory'["map area"] = memory["map area"]
    BY <1>2, <1>3 DEF LoaderTypes, PoolAreas, Areas
  <1>6. /\ fw' \in [version : Nat, count : Nat, up : BOOLEAN, events : Nat]
        /\ fw'.up = fw.up /\ fw'.events = fw.events
        /\ fw'.count <= fw.count + 2
    <2>1. CASE UNCHANGED fw
      BY <1>2, <2>1, RecordTypes DEF LoaderTypes
    <2>2. ASSUME NEW more \in 0 .. 2, fw' = [fw EXCEPT !.version = @ + 1, !.count = @ + more]
          PROVE  /\ fw' \in [version : Nat, count : Nat, up : BOOLEAN, events : Nat]
                 /\ fw'.up = fw.up /\ fw'.events = fw.events
                 /\ fw'.count <= fw.count + 2
      <3>1. fw' = [version |-> fw.version + 1, count |-> fw.count + more, up |-> fw.up,
                   events |-> fw.events]
        BY <1>2, <2>2, RecordTypes
      <3> QED BY <1>2, <3>1, RecordTypes
    <2> QED BY <1>3, <2>1, <2>2
  <1>7. LoaderTypes'
    BY <1>1, <1>2, <1>4, <1>6, TypesKept DEF LoaderTypes, BootSteps, BeforeExit
  <1>8. SearchIsRight'
    BY <1>1, SearchKept DEF BootIInv
  <1>9. FirmwareIsUp' /\ MapAreaIsFree'
    BY <1>1, <1>5, <1>6 DEF BootIInv, FirmwareIsUp, MapAreaIsFree, BeforeExit, AfterCopy
  <1>10. KeyIsFresh'
    <2> SUFFICES ASSUME computer.quiet = TRUE
                 PROVE  fw'.events = 0 /\ fw'.count <= fwMap'.size
      BY <1>1 DEF KeyIsFresh, AfterCopy
    <2>1. fw.events = 0 /\ fwMap.size = fw.count + SLACK /\ fwMap' = fwMap
      BY <1>1 DEF BootIInv, KeyIsFresh
    <2>2. fw'.count \in Nat
      BY <1>6
    <2> QED BY <1>2, <1>6, <2>1, <2>2, RecordTypes
  <1>11. TablesProgress'
    BY <1>1, TablesKept DEF BootIInv, BeforeExit
  <1> QED BY <1>7, <1>8, <1>9, <1>10, <1>11 DEF BootIInv

LEMMA GetMemoryMapStep ==
  ASSUME BootIInv, GetMemoryMap
  PROVE  BootIInv'
  <1>1. /\ step = "get map" /\ step' \in {"exit", "returned"}
        /\ UNCHANGED <<computer, loader, memory, fw, tables>>
    BY DEF GetMemoryMap
  <1>2. LoaderTypes
    BY DEF BootIInv
  <1>3. fwMap' = [size |-> fw.count, key |-> fw.version, copied |-> fwMap.copied]
    BY <1>2, RecordTypes DEF GetMemoryMap
  <1>4. fwMap' \in [size : Nat, key : Nat, copied : Nat] /\ fwMap'.key = fw.version
    BY <1>2, <1>3, RecordTypes
  <1>5. LoaderTypes'
    BY <1>1, <1>2, <1>4, TypesKept DEF LoaderTypes, BootSteps, BeforeExit
  <1>6. SearchIsRight'
    BY <1>1, SearchKept DEF BootIInv
  <1>7. FirmwareIsUp' /\ MapAreaIsFree'
    BY <1>1 DEF BootIInv, FirmwareIsUp, MapAreaIsFree, BeforeExit, AfterCopy
  <1>8. KeyIsFresh'
    BY <1>1, <1>4 DEF BootIInv, KeyIsFresh, AfterCopy
  <1>9. TablesProgress'
    BY <1>1, TablesKept DEF BootIInv, BeforeExit
  <1> QED BY <1>5, <1>6, <1>7, <1>8, <1>9 DEF BootIInv

LEMMA FirmwareAllocatesStep ==
  ASSUME BootAssumption, BootIInv, FirmwareAllocates
  PROVE  BootIInv'
  <1>1. /\ step \in {"allocate map", "get map", "exit"} /\ fw.events > 0
        /\ UNCHANGED <<computer, step, loader, memory, fwMap, tables>>
    BY DEF FirmwareAllocates
  <1>2. LoaderTypes
    BY DEF BootIInv
  <1>3. PICK more \in 0 .. 2 :
          fw' = [fw EXCEPT !.version = @ + 1, !.count = @ + more, !.events = @ - 1]
    BY DEF FirmwareAllocates
  <1>4. fw' = [version |-> fw.version + 1, count |-> fw.count + more, up |-> fw.up,
               events |-> fw.events - 1]
    BY <1>2, <1>3, RecordTypes
  <1>5. fw' \in [version : Nat, count : Nat, up : BOOLEAN, events : Nat] /\ fw'.up = fw.up
    <2>1. fw.version + 1 \in Nat /\ fw.count + more \in Nat /\ fw.events - 1 \in Nat
      <3>1. fw.events > 0 /\ fw.events \in Nat /\ fw.version \in Nat /\ fw.count \in Nat
        BY <1>1, <1>2, RecordTypes, Zenon
      <3> QED BY <3>1
    <2> QED BY <1>2, <1>4, <2>1, RecordTypes
  <1>6. LoaderTypes'
    BY <1>1, <1>2, <1>5, TypesKept DEF LoaderTypes, BootSteps, BeforeExit
  <1>7. SearchIsRight'
    BY <1>1, SearchKept DEF BootIInv
  <1>8. FirmwareIsUp' /\ MapAreaIsFree'
    BY <1>1, <1>5 DEF BootIInv, FirmwareIsUp, MapAreaIsFree, BeforeExit, AfterCopy
  <1>9. computer.quiet # TRUE
    <2>1. fw.events > 0 /\ fw.events \in Nat
      BY <1>1, <1>2, RecordTypes, Zenon
    <2>2. fw.events # 0
      BY <2>1
    <2> QED BY <2>2 DEF BootIInv, KeyIsFresh
  <1>10. KeyIsFresh'
    BY <1>1, <1>9 DEF KeyIsFresh
  <1>11. TablesProgress'
    BY <1>1, TablesKept DEF BootIInv, BeforeExit
  <1> QED BY <1>6, <1>7, <1>8, <1>10, <1>11 DEF BootIInv

LEMMA ExitBootServicesStep ==
  ASSUME BootIInv, ExitBootServices
  PROVE  BootIInv'
  <1>1. /\ step = "exit" /\ step' = "copy map"
        /\ UNCHANGED <<computer, loader, memory, fwMap, tables>>
    BY DEF ExitBootServices
  <1>2. LoaderTypes
    BY DEF BootIInv
  <1>3. fw' = [version |-> fw.version, count |-> fw.count, up |-> fwMap.key # fw.version,
               events |-> fw.events]
    BY <1>2, RecordTypes DEF ExitBootServices
  <1>4. /\ fw' \in [version : Nat, count : Nat, up : BOOLEAN, events : Nat]
        /\ fw'.version = fw.version /\ fw'.events = fw.events
    BY <1>2, <1>3, RecordTypes
  <1>5. fwMap.key = fw.version => fw'.up = FALSE
    BY <1>3
  <1>6. LoaderTypes'
    BY <1>1, <1>2, <1>4, TypesKept DEF LoaderTypes, BootSteps, BeforeExit
  <1>7. SearchIsRight'
    BY <1>1, SearchKept DEF BootIInv
  <1>8. FirmwareIsUp' /\ MapAreaIsFree'
    BY <1>1 DEF BootIInv, FirmwareIsUp, MapAreaIsFree, BeforeExit, AfterCopy
  <1>9. KeyIsFresh'
    BY <1>1, <1>4, <1>5 DEF BootIInv, KeyIsFresh, AfterCopy
  <1>10. TablesProgress'
    BY <1>1, TablesKept DEF BootIInv, BeforeExit
  <1> QED BY <1>6, <1>7, <1>8, <1>9, <1>10 DEF BootIInv

LEMMA CopyMapStep ==
  ASSUME BootIInv, CopyMap
  PROVE  BootIInv'
  <1>1. /\ step = "copy map" /\ step' \in {"kernel pages", "lost"}
        /\ UNCHANGED <<computer, loader, fw, tables>>
    BY DEF CopyMap
  <1>2. LoaderTypes
    BY DEF BootIInv
  <1>3. fwMap' = [size |-> fwMap.size, key |-> fwMap.key, copied |-> fwMap.key]
    BY <1>2, RecordTypes DEF CopyMap
  <1>4. fwMap' \in [size : Nat, key : Nat, copied : Nat] /\ fwMap'.copied = fwMap.key
    BY <1>2, <1>3, RecordTypes
  <1>5. /\ memory' \in [Areas -> {"free", "garbage", "bootelvt", "kernel", "pool", "map"}]
        /\ memory["map area"] = "free" => memory'["map area"] = "map"
    BY <1>2 DEF LoaderTypes, CopyMap, Areas
  <1>6. LoaderTypes'
    BY <1>1, <1>2, <1>4, <1>5, TypesKept DEF LoaderTypes, BootSteps, AfterCopy
  <1>7. SearchIsRight'
    BY <1>1, SearchKept DEF BootIInv
  <1>8. FirmwareIsUp' /\ MapAreaIsFree'
    BY <1>1, <1>5 DEF BootIInv, FirmwareIsUp, MapAreaIsFree, BeforeExit, AfterCopy
  <1>9. KeyIsFresh'
    BY <1>1, <1>4 DEF BootIInv, KeyIsFresh, AfterCopy
  <1>10. TablesProgress'
    BY <1>1, TablesKept DEF BootIInv, BeforeExit
  <1> QED BY <1>6, <1>7, <1>8, <1>9, <1>10 DEF BootIInv
-----------------------------------------------------------------------------
(* Boot Elevate *)

LEMMA ElevateStep ==
  ASSUME BootIInv, step \in AfterCopy, step' \in AfterCopy \cup {"lost"},
         UNCHANGED <<computer, loader, memory, fw, fwMap>>
  PROVE  LoaderTypes' /\ SearchIsRight' /\ FirmwareIsUp' /\ MapAreaIsFree' /\ KeyIsFresh'
  <1>1. LoaderTypes'
    BY TypesKept DEF BootIInv, LoaderTypes, BootSteps
  <1>2. SearchIsRight'
    BY SearchKept DEF BootIInv
  <1>3. FirmwareIsUp' /\ MapAreaIsFree'
    BY DEF BootIInv, FirmwareIsUp, MapAreaIsFree, BeforeExit, AfterCopy
  <1>4. KeyIsFresh'
    BY DEF BootIInv, KeyIsFresh, BeforeExit, AfterCopy
  <1> QED BY <1>1, <1>2, <1>3, <1>4

LEMMA PopulateKernelPagesStep ==
  ASSUME BootIInv, PopulateKernelPages
  PROVE  BootIInv'
  <1>1. /\ step = "kernel pages" /\ step' = "frame buffer pages"
        /\ UNCHANGED <<computer, loader, memory, fw, fwMap, slots>>
    BY DEF PopulateKernelPages
  <1>2. /\ KRNL_PD = [e \in 0 .. ENTRIES - 1 |-> None]
        /\ slots = [s \in Slots |-> None]
    BY <1>1 DEF BootIInv, TablesProgress
  <1>3. KRNL_PD' = KernelPages
    BY <1>2 DEF PopulateKernelPages, KernelPages
  <1>4. TablesProgress'
    BY <1>1, <1>2, <1>3 DEF TablesProgress, BeforeExit, AfterCopy, KernelPages, Slots, None, Entry
  <1> QED BY <1>1, <1>4, ElevateStep DEF BootIInv, AfterCopy

LEMMA PopulateFrameBufferPagesStep ==
  ASSUME BootIInv, PopulateFrameBufferPages
  PROVE  BootIInv'
  <1>1. /\ step = "frame buffer pages" /\ step' \in {"identity pages", "lost"}
        /\ UNCHANGED <<computer, loader, memory, fw, fwMap, KRNL_PD>>
    BY DEF PopulateFrameBufferPages
  <1>2. KRNL_PD = KernelPages /\ slots = [s \in Slots |-> None]
    BY <1>1 DEF BootIInv, TablesProgress, AfterCopy
  <1>3. video' = video
    BY <1>1 DEF loader
  <1>4. step' = "identity pages" =>
          slots' = [s \in Slots |-> BufferSlot(FrameBufferPages(video.fb), s)]
    BY <1>2 DEF PopulateFrameBufferPages, BufferSlot
  <1>5. KRNL_PD' = KernelPages'
    BY <1>1, <1>2 DEF KernelPages, Entry, None
  <1>6. step' = "identity pages" =>
          (slots = [s \in Slots |-> BufferSlot(FrameBufferPages(video.fb), s)])'
    BY <1>3, <1>4 DEF Slots, BufferSlot, FrameBufferPages, Entry, None
  <1>7. TablesProgress'
    BY <1>1, <1>5, <1>6 DEF TablesProgress, BeforeExit, AfterCopy
  <1> QED BY <1>1, <1>7, ElevateStep DEF BootIInv, AfterCopy

LEMMA PopulateIDMapPagesStep ==
  ASSUME BootIInv, PopulateIDMapPages
  PROVE  BootIInv'
  <1>1. /\ step = "identity pages" /\ step' = "call kernel"
        /\ UNCHANGED <<computer, loader, memory, fw, fwMap, KRNL_PD>>
    BY DEF PopulateIDMapPages
  <1>2. KRNL_PD = KernelPages
    BY <1>1 DEF BootIInv, TablesProgress, AfterCopy
  <1>3. slots = [s \in Slots |-> BufferSlot(FrameBufferPages(video.fb), s)]
    BY <1>1 DEF BootIInv, TablesProgress
  <1>4. video' = video
    BY <1>1 DEF loader
  <1>5. \A s \in Slots : slots[s] = BufferSlot(FrameBufferPages(video.fb), s)
    BY <1>3
  <1>6. slots' = [s \in Slots |-> FinalSlot(FrameBufferPages(video.fb), s)]
    <2> DEFINE F(s) == CASE s = ENTRIES      -> Entry("table", 2)
                         [] s = 2 * ENTRIES  -> Entry("table", 3)
                         [] s >= 3 * ENTRIES -> Entry("low", s - 3 * ENTRIES)
                         [] OTHER            -> slots[s]
    <2>1. slots' = [s \in Slots |-> F(s)]
      BY DEF PopulateIDMapPages
    <2>2. \A s \in Slots : F(s) = FinalSlot(FrameBufferPages(video.fb), s)
      BY <1>5 DEF FinalSlot
    <2> HIDE DEF F
    <2> QED BY <2>1, <2>2
  <1>7. (slots = [s \in Slots |-> FinalSlot(FrameBufferPages(video.fb), s)])'
    BY <1>4, <1>6
  <1>8. KRNL_PD' = KernelPages'
    BY <1>1, <1>2 DEF KernelPages, Entry, None
  <1>9. TablesProgress'
    BY <1>1, <1>7, <1>8 DEF TablesProgress, BeforeExit, AfterCopy
  <1> QED BY <1>1, <1>9, ElevateStep DEF BootIInv, AfterCopy

LEMMA CallKernelStep ==
  ASSUME BootIInv, CallKernel
  PROVE  BootIInv'
  <1>1. /\ step = "call kernel" /\ step' \in {"kernel", "lost"}
        /\ UNCHANGED <<computer, loader, memory, fw, fwMap, tables>>
    BY DEF CallKernel
  <1>2. video' = video /\ KRNL_PD' = KRNL_PD /\ slots' = slots
    BY <1>1 DEF loader, tables
  <1>3. TablesProgress'
    BY <1>1, <1>2 DEF BootIInv, TablesProgress, BeforeExit, AfterCopy
  <1> QED BY <1>1, <1>3, ElevateStep DEF BootIInv, AfterCopy

LEMMA BootStutter ==
  ASSUME BootIInv, UNCHANGED bootVars
  PROVE  BootIInv'
  <1>1. UNCHANGED <<computer, step, loader, memory, fw, fwMap, tables>>
    BY DEF bootVars
  <1>2. LoaderTypes'
    BY <1>1, TypesKept DEF BootIInv, LoaderTypes
  <1>3. SearchIsRight'
    BY <1>1, SearchKept DEF BootIInv
  <1>4. FirmwareIsUp' /\ MapAreaIsFree' /\ KeyIsFresh'
    BY <1>1 DEF BootIInv, FirmwareIsUp, MapAreaIsFree, KeyIsFresh
  <1>5. TablesProgress'
    <2>1. video' = video /\ KRNL_PD' = KRNL_PD /\ slots' = slots /\ step' = step
      BY <1>1 DEF loader, tables
    <2> QED BY <2>1 DEF BootIInv, TablesProgress
  <1> QED BY <1>2, <1>3, <1>4, <1>5 DEF BootIInv

LEMMA BootNextIInv ==
  ASSUME BootAssumption, BootIInv, [BootNext]_bootVars
  PROVE  BootIInv'
  <1>1. CASE LoaderStep
    BY <1>1, FileStep, ReadFileStep, QueryModeStep, SetModeStep, GetMemoryMapSizeStep,
       AllocatePoolStep, GetMemoryMapStep, ExitBootServicesStep, CopyMapStep,
       PopulateKernelPagesStep, PopulateFrameBufferPagesStep, PopulateIDMapPagesStep,
       CallKernelStep DEF LoaderStep
  <1>2. CASE FirmwareAllocates
    BY <1>2, FirmwareAllocatesStep
  <1>3. CASE UNCHANGED bootVars
    BY <1>3, BootStutter
  <1> QED BY <1>1, <1>2, <1>3 DEF BootNext
-----------------------------------------------------------------------------
(* What the invariant says of the hand-over *)

LEMMA FrameBufferCovered ==
  ASSUME NEW e \in Nat, NEW fb \in Nat
  PROVE  e < FrameBufferPages(fb) <=> 2 * e < fb
  BY DEF FrameBufferPages

LEMMA EntriesDiffer ==
  /\ Entry("table", 2) # Entry("table", 3) /\ Entry("table", 2).to = "table"
  /\ None # Entry("table", 2) /\ None # Entry("table", 3) /\ None.to # "table"
  BY DEF Entry, None

LEMMA InvTablesAreExact ==
  ASSUME BootAssumption, BootIInv
  PROVE  TablesAreExact
  <1> SUFFICES ASSUME step = "kernel", FrameBufferFits
               PROVE  TablesAreExact
    BY DEF TablesAreExact
  <1> DEFINE E == 0 .. ENTRIES - 1
             n == FrameBufferPages(video.fb)
  <1>1. ENTRIES \in Nat /\ ENTRIES > 0
    BY DEF BootAssumption
  <1>2. video.fb \in Nat
    BY DEF BootIInv, LoaderTypes, Modes
  <1>3. n \in 1 .. ENTRIES
    BY DEF FrameBufferFits
  <1>4. KRNL_PD = KernelPages /\ slots = [s \in Slots |-> FinalSlot(n, s)]
    BY DEF BootIInv, TablesProgress, AfterCopy
  <1>5. \A s \in Slots : slots[s] = FinalSlot(n, s)
    BY <1>4
  <1>6. \A e \in E : KRNL_PD[e] = IF e < KERNEL_PAGES THEN Entry("kernel", e) ELSE None
    BY <1>4 DEF KernelPages
  <1>7. \A e \in E : e \in Slots /\ ENTRIES + e \in Slots /\ 2 * ENTRIES + e \in Slots
                     /\ 3 * ENTRIES + e \in Slots
    BY <1>1 DEF Slots
  <1> HIDE DEF n
  <1>8. \A e \in E : FinalSlot(n, e) = BufferSlot(n, e)
    BY <1>1 DEF FinalSlot
  <1>9. \A d \in E : FinalSlot(n, ENTRIES + d) = IF d = 0 THEN Entry("table", 2) ELSE None
    <2> SUFFICES ASSUME NEW d \in E
                 PROVE  FinalSlot(n, ENTRIES + d) = IF d = 0 THEN Entry("table", 2) ELSE None
      OBVIOUS
    <2>1. CASE d = 0
      BY <1>1, <2>1 DEF FinalSlot
    <2>2. CASE d # 0
      <3>1. ENTRIES + d # ENTRIES /\ ENTRIES + d # 2 * ENTRIES /\ ~(ENTRIES + d >= 3 * ENTRIES)
            /\ ~(ENTRIES + d < n)
        BY <1>1, <1>3, <2>2
      <3>2. FinalSlot(n, ENTRIES + d) = BufferSlot(n, ENTRIES + d)
        BY <3>1 DEF FinalSlot
      <3> QED BY <2>2, <3>1, <3>2 DEF BufferSlot
    <2> QED BY <2>1, <2>2
  <1>10. \A t \in E : FinalSlot(n, 2 * ENTRIES + t) = IF t = 0 THEN Entry("table", 3) ELSE None
    <2> SUFFICES ASSUME NEW t \in E
                 PROVE  FinalSlot(n, 2 * ENTRIES + t) = IF t = 0 THEN Entry("table", 3) ELSE None
      OBVIOUS
    <2>1. CASE t = 0
      BY <1>1, <2>1 DEF FinalSlot
    <2>2. CASE t # 0
      <3>1. /\ 2 * ENTRIES + t # ENTRIES /\ 2 * ENTRIES + t # 2 * ENTRIES
            /\ ~(2 * ENTRIES + t >= 3 * ENTRIES) /\ ~(2 * ENTRIES + t < n)
        BY <1>1, <1>3, <2>2
      <3>2. FinalSlot(n, 2 * ENTRIES + t) = BufferSlot(n, 2 * ENTRIES + t)
        BY <3>1 DEF FinalSlot
      <3> QED BY <2>2, <3>1, <3>2 DEF BufferSlot
    <2> QED BY <2>1, <2>2
  <1>11. \A e \in E : FinalSlot(n, 3 * ENTRIES + e) = Entry("low", e)
    <2> SUFFICES ASSUME NEW e \in E
                 PROVE  FinalSlot(n, 3 * ENTRIES + e) = Entry("low", e)
      OBVIOUS
    <2>1. /\ 3 * ENTRIES + e # ENTRIES /\ 3 * ENTRIES + e # 2 * ENTRIES
          /\ 3 * ENTRIES + e >= 3 * ENTRIES /\ (3 * ENTRIES + e) - 3 * ENTRIES = e
      BY <1>1
    <2> QED BY <2>1 DEF FinalSlot
  <1>12. \A e \in E : FrameBufferAt(e) = IF 2 * e < video.fb THEN Entry("frame buffer", e) ELSE None
    <2> SUFFICES ASSUME NEW e \in E
                 PROVE  FrameBufferAt(e) = IF 2 * e < video.fb THEN Entry("frame buffer", e) ELSE None
      OBVIOUS
    <2>1. e < n <=> 2 * e < video.fb
      BY <1>1, <1>2, FrameBufferCovered DEF n
    <2>2. FrameBufferAt(e) = BufferSlot(n, e)
      BY <1>5, <1>7, <1>8 DEF FrameBufferAt
    <2> QED BY <2>1, <2>2 DEF BufferSlot
  <1>13. \A d, t, e \in E : IdentityAt(d, t, e) = IF d = 0 /\ t = 0 THEN Entry("low", e) ELSE None
    <2> SUFFICES ASSUME NEW d \in E, NEW t \in E, NEW e \in E
                 PROVE  IdentityAt(d, t, e) = IF d = 0 /\ t = 0 THEN Entry("low", e) ELSE None
      OBVIOUS
    <2>1. /\ slots[ENTRIES + d] = IF d = 0 THEN Entry("table", 2) ELSE None
          /\ slots[2 * ENTRIES + t] = IF t = 0 THEN Entry("table", 3) ELSE None
          /\ slots[3 * ENTRIES + e] = Entry("low", e)
      BY <1>5, <1>7, <1>9, <1>10, <1>11
    <2> QED BY <2>1, EntriesDiffer DEF IdentityAt
  <1> QED BY <1>6, <1>12, <1>13 DEF TablesAreExact

LEMMA InvVideoModeIsBest ==
  ASSUME BootAssumption, BootIInv
  PROVE  VideoModeIsBest
  <1> DEFINE stops == {k \in Suitable : EndsSearch(Mode(k))}
             seen  == {k \in Suitable : \A s \in stops : k <= s}
  <1>1. seen = Suitable
    BY DEF BootIInv, SearchIsRight, Suitable
  <1>2. (best = 0) <=> (Suitable = {})
    BY DEF BootIInv, SearchIsRight
  <1>3. best # 0 => best \in seen /\ \A k \in seen : NotLarger(Mode(k), Mode(best))
    BY <1>1 DEF BootIInv, SearchIsRight
  <1>4. video \in {computer.default} \cup {Mode(k) : k \in seen}
    BY <1>1 DEF BootIInv, SearchIsRight
  <1>5. (best = 0) = (Suitable = {})
    BY <1>2
  <1> QED BY <1>3, <1>4, <1>5 DEF VideoModeIsBest, Suitable, NotLarger

(* Whatever fails and whatever computer it runs on, the loader (YchBoot.c, *)
(* Bootelvt.asm) enters the kernel on exact tables, in the best video mode *)
(* there was, and, if the fixed addresses are free and nobody else changes *)
(* the map, with the firmware gone and its last map; and it returns only   *)
(* to a firmware that is up.                                               *)
THEOREM HandoverSound ==
  ASSUME BootAssumption
  PROVE  BootSpec => []HandoverIsSound
  <1>1. BootInit => BootIInv
    BY BootInitIInv
  <1>2. BootIInv /\ [BootNext]_bootVars => BootIInv'
    BY BootNextIInv
  <1>3. BootIInv => HandoverIsSound
    <2> SUFFICES ASSUME BootIInv PROVE HandoverIsSound OBVIOUS
    <2>1. {computer.hypervisor, computer.roomy, computer.quiet} \subseteq BOOLEAN
      BY DEF BootIInv, LoaderTypes, BootAssumption
    <2>2. KernelGetsTheMachine
      BY <2>1 DEF BootIInv, KernelGetsTheMachine, MapAreaIsFree, KeyIsFresh, AfterCopy
    <2>3. ReturnsToTheFirmware
      BY DEF BootIInv, ReturnsToTheFirmware, FirmwareIsUp
    <2> QED BY <2>2, <2>3, InvTablesAreExact, InvVideoModeIsBest DEF HandoverIsSound
  <1> QED BY <1>1, <1>2, <1>3, PTL DEF BootSpec
=============================================================================
