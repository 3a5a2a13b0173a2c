------------------------------- MODULE Devdriv -------------------------------
(***************************************************************************)
(* Drivers, the device tree and their pairing, as the boot processor runs  *)
(* them: InitBuiltinDrivers (Driver.c) registers the built-in drivers,     *)
(* InitDeviceTree (Device.c) builds the tree and PcieEnumerate (PCIe.c)    *)
(* hangs every function it finds below the PCIe root, then                 *)
(* GlobalDevdrivPairAttempt (Pair.c) offers every device to the drivers.   *)
(*                                                                         *)
(* The hardware is read lazily: what a configuration space read returns is *)
(* chosen when it is read, and each function is read once.  Device names   *)
(* and identifiers are abstracted to the class a driver matches on.  A     *)
(* device is the position <<bus, device, function>> it was found at.       *)
(***************************************************************************)
EXTENDS Integers, Sequences, FiniteSets, SequencesExt

CONSTANTS
    Builtin,      \* the drivers that are registered, in their order
    Platform,     \* those whose Register adds a device of its own to the root
    Accepts,      \* [driver |-> classes its match methods accept]; {} without probe
    Fallible,     \* drivers whose DevProbe or DevInit may refuse a device
    Classes,      \* classes of PCI functions
    PCIE_MAX_BUS, \* last bus number, the largest one that fits in a byte
    ECAM_BUSES,   \* number of buses that ProcessMCFG has mapped
    PCIE_MAX_DEV, PCIE_MAX_FUN,  \* first invalid device and function numbers
    MaxFunctions, \* bound: number of functions present
    NULL, ROOT, PCIE_ROOT

Drivers == Range(Builtin)
Positions == (0..PCIE_MAX_BUS) \X (0..PCIE_MAX_DEV - 1) \X (0..PCIE_MAX_FUN - 1)
Nodes == {ROOT, PCIE_ROOT} \cup Platform \cup Positions

ASSUME DevdrivAssumption ==
    /\ Builtin \in Seq(Drivers) /\ Platform \subseteq Drivers
    /\ Accepts \in [Drivers -> SUBSET Classes]
    /\ Fallible \subseteq Drivers
    /\ {PCIE_MAX_BUS, PCIE_MAX_DEV, PCIE_MAX_FUN} \subseteq Nat \ {0} /\ MaxFunctions \in Nat
    /\ ECAM_BUSES \in Nat
    /\ ROOT # PCIE_ROOT /\ NULL \notin Nodes \cup Drivers
    /\ {ROOT, PCIE_ROOT} \cap (Drivers \cup Positions) = {} /\ Drivers \cap Positions = {}

VARIABLES
    phase,         \* what KrKernelStart is doing
    toRegister,    \* built-in drivers not yet registered
    table,         \* DriverInfo.pTable up to NrLoaded; NULL before it is acquired
    rootOnBus,     \* g_RootDevice.OnBus # BUS_IVLD
    kids,          \* p1stKid and the pNxtSib chain that starts there
    class,         \* class of each PCI node
    driver,        \* pDriver of every node
    g_DeviceCount,
    cursor,        \* PcieEnumerate's Bus, Dev and Fun
    stack,         \* frames of LocalDevdrivPairAttempt, innermost first
    NrPaired,      \* what the outermost call returned
    probes         \* history: how often a driver was offered a node (up to 2)

treeVars == <<phase, toRegister, table, rootOnBus, kids, class, driver,
              g_DeviceCount, cursor, stack, NrPaired, probes>>

TreeInit ==
    /\ phase = "register" /\ toRegister = Builtin /\ table = NULL
    /\ rootOnBus = FALSE /\ g_DeviceCount = 0
    /\ kids = [n \in Nodes |-> <<>>]
    /\ class = [n \in Nodes |-> NULL]
    /\ driver = [n \in Nodes |-> NULL]
    /\ cursor = <<0, 0, 0>>
    /\ stack = <<>> /\ NrPaired = 0
    /\ probes = [q \in Nodes \X Drivers |-> 0]

-----------------------------------------------------------------------------
(***************************************************************************)
(* The tree.                                                               *)
(***************************************************************************)
AddChildDevice(ks, parent, child) == [ks EXCEPT ![parent] = Append(@, child)]

FirstKid(n) == IF kids[n] = <<>> THEN NULL ELSE kids[n][1]

Kids(n) == Range(kids[n])
\* pNxtSib: the next node in the chain of n, if n is still in its parent's.
Parent(n) == IF n \in Positions THEN PCIE_ROOT ELSE ROOT
NextSib(n) ==
    LET chain == kids[Parent(n)]
        next == {i \in 2..Len(chain) : chain[i - 1] = n}
    IN IF next = {} THEN NULL ELSE chain[CHOOSE i \in next : TRUE]

\* The nodes reachable from the root: the tree is two levels deep.
Tree == {ROOT} \cup Kids(ROOT) \cup UNION {Kids(k) : k \in Kids(ROOT)}

-----------------------------------------------------------------------------
(***************************************************************************)
(* RegisterDriver.  The table is acquired by the first call that gets it   *)
(* from the heap.  A driver whose Register fails leaves the table again,   *)
(* but a platform driver's device stays where Register put it.             *)
(***************************************************************************)
\* The driver table is used by index up to NrLoaded, which is 0 without a table.
LoadedDrivers == IF table = NULL THEN <<>> ELSE table

Loaded(t, d, ok) == IF ok THEN Append(t, d) ELSE t

RegisterDriver ==
    /\ phase = "register" /\ toRegister # <<>>
    /\ LET d == Head(toRegister) IN
       /\ toRegister' = Tail(toRegister)
       /\ \E acquired \in (IF table = NULL THEN BOOLEAN ELSE {TRUE}),
             ok \in (IF d \in Platform THEN BOOLEAN ELSE {TRUE}) :
            IF acquired
            THEN /\ table' = Loaded(LoadedDrivers, d, ok)
                 /\ kids' = IF d \in Platform THEN AddChildDevice(kids, ROOT, d) ELSE kids
                 /\ driver' = IF d \in Platform THEN [driver EXCEPT ![d] = d] ELSE driver
            ELSE UNCHANGED <<table, kids, driver>>
    /\ UNCHANGED <<phase, rootOnBus, class, g_DeviceCount, cursor, stack, NrPaired, probes>>

-----------------------------------------------------------------------------
\* InitDeviceTreeRoot zeroes the root node, the kids it has so far included.
\* Mutant: the kids the drivers added are kept.
KeepKids(ks) == ks
ZeroRoot(ks) == [ks EXCEPT ![ROOT] = <<>>]

InitDeviceTree ==
    /\ phase = "register" /\ toRegister = <<>>
    /\ ~rootOnBus
    /\ rootOnBus' = TRUE
    /\ kids' = AddChildDevice(ZeroRoot(kids), ROOT, PCIE_ROOT)
    /\ g_DeviceCount' = 2
    /\ phase' = "enumerate"
    /\ UNCHANGED <<toRegister, table, class, driver, cursor, stack, NrPaired, probes>>

(***************************************************************************)
(* PcieEnumerate.  Bus is a WORD although bus numbers are bytes, so that   *)
(* the loop can count past the last bus; here it has one bit more.         *)
(***************************************************************************)
\* Mutant: the bus counter has the width of a bus number.
IncByte(b) == (b + 1) % (PCIE_MAX_BUS + 1)
IncBus(b) == (b + 1) % (2 * (PCIE_MAX_BUS + 1))

NextDevice(b, v) == IF v + 1 < PCIE_MAX_DEV THEN <<b, v + 1, 0>> ELSE <<IncBus(b), 0, 0>>

\* After function 0 the others are probed if bit 7 of its header type is set.
NextFunction(b, v, f, multi) ==
    IF (f > 0 \/ multi) /\ f + 1 < PCIE_MAX_FUN THEN <<b, v, f + 1>> ELSE NextDevice(b, v)

NrFound == Len(kids[PCIE_ROOT])

\* DevTreeInitPCIeDeviceFound: without a node from the heap the device is skipped.
\* Mutant: a device the heap has no node for is counted all the same.
CountAnyway(got) == g_DeviceCount + 1
Counted(got) == IF got THEN g_DeviceCount + 1 ELSE g_DeviceCount

DevTreeInitPCIeDeviceFound(pos, c) ==
    \E got \in BOOLEAN :
        /\ kids' = IF got THEN AddChildDevice(kids, PCIE_ROOT, pos) ELSE kids
        /\ class' = IF got THEN [class EXCEPT ![pos] = c] ELSE class
        /\ g_DeviceCount' = Counted(got)

PcieProbe ==
    /\ phase = "enumerate" /\ cursor[1] <= PCIE_MAX_BUS
    /\ LET b == cursor[1]  v == cursor[2]  f == cursor[3] IN
       \/ /\ cursor' = IF f = 0 THEN NextDevice(b, v) ELSE NextFunction(b, v, f, TRUE)
          /\ UNCHANGED <<kids, class, g_DeviceCount>>
       \/ /\ NrFound < MaxFunctions
          /\ \E multi \in BOOLEAN, c \in Classes :
               /\ cursor' = NextFunction(b, v, f, multi)
               /\ DevTreeInitPCIeDeviceFound(cursor, c)
    /\ UNCHANGED <<phase, toRegister, table, rootOnBus, driver, stack, NrPaired, probes>>

\* The loop goes over every bus.  Behind the last one that is mapped it reads what
\* another device has there, or nothing is mapped there: the page fault is outside
\* every region and melts the kernel down.
PcieFault ==
    /\ phase = "enumerate" /\ cursor[1] \in ECAM_BUSES..PCIE_MAX_BUS
    /\ phase' = "meltdown"
    /\ UNCHANGED <<toRegister, table, rootOnBus, kids, class, driver,
                   g_DeviceCount, cursor, stack, NrPaired, probes>>

\* GlobalDevdrivPairAttempt starts at the root.
Frame(n) == [node |-> n, base |-> NULL, kid |-> NULL, at |-> "root", paired |-> 0]

GlobalDevdrivPairAttempt ==
    /\ phase = "enumerate" /\ cursor[1] > PCIE_MAX_BUS
    /\ phase' = "pair"
    /\ stack' = <<Frame(ROOT)>>
    /\ UNCHANGED <<toRegister, table, rootOnBus, kids, class, driver,
                   g_DeviceCount, cursor, NrPaired, probes>>

-----------------------------------------------------------------------------
(***************************************************************************)
(* TryPairDeviceWithAnyDriver offers a device without a driver to every    *)
(* compatible driver, in the order of the table, until one takes it.       *)
(***************************************************************************)
IsDriverCompatibleWithDevice(d, n) == class[n] # NULL /\ class[n] \in Accepts[d]

Candidates(n) ==
    {i \in DOMAIN LoadedDrivers : driver[n] = NULL
                                  /\ IsDriverCompatibleWithDevice(LoadedDrivers[i], n)}

SetDriver(n, taken) ==
    IF taken = 0 THEN driver ELSE [driver EXCEPT ![n] = LoadedDrivers[taken]]

\* taken is the index of the driver that takes the device, 0 if none does.
TryPair(n, taken) ==
    LET offered == {i \in Candidates(n) : taken = 0 \/ i <= taken}
        offers == {LoadedDrivers[i] : i \in offered}
    IN /\ \A i \in offered \ {taken} : LoadedDrivers[i] \in Fallible
       /\ driver' = SetDriver(n, taken)
       /\ probes' = [q \in DOMAIN probes |->
                       IF q[1] = n /\ q[2] \in offers /\ probes[q] < 2
                       THEN probes[q] + 1 ELSE probes[q]]

One(taken) == IF taken = 0 THEN 0 ELSE 1

Top == stack[1]
Deeper == phase = "pair" /\ stack # <<>>
PairUnchanged == UNCHANGED <<toRegister, table, rootOnBus, kids, class, g_DeviceCount, cursor>>

\* The node of the frame, then its kids from the first one.
VisitNode ==
    /\ Deeper /\ Top.at = "root"
    /\ \E taken \in Candidates(Top.node) \cup {0} :
         /\ TryPair(Top.node, taken)
         /\ stack' = [stack EXCEPT ![1] = [@ EXCEPT !.at = "kids", !.base = FirstKid(Top.node),
                          !.kid = FirstKid(Top.node), !.paired = Top.paired + One(taken)]]
    /\ UNCHANGED <<phase, NrPaired>> /\ PairUnchanged

\* Mutant: the siblings of a kid are not visited.
NoSiblings(st, sib) == st
\* A recursive call for the next sibling goes through all the siblings after it.
CallFor(st, sib) == IF sib = NULL THEN st ELSE <<Frame(sib)>> \o st

\* A kid of the frame: its siblings by a recursive call, then its first kid.
VisitKid ==
    /\ Deeper /\ Top.at = "kids" /\ Top.kid # NULL
    /\ \E taken \in Candidates(Top.kid) \cup {0} :
         /\ TryPair(Top.kid, taken)
         /\ stack' = CallFor([stack EXCEPT ![1] = [@ EXCEPT !.kid = FirstKid(Top.kid),
                                 !.paired = Top.paired + One(taken)]], NextSib(Top.kid))
    /\ UNCHANGED <<phase, NrPaired>> /\ PairUnchanged

\* goto KidLoop: the chain that starts at the next kid of the node.
NextKidBase ==
    /\ Deeper /\ Top.at = "kids" /\ Top.kid = NULL /\ Top.base # NULL
    /\ stack' = [stack EXCEPT ![1] = [@ EXCEPT !.kid = NextSib(Top.base),
                                               !.base = NextSib(Top.base)]]
    /\ UNCHANGED <<phase, driver, NrPaired, probes>> /\ PairUnchanged

\* The loop goes on with the next sibling of the node.
NextNode ==
    /\ Deeper /\ Top.at = "kids" /\ Top.kid = NULL /\ Top.base = NULL
    /\ NextSib(Top.node) # NULL
    /\ stack' = [stack EXCEPT ![1] = [@ EXCEPT !.at = "root", !.node = NextSib(Top.node)]]
    /\ UNCHANGED <<phase, driver, NrPaired, probes>> /\ PairUnchanged

\* Mutant: what a recursive call paired is not added to the caller's count.
DropCount(n) == 0
AddCount(n) == n

Return ==
    /\ Deeper /\ Top.at = "kids" /\ Top.kid = NULL /\ Top.base = NULL
    /\ NextSib(Top.node) = NULL
    /\ IF Len(stack) = 1
       THEN /\ NrPaired' = Top.paired /\ stack' = <<>> /\ phase' = "done"
       ELSE /\ stack' = [Tail(stack) EXCEPT
                            ![1] = [@ EXCEPT !.paired = stack[2].paired + AddCount(Top.paired)]]
            /\ UNCHANGED <<NrPaired, phase>>
    /\ UNCHANGED <<driver, probes>> /\ PairUnchanged

TreeNext ==
    \/ RegisterDriver \/ InitDeviceTree \/ PcieProbe \/ PcieFault
    \/ GlobalDevdrivPairAttempt \/ VisitNode \/ VisitKid \/ NextKidBase
    \/ NextNode \/ Return

TreeSpec == TreeInit /\ [][TreeNext]_treeVars /\ WF_treeVars(TreeNext)

-----------------------------------------------------------------------------
TreeTypeOK ==
    /\ phase \in {"register", "enumerate", "pair", "done", "meltdown"}
    /\ Range(LoadedDrivers) \subseteq Drivers
    /\ \A n \in Nodes : kids[n] \in Seq(Nodes)
    /\ class \in [Nodes -> Classes \cup {NULL}]
    /\ driver \in [Nodes -> Drivers \cup {NULL}]
    /\ g_DeviceCount \in 0..MaxFunctions + 2 /\ NrPaired \in Nat
    /\ \A i \in DOMAIN stack : {stack[i].node, stack[i].base, stack[i].kid} \subseteq Nodes \cup {NULL}

\* The number of devices the kernel reports is the number of nodes a walk from
\* the root meets, devices the heap had no memory for left out of both
\* (g_DeviceCount in Device.c against AddChildDevice).
CountMatchesTree == phase = "done" => g_DeviceCount = Cardinality(Tree)

\* The number of pairings LocalDevdrivPairAttempt returns through its recursion
\* is the number of devices of the tree that have a driver: none is counted
\* twice or forgotten, and a device whose DevInit failed has none.
PairCountIsExact ==
    phase = "done" => NrPaired = Cardinality({n \in Tree : driver[n] # NULL})

\* A device left without a driver was refused by every compatible driver that
\* is loaded: the walk of Pair.c skips no node.
EveryDeviceIsOffered ==
    phase = "done" =>
        \A n \in Tree : driver[n] = NULL =>
            \A d \in Range(LoadedDrivers) : IsDriverCompatibleWithDevice(d, n) => probes[n, d] > 0

\* No driver probes or initialises the same device twice, although the loops
\* of LocalDevdrivPairAttempt reach siblings by two ways.
OfferedOnce == \A q \in DOMAIN probes : probes[q] < 2

\* The tree and the numbers of devices and pairs agree whatever failed, and at
\* the end every device was offered to every driver once (Device.c, Pair.c).
TreeIsSound ==
    /\ TreeTypeOK /\ CountMatchesTree /\ PairCountIsExact
    /\ EveryDeviceIsOffered /\ OfferedOnce

\* Enumeration and pairing come to an end: the bus counter passes the last bus
\* and the walk of the tree runs out of nodes, unless a bus is read that is not
\* mapped.
BringUpEnds == <>(phase \in {"done", "meltdown"})
=============================================================================
