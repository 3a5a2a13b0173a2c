----------------------------- MODULE SmpBringup -----------------------------
(***************************************************************************)
(* Multiprocessor bring-up: KrInitSMP on the bootstrap CPU and              *)
(* KrApplicationProcessorStart on every application processor, from the     *)
(* INIT/SIPI broadcast to the harmless NMI test (whose rounds NMI.tla       *)
(* models).  CPUs are numbered by their local APIC ID.                      *)
(***************************************************************************)
EXTENDS Naturals, Sequences, FiniteSets

CONSTANTS
  MaxCpuID,     \* CPU IDs are 0 .. MaxCpuID (MAX_SMP_PROCESSORS - 1)
  Present,      \* the processors the MADT lists as enabled
  BspID,        \* the bootstrap processor
  MaxWaits,     \* polls before the bring-up is given up (16 in the code)
  MaxRestarts   \* bound: times a processor enters the kernel once more

SmpAssumption ==
  /\ MaxCpuID \in Nat /\ Present \subseteq 0 .. MaxCpuID /\ BspID \in Present
  /\ MaxWaits \in Nat /\ MaxRestarts \in Nat

Aps == Present \ {BspID}
IdealProcessorCount == Cardinality(Present)

VARIABLES
  bsp,          \* where the bootstrap CPU is in KrInitSMP
  ap,           \* where each application processor is
  ActiveProcessorCount,
  RFD,          \* the CPUs whose ProcInfo[].RFD is set
  pCpuIDs,      \* elements stored in the array pCpuIDs points to
  blacklist,    \* ProcessorEntryBlacklist
  bProcessorReinitDetected,
  waits,        \* NrTimesAwaitedCPUs
  i,            \* index of the loop that fills pCpuIDs
  counted,      \* history: how often each CPU has counted itself
  restarts

smp  == <<ActiveProcessorCount, RFD, pCpuIDs, blacklist, bProcessorReinitDetected>>
smpVars == <<bsp, ap, smp, waits, i, counted, restarts>>

(* ProcessMADT has run: the bootstrap CPU is active, has reported for duty *)
(* and pCpuIDs points to its ID alone.                                     *)
SmpInit ==
  /\ bsp = "start"
  /\ ap = [c \in Aps |-> "off"]
  /\ ActiveProcessorCount = 1 /\ RFD = {BspID} /\ pCpuIDs = <<BspID>>
  /\ blacklist = {} /\ bProcessorReinitDetected = FALSE
  /\ waits = 0 /\ i = 0
  /\ counted = [c \in Aps |-> 0]
  /\ restarts = 0

BspGoto(from, to) == bsp = from /\ bsp' = to
ApGoto(c, from, to) == ap[c] = from /\ ap' = [ap EXCEPT ![c] = to]
----------------------------------------------------------------------------
(* KrInitSMP *)

(* The trampoline and the stacks are in place; INIT and SIPI start all     *)
(* other processors.                                                       *)
StartAps ==
  /\ BspGoto("start", "wait")
  /\ ActiveProcessorCount' = 1
  /\ RFD' = RFD \cup {BspID}
  /\ ap' = [c \in Aps |-> "entry"]
  /\ UNCHANGED <<pCpuIDs, blacklist, bProcessorReinitDetected, waits, i, counted, restarts>>

(* Wrong variant: the number of polls is not limited. *)
AwaitForever ==
  /\ bsp = "wait"
  /\ bsp' = IF ActiveProcessorCount = IdealProcessorCount THEN "check" ELSE bsp
  /\ UNCHANGED <<ap, smp, waits, i, counted, restarts>>

(* One pass of DoCpuInitCheck; giving up is a meltdown. *)
AwaitCpus ==
  /\ bsp = "wait"
  /\ \/ /\ waits >= MaxWaits
        /\ bsp' = "meltdown" /\ UNCHANGED waits
     \/ /\ waits < MaxWaits /\ ActiveProcessorCount # IdealProcessorCount
        /\ waits' = waits + 1 /\ UNCHANGED bsp
     \/ /\ waits < MaxWaits /\ ActiveProcessorCount = IdealProcessorCount
        /\ bsp' = "check" /\ UNCHANGED waits
  /\ UNCHANGED <<ap, smp, i, counted, restarts>>

(* The re-entry check, then the new array of ActiveProcessorCount slots. *)
CheckReinit ==
  /\ BspGoto("check", IF bProcessorReinitDetected THEN "meltdown" ELSE "fill")
  /\ pCpuIDs' = IF bProcessorReinitDetected THEN pCpuIDs ELSE <<>>
  /\ UNCHANGED <<ap, ActiveProcessorCount, RFD, blacklist,
                 bProcessorReinitDetected, waits, i, counted, restarts>>

(* Wrong variant: every index is listed, reported for duty or not. *)
ListAll(c) == Append(pCpuIDs, c)

(* The element the loop stores for index c: its ID, once it has reported. *)
ListIfRFD(c) == IF c \in RFD THEN Append(pCpuIDs, c) ELSE pCpuIDs

FillIDs ==
  /\ bsp = "fill"
  /\ \/ /\ i <= MaxCpuID /\ Len(pCpuIDs) < ActiveProcessorCount
        /\ pCpuIDs' = ListIfRFD(i)
        /\ i' = i + 1
        /\ UNCHANGED bsp
     \/ /\ ~(i <= MaxCpuID /\ Len(pCpuIDs) < ActiveProcessorCount)
        /\ bsp' = "raise"
        /\ UNCHANGED <<pCpuIDs, i>>
  /\ UNCHANGED <<ap, ActiveProcessorCount, RFD, blacklist,
                 bProcessorReinitDetected, waits, counted, restarts>>

(* The harmless NMI (NMI.tla): an answer that is missing is a meltdown. *)
NmiTest ==
  /\ BspGoto("raise", "up") \/ BspGoto("raise", "meltdown")
  /\ UNCHANGED <<ap, smp, waits, i, counted, restarts>>
----------------------------------------------------------------------------
(* KrApplicationProcessorStart *)

(* Wrong variant: a second entry is not recognised. *)
ApEntryTrusting(c) ==
  /\ ApGoto(c, "entry", "setup")
  /\ blacklist' = blacklist \cup {c}
  /\ UNCHANGED <<bsp, ActiveProcessorCount, RFD, pCpuIDs,
                 bProcessorReinitDetected, waits, i, counted, restarts>>

ApEntry(c) ==
  /\ ApGoto(c, "entry", IF c \in blacklist THEN "dead" ELSE "setup")
  /\ bProcessorReinitDetected' = (bProcessorReinitDetected \/ c \in blacklist)
  /\ blacklist' = blacklist \cup {c}
  /\ UNCHANGED <<bsp, ActiveProcessorCount, RFD, pCpuIDs, waits, i, counted, restarts>>

(* GDT, interrupts and control registers, then the atomic increment. *)
ApCount(c) ==
  /\ ApGoto(c, "setup", "report")
  /\ ActiveProcessorCount' = ActiveProcessorCount + 1
  /\ counted' = [counted EXCEPT ![c] = @ + 1]
  /\ UNCHANGED <<bsp, RFD, pCpuIDs, blacklist, bProcessorReinitDetected, waits, i, restarts>>

ApReport(c) ==
  /\ ApGoto(c, "report", "apic")
  /\ RFD' = RFD \cup {c}
  /\ UNCHANGED <<bsp, ActiveProcessorCount, pCpuIDs, blacklist,
                 bProcessorReinitDetected, waits, i, counted, restarts>>

(* KrApicInit: on failure the CPU halts for good, otherwise it idles. *)
ApApicInit(c) ==
  /\ ApGoto(c, "apic", "dead") \/ ApGoto(c, "apic", "idle")
  /\ UNCHANGED <<bsp, smp, waits, i, counted, restarts>>

(* A processor that is already in the kernel starts over (a second INIT    *)
(* and SIPI, which the blacklist is there for).                            *)
ApRestart(c) ==
  /\ ap[c] \notin {"off", "entry"} /\ restarts < MaxRestarts
  /\ ap' = [ap EXCEPT ![c] = "entry"]
  /\ restarts' = restarts + 1
  /\ UNCHANGED <<bsp, smp, waits, i, counted>>
----------------------------------------------------------------------------
BspNext == StartAps \/ AwaitCpus \/ CheckReinit \/ FillIDs \/ NmiTest

ApNext(c) == ApEntry(c) \/ ApCount(c) \/ ApReport(c) \/ ApApicInit(c)

SmpNext == BspNext \/ \E c \in Aps : ApNext(c) \/ ApRestart(c)

SmpSpec == SmpInit /\ [][SmpNext]_smpVars

(* The bootstrap CPU keeps running; an application processor may be slow,  *)
(* or never come up at all.                                                *)
SmpFairness == WF_smpVars(BspNext)

SmpFairSpec == SmpSpec /\ SmpFairness
----------------------------------------------------------------------------
(* Properties *)

(* The ranges of the bring-up state. *)
SmpTypeOK ==
  /\ bsp \in {"start", "wait", "check", "fill", "raise", "up", "meltdown"}
  /\ ap \in [Aps -> {"off", "entry", "setup", "report", "apic", "idle", "dead"}]
  /\ ActiveProcessorCount \in 1 .. IdealProcessorCount
  /\ RFD \subseteq Present /\ pCpuIDs \in Seq(0 .. MaxCpuID)
  /\ blacklist \subseteq Aps /\ bProcessorReinitDetected \in BOOLEAN
  /\ waits \in 0 .. MaxWaits /\ i \in 0 .. MaxCpuID + 1
  /\ counted \in [Aps -> Nat] /\ restarts \in 0 .. MaxRestarts

(* KrInitSMP goes past the wait only when every processor of the MADT has  *)
(* come up once: no processor stands in for another by counting twice.     *)
AllUpAfterWait ==
  bsp \in {"check", "fill", "raise", "up"} => \A c \in Aps : counted[c] = 1

(* Every listed ID belongs to a CPU that reported for duty, in ascending   *)
(* order and without repetition, even while processors still report.       *)
ListedIDsReported ==
  /\ \A k \in DOMAIN pCpuIDs : pCpuIDs[k] \in RFD
  /\ \A k \in 2 .. Len(pCpuIDs) : pCpuIDs[k - 1] < pCpuIDs[k]

(* KrInitSMP and KrApplicationProcessorStart: bring-up goes past its wait  *)
(* only when every processor of the MADT has come up exactly once, and     *)
(* pCpuIDs lists, in order, only processors that reported for duty.        *)
BringupIsComplete == SmpTypeOK /\ AllUpAfterWait /\ ListedIDsReported

(* Bring-up always ends, with all processors up or with a meltdown; it     *)
(* never waits for ever for a processor that stays silent.                 *)
BringupEnds == <>(bsp \in {"up", "meltdown"})

(* KernelState.h, pCpuIDs: the array holds all valid CPU IDs; its element  *)
(* count is ActiveProcessorCount when the NMI test reads it.               *)
CpuIDsComplete == bsp = "raise" => Len(pCpuIDs) = ActiveProcessorCount

(* The same where Krnlmeltdown raises the NMI after a failed bring-up.     *)
CpuIDsCoverActive == bsp = "meltdown" => Len(pCpuIDs) >= ActiveProcessorCount
============================================================================
