-------------------------------- MODULE NMI --------------------------------
(***************************************************************************)
(* The global non-maskable interrupt (Kernel/Source/Intmgmt/NMI.c) and the  *)
(* kernel meltdown that stops every CPU with it                             *)
(* (Kernel/Source/Core/Krnlmeltdown.c).  All CPUs are up.  The bootstrap    *)
(* CPU raises the harmless test of KrInitSMP, any CPU may melt down, any    *)
(* CPU may be printing, and the hardware may raise an NMI of its own.       *)
(***************************************************************************)
EXTENDS Naturals, FiniteSets

CONSTANTS
  Cpus,      \* the active processors
  NoCpu,     \* value of a free lock
  Bsp,       \* the CPU that runs KrInitSMP
  Printers,  \* sets of CPUs: which ones use the display-wide text protocol
  MaxPolls,  \* polls for acknowledgements before giving up (512 in the code)
  MaxHwNmi,  \* numbers: bounds on the NMIs raised by the hardware
  Timely     \* subset of BOOLEAN: does every CPU answer an NMI while it is polled for?

NmiAssumption ==
  /\ IsFiniteSet(Cpus) /\ Bsp \in Cpus /\ NoCpu \notin Cpus
  /\ Printers \subseteq SUBSET Cpus
  /\ MaxPolls \in Nat /\ MaxHwNmi \subseteq Nat /\ Timely \subseteq BOOLEAN

VARIABLES
  mode,           \* the surroundings: [printers, hwNmis, timely], never changed
  Reason,         \* sg_NmiInfo.Reason
  Ack,            \* sg_NmiInfo.Ack: the set bits
  nmiLock,        \* sg_NmiSpinlock
  mdLock,         \* sg_MeltdownSpinlock
  dwtpLock,       \* sg_DwtpSpinlock of the display-wide text protocol
  bMeltdown,
  bMeltdownCatastrophic,
  pc,             \* where the main flow of each CPU is
  why,            \* the Reason argument of the CPU's call of Raise...
  loaded,         \* Ack byte loaded by the self-acknowledgement
  polls,
  NrAck,          \* *pOutNrCPUsAcknowledged
  pending,        \* an NMI is latched at the CPU
  handler,        \* where the CPU is in IntmgmtNonmaskableInterrupt
  tested,         \* the harmless test has been started
  hwNmis          \* NMIs the hardware has raised

nmiInfo == <<Reason, Ack>>
locks   == <<nmiLock, mdLock, dwtpLock>>
state   == <<bMeltdown, bMeltdownCatastrophic>>
raise   == <<why, loaded, polls, NrAck>>
cpuNmi  == <<pending, handler, tested, hwNmis>>
vars    == <<mode, nmiInfo, locks, state, pc, raise, cpuNmi>>

Reasons == {"NONE", "HARMLESS_TEST", "MELTDOWN"}

Init ==
  /\ mode \in [printers : Printers, hwNmis : MaxHwNmi, timely : Timely]
  /\ Reason = "NONE" /\ Ack = {}
  /\ nmiLock = NoCpu /\ mdLock = NoCpu /\ dwtpLock = NoCpu
  /\ bMeltdown = FALSE /\ bMeltdownCatastrophic = FALSE
  /\ pc = [c \in Cpus |-> "run"]
  /\ why = [c \in Cpus |-> "NONE"]
  /\ loaded = [c \in Cpus |-> {}]
  /\ polls = [c \in Cpus |-> 0]
  /\ NrAck = [c \in Cpus |-> 0]
  /\ pending = [c \in Cpus |-> FALSE]
  /\ handler = [c \in Cpus |-> "none"]
  /\ tested = FALSE
  /\ hwNmis = 0

(* The main flow of a CPU moves only while it is not in the NMI handler. *)
Goto(c, from, to) ==
  /\ handler[c] = "none"
  /\ pc[c] = from
  /\ pc' = [pc EXCEPT ![c] = to]

Stopped(c) == handler[c] = "stopped" \/ pc[c] = "halted"
----------------------------------------------------------------------------
(* What a CPU does before it needs a global NMI *)

PrintBegin(c) ==
  /\ c \in mode.printers
  /\ dwtpLock = NoCpu /\ dwtpLock' = c
  /\ Goto(c, "run", "printing")
  /\ UNCHANGED <<mode, nmiInfo, nmiLock, mdLock, state, raise, cpuNmi>>

PrintEnd(c) ==
  /\ Goto(c, "printing", "run")
  /\ dwtpLock' = NoCpu
  /\ UNCHANGED <<mode, nmiInfo, nmiLock, mdLock, state, raise, cpuNmi>>

(* KrInitSMP: the sanity check after all CPUs have reported for duty. *)
HarmlessTest ==
  /\ ~tested /\ tested' = TRUE
  /\ Goto(Bsp, "run", "raise")
  /\ why' = [why EXCEPT ![Bsp] = "HARMLESS_TEST"]
  /\ UNCHANGED <<mode, nmiInfo, locks, state, loaded, polls, NrAck, pending, handler, hwNmis>>

(* Something goes wrong on c: Krnlmeltdown is called. *)
MeltdownCall(c) ==
  /\ Goto(c, "run", "meltdown")
  /\ UNCHANGED <<mode, nmiInfo, locks, state, raise, cpuNmi>>

(* Wrong variant: the meltdown lock excludes nobody. *)
MeltdownLockShared(c) ==
  /\ mdLock' = c
  /\ bMeltdown' = TRUE
  /\ Goto(c, "meltdown", "raise")
  /\ why' = [why EXCEPT ![c] = "MELTDOWN"]
  /\ UNCHANGED <<mode, nmiInfo, nmiLock, dwtpLock, bMeltdownCatastrophic, loaded, polls, NrAck, cpuNmi>>

(* Krnlmeltdown up to the call of RaiseGlobalNonmaskableInterrupt; the     *)
(* lock is never released.                                                 *)
MeltdownLock(c) ==
  /\ mdLock = NoCpu /\ mdLock' = c
  /\ bMeltdown' = TRUE
  /\ Goto(c, "meltdown", IF Cardinality(Cpus) > 1 THEN "raise" ELSE "report")
  /\ why' = [why EXCEPT ![c] = "MELTDOWN"]
  /\ UNCHANGED <<mode, nmiInfo, nmiLock, dwtpLock, bMeltdownCatastrophic, loaded, polls, NrAck, cpuNmi>>
----------------------------------------------------------------------------
(* RaiseGlobalNonmaskableInterrupt with bInterruptSelf = FALSE *)

(* The lock, the reason and the load half of the non-atomic |= that        *)
(* acknowledges for the raising CPU.                                       *)
RaiseLock(c) ==
  /\ nmiLock = NoCpu /\ nmiLock' = c
  /\ Goto(c, "raise", "selfAck")
  /\ Reason' = why[c]
  /\ loaded' = [loaded EXCEPT ![c] = Ack]
  /\ UNCHANGED <<mode, Ack, mdLock, dwtpLock, state, why, polls, NrAck, cpuNmi>>

(* Wrong variant: the raising CPU does not acknowledge for itself. *)
IssueIpiNoSelfAck(c) ==
  /\ Goto(c, "selfAck", "poll")
  /\ Ack' = loaded[c]
  /\ loaded' = [loaded EXCEPT ![c] = {}]
  /\ pending' = [d \in Cpus |-> pending[d] \/ d # c]
  /\ UNCHANGED <<mode, Reason, locks, state, why, polls, NrAck, handler, tested, hwNmis>>

(* The store half, then the NMI to all CPUs but this one. *)
IssueIpi(c) ==
  /\ Goto(c, "selfAck", "poll")
  /\ Ack' = loaded[c] \cup {c}
  /\ loaded' = [loaded EXCEPT ![c] = {}]
  /\ pending' = [d \in Cpus |-> pending[d] \/ d # c]
  /\ UNCHANGED <<mode, Reason, locks, state, why, polls, NrAck, handler, tested, hwNmis>>

ExpectAck == Cpus

(* Wrong variant: one poll too many. *)
PollOnceMore(c) ==
  /\ pc[c] = "poll" /\ handler[c] = "none"
  /\ polls[c] <= MaxPolls
  /\ polls' = [polls EXCEPT ![c] = @ + 1]
  /\ UNCHANGED <<mode, nmiInfo, locks, state, pc, why, loaded, NrAck, cpuNmi>>

Poll(c) ==
  /\ pc[c] = "poll" /\ handler[c] = "none"
  /\ polls[c] < MaxPolls
  /\ polls' = [polls EXCEPT ![c] = @ + 1]
  /\ UNCHANGED <<mode, nmiInfo, locks, state, pc, why, loaded, NrAck, cpuNmi>>

(* Every other CPU has had the time to answer: none is on its way through  *)
(* the handler, and an NMI is latched only where the handler never returns. *)
Answered(c) ==
  \A d \in Cpus \ {c} : handler[d] = "stopped" \/ (~pending[d] /\ handler[d] = "none")

(* The loop is left when Ack equals ExpectAck, or after MaxPolls polls.    *)
(* KrtlBufferEqual also compares the byte after the buffers, so equality   *)
(* may go unnoticed: Poll stays possible.  Then the answers are counted;   *)
(* those that were lost are missing although every CPU has answered.       *)
PollEnd(c) ==
  /\ Goto(c, "poll", "clear")
  /\ \/ Ack = ExpectAck
     \/ polls[c] = MaxPolls /\ (mode.timely => Answered(c))
  /\ NrAck' = [NrAck EXCEPT ![c] = Cardinality(Ack) - 1]
  /\ polls' = [polls EXCEPT ![c] = 0]
  /\ UNCHANGED <<mode, nmiInfo, locks, state, why, loaded, cpuNmi>>

(* Wrong variants: the acknowledgements are kept, or the lock is. *)
RaiseReturnKeepAck(c) ==
  /\ Goto(c, "clear", IF why[c] = "MELTDOWN" THEN "report" ELSE "run")
  /\ Reason' = "NONE" /\ nmiLock' = NoCpu
  /\ bMeltdownCatastrophic' = (why[c] = "MELTDOWN" /\ NrAck[c] # Cardinality(Cpus) - 1)
  /\ why' = [why EXCEPT ![c] = "NONE"]
  /\ NrAck' = [NrAck EXCEPT ![c] = 0]
  /\ UNCHANGED <<mode, Ack, mdLock, dwtpLock, bMeltdown, loaded, polls, cpuNmi>>

RaiseReturnKeepLock(c) ==
  /\ Goto(c, "clear", IF why[c] = "MELTDOWN" THEN "report" ELSE "run")
  /\ Reason' = "NONE" /\ Ack' = {}
  /\ why' = [why EXCEPT ![c] = "NONE"]
  /\ NrAck' = [NrAck EXCEPT ![c] = 0]
  /\ UNCHANGED <<mode, locks, state, loaded, polls, cpuNmi>>

(* sg_NmiInfo is zeroed, the lock released, and the caller looks at the    *)
(* count: KrInitSMP melts down when an answer is missing, Krnlmeltdown     *)
(* records whether all complied.                                           *)
RaiseReturn(c) ==
  /\ Goto(c, "clear",
          IF why[c] = "MELTDOWN" THEN "report"
          ELSE IF NrAck[c] = Cardinality(Cpus) - 1 THEN "run" ELSE "meltdown")
  /\ Reason' = "NONE" /\ Ack' = {}
  /\ nmiLock' = NoCpu
  /\ bMeltdownCatastrophic' = IF why[c] = "MELTDOWN"
                              THEN NrAck[c] # Cardinality(Cpus) - 1
                              ELSE bMeltdownCatastrophic
  /\ why' = [why EXCEPT ![c] = "NONE"]
  /\ NrAck' = [NrAck EXCEPT ![c] = 0]
  /\ UNCHANGED <<mode, mdLock, dwtpLock, bMeltdown, loaded, polls, cpuNmi>>

(* The rest of Krnlmeltdown: the message, which needs the lock of the      *)
(* display-wide text protocol, then the indefinite halt.                   *)
Report(c) ==
  /\ Goto(c, "report", "halted")
  /\ dwtpLock = NoCpu
  /\ UNCHANGED <<mode, nmiInfo, locks, state, raise, cpuNmi>>
----------------------------------------------------------------------------
(* IntmgmtNonmaskableInterrupt *)

(* An NMI is taken at any instruction; the reason is read once.  A CPU     *)
(* that is in the handler takes no further NMI until it returns.           *)
HandlerEnter(c) ==
  /\ pending[c] /\ handler[c] = "none"
  /\ pending' = [pending EXCEPT ![c] = FALSE]
  /\ handler' = [handler EXCEPT ![c] = CASE Reason = "NONE"          -> "none"
                                         [] Reason = "HARMLESS_TEST" -> "ack"
                                         [] Reason = "MELTDOWN"      -> "ackStop"]
  /\ UNCHANGED <<mode, nmiInfo, locks, state, pc, raise, tested, hwNmis>>

(* Wrong variant: only a meltdown is acknowledged. *)
HandlerAckMeltdownOnly(c) ==
  /\ handler[c] \in {"ack", "ackStop"}
  /\ Ack' = IF handler[c] = "ackStop" THEN Ack \cup {c} ELSE Ack
  /\ handler' = [handler EXCEPT ![c] = IF @ = "ackStop" THEN "stopped" ELSE "none"]
  /\ UNCHANGED <<mode, Reason, locks, state, pc, raise, pending, tested, hwNmis>>

(* ThisCpuAcknowledgeNMI is atomic; after a meltdown the CPU halts in the  *)
(* handler for good.                                                       *)
HandlerAck(c) ==
  /\ handler[c] \in {"ack", "ackStop"}
  /\ Ack' = Ack \cup {c}
  /\ handler' = [handler EXCEPT ![c] = IF @ = "ackStop" THEN "stopped" ELSE "none"]
  /\ UNCHANGED <<mode, Reason, locks, state, pc, raise, pending, tested, hwNmis>>

HardwareNmi(c) ==
  /\ hwNmis < mode.hwNmis
  /\ hwNmis' = hwNmis + 1
  /\ pending' = [pending EXCEPT ![c] = TRUE]
  /\ UNCHANGED <<mode, nmiInfo, locks, state, pc, raise, handler, tested>>
----------------------------------------------------------------------------
(* What a CPU does once it is inside one of the functions. *)
Running(c) ==
  \/ PrintEnd(c) \/ MeltdownLock(c) \/ RaiseLock(c) \/ IssueIpi(c)
  \/ Poll(c) \/ PollEnd(c) \/ RaiseReturn(c) \/ Report(c)
  \/ HandlerEnter(c) \/ HandlerAck(c)

Next ==
  \/ HarmlessTest
  \/ \E c \in Cpus : \/ PrintBegin(c) \/ MeltdownCall(c)
                     \/ HardwareNmi(c) \/ Running(c)

Spec == Init /\ [][Next]_vars

(* Nothing preempts a CPU inside these functions for ever. *)
Fairness == \A c \in Cpus : WF_vars(Running(c))

FairSpec == Spec /\ Fairness
----------------------------------------------------------------------------
(* Properties *)

(* The ranges of the NMI and meltdown state. *)
TypeOK ==
  /\ Reason \in Reasons /\ Ack \subseteq Cpus
  /\ nmiLock \in Cpus \cup {NoCpu} /\ mdLock \in Cpus \cup {NoCpu}
  /\ dwtpLock \in Cpus \cup {NoCpu}
  /\ bMeltdown \in BOOLEAN /\ bMeltdownCatastrophic \in BOOLEAN
  /\ pc \in [Cpus -> {"run", "printing", "meltdown", "raise", "selfAck",
                      "poll", "clear", "report", "halted"}]
  /\ why \in [Cpus -> Reasons] /\ loaded \in [Cpus -> SUBSET Cpus]
  /\ polls \in [Cpus -> 0 .. MaxPolls] /\ NrAck \in [Cpus -> Nat]
  /\ pending \in [Cpus -> BOOLEAN]
  /\ handler \in [Cpus -> {"none", "ack", "ackStop", "stopped"}]
  /\ tested \in BOOLEAN /\ hwNmis \in 0 .. mode.hwNmis

(* KernelState.h, bMeltdownCatastrophic: when a meltdown has been reported *)
(* as not catastrophic, every other CPU has really stopped.  A hardware    *)
(* NMI, or an answer that comes after its round, breaks this.              *)
CatastrophicIsTruthful ==
  hwNmis = 0 /\ mode.timely =>
  \A c \in Cpus : pc[c] \in {"report", "halted"} /\ ~bMeltdownCatastrophic =>
     \A d \in Cpus \ {c} : Stopped(d)

(* With answers in time a meltdown is called catastrophic only after the   *)
(* hardware has raised an NMI: a CPU that takes it between the load and    *)
(* the store of the raising CPU's acknowledgement stops, its own is        *)
(* overwritten (NMI.c:74), and the count is short.  Even then every other  *)
(* CPU has stopped.                                                        *)
CatastrophicOnlyByLostAck ==
  mode.timely /\ bMeltdownCatastrophic =>
    /\ hwNmis > 0
    /\ \A c \in Cpus : pc[c] \in {"report", "halted"} =>
         \A d \in Cpus \ {c} : Stopped(d)

(* The sanity check of KrInitSMP counts every other CPU, also one that is  *)
(* spinning with interrupts disabled on its own way into a meltdown, when  *)
(* all answer in time; a hardware NMI that is answered as if it were of    *)
(* the round loses no answer here, as its CPU goes on to the next NMI.     *)
TestCountsEveryCpu ==
  mode.timely =>
  \A c \in Cpus : pc[c] = "clear" /\ why[c] = "HARMLESS_TEST" =>
     NrAck[c] = Cardinality(Cpus) - 1

(* "ALWAYS clear NMI info after it's done": a round starts with no         *)
(* acknowledgement of an earlier round, when all answer in time and the    *)
(* hardware has raised no NMI.                                             *)
NoStaleAck == hwNmis = 0 /\ mode.timely /\ Reason = "NONE" => Ack = {}

(* Only one CPU ever owns the meltdown; the others stop in the handler and *)
(* never reach the report, so the message is written once.                 *)
OneMeltdown ==
  Cardinality({c \in Cpus : pc[c] \in {"report", "halted"}}) <= 1

(* Krnlmeltdown: when CPUs melt down at once one of them owns the          *)
(* meltdown; bMeltdownCatastrophic, which it reports, is clear only when   *)
(* every other CPU has stopped, and set only when an answer was late or    *)
(* was lost to a hardware NMI.                                             *)
MeltdownIsTruthful ==
  TypeOK /\ OneMeltdown /\ CatastrophicIsTruthful /\ CatastrophicOnlyByLostAck

(* RaiseGlobalNonmaskableInterrupt: the acknowledgements of a round are    *)
(* counted in that round alone, and the test of KrInitSMP counts every     *)
(* CPU.                                                                    *)
AnswersAreCounted == NoStaleAck /\ TestCountsEveryCpu

(* A meltdown stops the whole machine: every CPU ends in a halt, wherever  *)
(* the NMI and the spinlocks found it.  It needs answers in time, no CPU   *)
(* that prints and no hardware NMI.                                        *)
MeltdownStopsEveryCpu ==
  mode.timely /\ mode.hwNmis = 0 /\ mode.printers = {} /\ bMeltdown ~> \A c \in Cpus : Stopped(c)

(* Krnlmeltdown.h: the function notifies the user about the error and      *)
(* hangs the system; the report is eventually written.                     *)
MeltdownIsReported == bMeltdown ~> \E c \in Cpus : pc[c] = "halted"
============================================================================
