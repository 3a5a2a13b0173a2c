--------------------------- MODULE ApicCalibration ---------------------------
(***************************************************************************)
(* ApicCalibrateTimer (APIC.c): every processor measures how far its local *)
(* APIC timer counts during 50 ms of the ACPI power management timer,      *)
(* which the driver of AcpiPmTimer.c reads.  That timer is a free-running  *)
(* counter of 24 or 32 bits, so that a deadline near its end would never   *)
(* be reached.                                                             *)
(*                                                                         *)
(* Time is the action Tick.  A processor that measures takes its steps at  *)
(* most GAP ticks apart: interrupts are off, and nothing but the hardware  *)
(* delays it.  Without such a bound no polling loop measures anything.     *)
(* Numbers are scaled down; Mod[24] and Mod[32] are the numbers of values  *)
(* of the two counters.                                                    *)
(***************************************************************************)
EXTENDS Integers, FiniteSets

CONSTANTS
    CPUs,
    NrTicksFor50ms,
    Mod,          \* [24 |-> values of a 24 bit counter, 32 |-> values of a DWORD]
    TOLERANCE,    \* 0x100: how far from the end of the counter a deadline stays
    RATE,         \* local APIC ticks in a tick of the power management timer
    USECONDS,     \* microseconds the measurement is divided by
    GAP,          \* most ticks between two steps of a processor that measures
    STALL,        \* most ticks in a stall of 50 microseconds
    DWORD_MAX,    \* of the local APIC counter
    REGISTRATION_MAY_FAIL,  \* the outcomes of AcpiPmTimerDriverRegister
    None

\* A processor's steps are quick against the measured time and against the
\* distance that a deadline keeps from the end of the counter, and the local
\* APIC counter, which counts down from DWORD_MAX, lasts for the measurement.
CalibrationAssumption ==
    /\ {NrTicksFor50ms, TOLERANCE, RATE, USECONDS, GAP, STALL, DWORD_MAX} \subseteq Nat \ {0}
    /\ Mod \in [{24, 32} -> Nat] /\ Mod[24] <= Mod[32]
    /\ NrTicksFor50ms + TOLERANCE + GAP + STALL < Mod[24]
    /\ GAP < NrTicksFor50ms /\ GAP <= TOLERANCE /\ RATE * NrTicksFor50ms <= DWORD_MAX
    /\ REGISTRATION_MAY_FAIL \in BOOLEAN
    /\ None \notin CPUs \cup BOOLEAN

VARIABLES
    hwWidth,      \* width of the hardware counter
    hwTicks,      \* its value
    AcpiPmTimerBitWidth,  \* 0 until the driver has set it
    registered,   \* whether the driver's Register has run, and its outcome
    spinlock,     \* holder of sl_CalibSpinlock
    calib,        \* step of each processor in ApicCalibrateTimer
    DestTickCnt,  \* a QWORD; the deadline once it is chosen
    lapic,        \* current count of the local APIC timer, stopped at 0
    gap,          \* ticks since the processor's last step
    CalibrationValue      \* None until it is set

timerVars == <<hwWidth, AcpiPmTimerBitWidth, registered>>
cpuVars == <<calib, DestTickCnt, lapic, CalibrationValue>>
apicVars == <<timerVars, hwTicks, spinlock, cpuVars, gap>>

ApicInit ==
    /\ hwWidth \in {24, 32} /\ hwTicks \in 0..Mod[hwWidth] - 1
    /\ AcpiPmTimerBitWidth = 0 /\ registered = None
    /\ spinlock = None
    /\ calib = [c \in CPUs |-> "off"]
    /\ DestTickCnt = [c \in CPUs |-> 0]
    /\ lapic = [c \in CPUs |-> 0] /\ gap = [c \in CPUs |-> 0]
    /\ CalibrationValue = [c \in CPUs |-> None]

-----------------------------------------------------------------------------
\* AcpiPmTimerDriverRegister: the driver gives up before it sets the width when
\* the table has no timer, and after it when the timer cannot be mapped; nobody
\* looks at the outcome.
AcpiPmTimerDriverRegister ==
    /\ registered = None
    /\ \E ok \in (IF REGISTRATION_MAY_FAIL THEN BOOLEAN ELSE {TRUE}) :
         /\ registered' = ok
         /\ AcpiPmTimerBitWidth' \in IF ok THEN {hwWidth} ELSE {0, hwWidth}
    /\ UNCHANGED <<hwWidth, hwTicks, spinlock, cpuVars, gap>>

\* What AcpiPmTimerGetTicks may read: without a registered driver it reads
\* port 0, which is not the timer.
GetTicks == IF registered = TRUE THEN {hwTicks} ELSE 0..Mod[24] - 1

\* KrApicInit, which the kernel calls when the drivers are registered.
KrApicInit(c) ==
    /\ calib[c] = "off" /\ registered # None
    /\ calib' = [calib EXCEPT ![c] = "lock"]
    /\ UNCHANGED <<timerVars, hwTicks, spinlock, DestTickCnt, lapic, gap, CalibrationValue>>

\* Mutant: the lock is taken whether or not it is free.
LockIgnored == TRUE
LockFree == spinlock = None

AcquireLock(c) ==
    /\ calib[c] = "lock" /\ LockFree
    /\ spinlock' = c
    /\ calib' = [calib EXCEPT ![c] = "recalc"]
    /\ gap' = [gap EXCEPT ![c] = 0]
    /\ UNCHANGED <<timerVars, hwTicks, DestTickCnt, lapic, CalibrationValue>>

\* Recalc: the deadline, and whether it is too near the end of the counter.
\* Mutant: a deadline may be anywhere the counter can reach.
AnyDeadline(dest) ==
    \/ AcpiPmTimerBitWidth = 24 /\ dest >= Mod[24]
    \/ dest > Mod[32] - 1
\* Mutant: a 24 bit counter is given the deadlines of a 32 bit one.
OnlyDword(dest) == dest > Mod[32] - TOLERANCE
TooLate(dest) ==
    \/ AcpiPmTimerBitWidth = 24 /\ dest >= Mod[24] - TOLERANCE
    \/ dest > Mod[32] - TOLERANCE

Recalc(c) ==
    /\ calib[c] = "recalc"
    /\ \E t \in GetTicks :
         LET dest == t + NrTicksFor50ms IN
         /\ DestTickCnt' = [DestTickCnt EXCEPT ![c] = dest]
         /\ calib' = [calib EXCEPT ![c] = IF TooLate(dest) THEN "stall" ELSE "start"]
    /\ gap' = [gap EXCEPT ![c] = 0]
    /\ UNCHANGED <<timerVars, hwTicks, spinlock, lapic, CalibrationValue>>

Stalled(c) ==
    /\ calib[c] = "stall"
    /\ calib' = [calib EXCEPT ![c] = "recalc"]
    /\ gap' = [gap EXCEPT ![c] = 0]
    /\ UNCHANGED <<timerVars, hwTicks, spinlock, DestTickCnt, lapic, CalibrationValue>>

StartCount(c) ==
    /\ calib[c] = "start"
    /\ lapic' = [lapic EXCEPT ![c] = DWORD_MAX]
    /\ calib' = [calib EXCEPT ![c] = "poll"]
    /\ gap' = [gap EXCEPT ![c] = 0]
    /\ UNCHANGED <<timerVars, hwTicks, spinlock, DestTickCnt, CalibrationValue>>

Before(t, dest) == t < dest

PollTicks(c) ==
    /\ calib[c] = "poll"
    /\ \E t \in GetTicks :
         calib' = [calib EXCEPT ![c] = IF Before(t, DestTickCnt[c] % Mod[32]) THEN "poll" ELSE "read"]
    /\ gap' = [gap EXCEPT ![c] = 0]
    /\ UNCHANGED <<timerVars, hwTicks, spinlock, DestTickCnt, lapic, CalibrationValue>>

\* Mutant: the difference is taken the wrong way round.
Swapped(count) == count - DWORD_MAX
Elapsed(count) == DWORD_MAX - count

\* The count is read, scaled, and the timer stopped before its interrupts are
\* let through again; then the lock is released.
ReadCount(c) ==
    /\ calib[c] = "read"
    /\ CalibrationValue' = [CalibrationValue EXCEPT ![c] = Elapsed(lapic[c]) \div USECONDS]
    /\ lapic' = [lapic EXCEPT ![c] = 0]
    /\ spinlock' = None
    /\ calib' = [calib EXCEPT ![c] = "done"]
    /\ DestTickCnt' = [DestTickCnt EXCEPT ![c] = 0]
    /\ gap' = [gap EXCEPT ![c] = 0]
    /\ UNCHANGED <<timerVars, hwTicks>>

-----------------------------------------------------------------------------
Measuring(c) == calib[c] \in {"recalc", "stall", "start", "poll", "read"}
Limit(c) == IF calib[c] = "stall" THEN STALL ELSE GAP

\* Hardware: both timers go on, and no processor is delayed beyond its limit.
Tick ==
    /\ \A c \in CPUs : Measuring(c) => gap[c] < Limit(c)
    /\ hwTicks' = (hwTicks + 1) % Mod[hwWidth]
    /\ lapic' = [c \in CPUs |-> IF lapic[c] > RATE THEN lapic[c] - RATE ELSE 0]
    /\ gap' = [c \in CPUs |-> IF Measuring(c) THEN gap[c] + 1 ELSE 0]
    /\ UNCHANGED <<timerVars, spinlock, calib, DestTickCnt, CalibrationValue>>

Step(c) == KrApicInit(c) \/ AcquireLock(c) \/ Recalc(c) \/ Stalled(c)
           \/ StartCount(c) \/ PollTicks(c) \/ ReadCount(c)

ApicNext == AcpiPmTimerDriverRegister \/ Tick \/ \E c \in CPUs : Step(c)

\* Time goes on, and a processor whose interrupts are off goes on with its code.
\* Each calibrates once, so the lock stays free for the last one that waits.
ApicFairness ==
    /\ WF_apicVars(AcpiPmTimerDriverRegister) /\ WF_apicVars(Tick)
    /\ \A c \in CPUs : WF_apicVars(Step(c))

ApicSpec == ApicInit /\ [][ApicNext]_apicVars /\ ApicFairness

-----------------------------------------------------------------------------
ApicTypeOK ==
    /\ hwTicks \in 0..Mod[hwWidth] - 1 /\ AcpiPmTimerBitWidth \in {0, 24, 32}
    /\ spinlock \in CPUs \cup {None}
    /\ \A c \in CPUs : /\ lapic[c] \in 0..DWORD_MAX /\ gap[c] \in 0..Limit(c)
                       /\ DestTickCnt[c] \in 0..Mod[32] + NrTicksFor50ms
                       /\ CalibrationValue[c] \in Nat \cup {None}

\* The value stored is the number of local APIC ticks in the measured time, up
\* to the two delays on either side of the measurement, wherever the power
\* management timer stood when it began and whatever its width: a deadline that
\* the counter would wrap around before is never chosen (APIC.c 249).  It needs a
\* driver that registered: without one the kernel calibrates all the same.
CalibrationIsAccurate ==
    \A c \in CPUs : registered = TRUE /\ CalibrationValue[c] # None =>
        /\ CalibrationValue[c] >= (RATE * (NrTicksFor50ms - GAP)) \div USECONDS
        /\ CalibrationValue[c] <= (RATE * (NrTicksFor50ms + 2 * GAP)) \div USECONDS

\* A timer that was calibrated is stopped, and only the processor that holds
\* the lock has its timer count for a measurement.
OneMeasurement ==
    \A c \in CPUs : lapic[c] > 0 => spinlock = c /\ CalibrationValue[c] = None

\* One processor measures at a time, and stores the number of local APIC ticks
\* in the measured time, up to the delays of its own steps.
CalibrationIsSound == ApicTypeOK /\ OneMeasurement /\ CalibrationIsAccurate

\* Every processor ends its calibration: retrying a deadline near the end of
\* the counter succeeds once it has wrapped, and the lock goes round.
EveryCpuIsCalibrated == \A c \in CPUs : registered = TRUE ~> CalibrationValue[c] # None
=============================================================================
