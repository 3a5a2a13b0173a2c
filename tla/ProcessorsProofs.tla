-------------------------- MODULE ProcessorsProofs --------------------------
(***************************************************************************)
(* Proofs about the processors.  Their bring-up: for any set of processors *)
(* and local APIC IDs, any number of polls and any number of restarts.     *)
(* The calibration of the local APIC timers: for any number of processors, *)
(* any measured time, any rate of the two timers, any delay of the steps   *)
(* and from every value of the power management timer.  Global NMIs and    *)
(* meltdowns: for any number of processors, of polls and of hardware NMIs. *)
(***************************************************************************)
EXTENDS NMI, SmpBringup, ApicCalibration, FiniteSetTheorems, TLAPS
-----------------------------------------------------------------------------
(* The bring-up: the inductive invariant *)

(* The processors that have counted themselves. *)
Up == {c \in Aps : counted[c] = 1}

(* The blacklist is what keeps a processor from counting itself again: one *)
(* that is about to has not done so and is on the list already.            *)
CountedOnce ==
  \A c \in Aps : /\ counted[c] \in {0, 1}
                 /\ c \notin blacklist => counted[c] = 0
                 /\ ap[c] = "setup" => counted[c] = 0 /\ c \in blacklist

CountIsExact ==
  /\ ActiveProcessorCount = Cardinality(Up) + 1
  /\ bsp = "start" => \A c \in Aps : counted[c] = 0 /\ ap[c] = "off"

(* The loop that fills pCpuIDs has listed only indices it has passed. *)
FilledSoFar ==
  /\ bsp \in {"start", "wait", "check"} => i = 0
  /\ bsp = "fill" => \A k \in DOMAIN pCpuIDs : pCpuIDs[k] < i

SmpIInv ==
  /\ SmpTypeOK /\ CountedOnce /\ CountIsExact /\ AllUpAfterWait
  /\ ListedIDsReported /\ FilledSoFar
-----------------------------------------------------------------------------
(* Counting processors *)

LEMMA Processors ==
  ASSUME SmpAssumption
  PROVE  /\ IsFiniteSet(Present) /\ IsFiniteSet(Aps) /\ Cardinality(Aps) \in Nat
         /\ IdealProcessorCount = Cardinality(Aps) + 1
  <1>1. IsFiniteSet(0 .. MaxCpuID)
    BY FS_Interval DEF SmpAssumption
  <1>2. IsFiniteSet(Present)
    BY <1>1, FS_Subset DEF SmpAssumption
  <1>3. IsFiniteSet(Aps) /\ Cardinality(Aps) = Cardinality(Present) - 1
    BY <1>2, FS_RemoveElement DEF SmpAssumption, Aps
  <1> QED BY <1>2, <1>3, FS_CardinalityType DEF IdealProcessorCount

(* As many processors as there are have counted themselves only if each    *)
(* one has.                                                                *)
LEMMA AllCounted ==
  ASSUME SmpAssumption
  PROVE  /\ Cardinality(Up) \in Nat /\ Cardinality(Up) <= Cardinality(Aps)
         /\ Cardinality(Up) + 1 = IdealProcessorCount => Up = Aps
  <1>1. Up \in SUBSET Aps
    BY DEF Up
  <1> HIDE DEF Up
  <1> QED BY <1>1, Processors, FS_Subset, FS_CardinalityType

LEMMA OneMoreUp ==
  ASSUME SmpAssumption, NEW c \in Aps, counted \in [Aps -> Nat], counted[c] = 0,
         counted' = [counted EXCEPT ![c] = @ + 1]
  PROVE  Cardinality(Up') = Cardinality(Up) + 1
  <1>1. Up \subseteq Aps /\ c \notin Up /\ Up' = Up \cup {c}
    BY DEF Up
  <1>2. IsFiniteSet(Up)
    <2> HIDE DEF Up
    <2> QED BY <1>1, Processors, FS_Subset
  <1> HIDE DEF Up
  <1> QED BY <1>1, <1>2, FS_AddElement
-----------------------------------------------------------------------------
(* The steps *)

LEMMA SmpInitIInv == ASSUME SmpAssumption PROVE SmpInit => SmpIInv
  <1> SUFFICES ASSUME SmpInit PROVE SmpIInv
    OBVIOUS
  <1>1. Up = {}
    BY DEF SmpInit, Up
  <1>2. Cardinality(Up) = 0
    BY <1>1, FS_EmptySet
  <1>3. SmpTypeOK
    <2>1. <<BspID>> \in Seq(0 .. MaxCpuID)
      BY DEF SmpAssumption
    <2>2. ActiveProcessorCount \in 1 .. IdealProcessorCount
      BY Processors DEF SmpInit
    <2>3. bProcessorReinitDetected \in BOOLEAN
      BY DEF SmpInit
    <2>4. RFD \subseteq Present /\ blacklist \subseteq Aps
      BY DEF SmpAssumption, SmpInit
    <2> QED BY <2>1, <2>2, <2>3, <2>4 DEF SmpAssumption, SmpInit, SmpTypeOK
  <1>4. CountedOnce /\ CountIsExact
    BY <1>2 DEF SmpInit, CountedOnce, CountIsExact
  <1>5. AllUpAfterWait /\ ListedIDsReported /\ FilledSoFar
    BY DEF SmpInit, AllUpAfterWait, ListedIDsReported, FilledSoFar
  <1> QED BY <1>3, <1>4, <1>5 DEF SmpIInv

(* What the bootstrap CPU's steps leave alone. *)
LEMMA StartApsStep == ASSUME SmpAssumption, SmpIInv, StartAps PROVE SmpIInv'
  <1> USE DEF SmpIInv, StartAps, BspGoto
  <1>1. Up' = Up /\ Up = {}
    BY DEF Up, CountIsExact
  <1>2. SmpTypeOK'
    BY Processors DEF SmpTypeOK, SmpAssumption
  <1>3. CountedOnce' /\ CountIsExact'
    BY <1>1, FS_EmptySet DEF CountedOnce, CountIsExact, SmpTypeOK
  <1>4. AllUpAfterWait' /\ ListedIDsReported' /\ FilledSoFar'
    BY DEF AllUpAfterWait, ListedIDsReported, FilledSoFar, SmpTypeOK
  <1> QED BY <1>2, <1>3, <1>4

LEMMA AwaitCpusStep == ASSUME SmpAssumption, SmpIInv, AwaitCpus PROVE SmpIInv'
  <1> USE DEF SmpIInv, AwaitCpus, smp
  <1>1. Up' = Up
    BY DEF Up
  <1>2. SmpTypeOK'
    BY DEF SmpTypeOK, SmpAssumption
  <1>3. CountedOnce' /\ CountIsExact'
    BY <1>1 DEF CountedOnce, CountIsExact
  <1>4. AllUpAfterWait'
    <2>1. CASE bsp' = "check"
      <3>1. Up = Aps
        BY <2>1, AllCounted DEF CountIsExact, SmpTypeOK
      <3> QED BY <3>1 DEF AllUpAfterWait, Up
    <2> QED BY <2>1 DEF AllUpAfterWait
  <1>5. ListedIDsReported' /\ FilledSoFar'
    BY DEF ListedIDsReported, FilledSoFar, SmpTypeOK
  <1> QED BY <1>2, <1>3, <1>4, <1>5

LEMMA CheckReinitStep == ASSUME SmpAssumption, SmpIInv, CheckReinit PROVE SmpIInv'
  <1> USE DEF SmpIInv, CheckReinit, BspGoto
  <1>1. Up' = Up
    BY DEF Up
  <1>2. SmpTypeOK'
    <2>0. <<>> \in Seq(0 .. MaxCpuID) /\ pCpuIDs \in Seq(0 .. MaxCpuID)
      BY DEF SmpTypeOK
    <2>1. pCpuIDs' \in Seq(0 .. MaxCpuID)
      <3>1. CASE bProcessorReinitDetected
        BY <2>0, <3>1
      <3>2. CASE ~bProcessorReinitDetected
        BY <2>0, <3>2
      <3> QED BY <3>1, <3>2
    <2>2. bsp' \in {"meltdown", "fill"}
      OBVIOUS
    <2> QED BY <2>1, <2>2 DEF SmpTypeOK
  <1>3. CountedOnce' /\ CountIsExact' /\ AllUpAfterWait'
    BY <1>1 DEF CountedOnce, CountIsExact, AllUpAfterWait
  <1>4. ListedIDsReported' /\ FilledSoFar'
    BY DEF ListedIDsReported, FilledSoFar, SmpTypeOK
  <1> QED BY <1>2, <1>3, <1>4

LEMMA FillIDsStep == ASSUME SmpAssumption, SmpIInv, FillIDs PROVE SmpIInv'
  <1> USE DEF SmpIInv, FillIDs
  <1>1. Up' = Up
    BY DEF Up
  <1>2. CountedOnce' /\ CountIsExact' /\ AllUpAfterWait'
    BY <1>1 DEF CountedOnce, CountIsExact, AllUpAfterWait
  <1>3. CASE UNCHANGED <<pCpuIDs, i>>
    BY <1>2, <1>3 DEF SmpTypeOK, ListedIDsReported, FilledSoFar
  <1>4. CASE ~UNCHANGED <<pCpuIDs, i>>
    <2>1. /\ bsp = "fill" /\ bsp' = "fill" /\ i \in 0 .. MaxCpuID /\ i' = i + 1
          /\ pCpuIDs' = IF i \in RFD THEN Append(pCpuIDs, i) ELSE pCpuIDs
          /\ RFD' = RFD
      BY <1>4 DEF SmpTypeOK, ListIfRFD
    <2>2. pCpuIDs \in Seq(0 .. MaxCpuID) /\ MaxCpuID \in Nat
      BY DEF SmpTypeOK, SmpAssumption
    <2>3. SmpTypeOK'
      <3>0. Append(pCpuIDs, i) \in Seq(0 .. MaxCpuID)
        BY <2>1, <2>2
      <3>1. pCpuIDs' \in Seq(0 .. MaxCpuID)
        <4>1. CASE i \in RFD
          BY <2>1, <3>0, <4>1
        <4>2. CASE i \notin RFD
          BY <2>1, <2>2, <4>2
        <4> QED BY <4>1, <4>2
      <3>2. i' \in 0 .. MaxCpuID + 1
        BY <2>1, <2>2
      <3> QED BY <2>1, <3>1, <3>2 DEF SmpTypeOK
    <2>4. CASE i \in RFD
      <3>1. /\ DOMAIN pCpuIDs' = 1 .. Len(pCpuIDs) + 1 /\ Len(pCpuIDs') = Len(pCpuIDs) + 1
            /\ pCpuIDs'[Len(pCpuIDs) + 1] = i
            /\ \A k \in 1 .. Len(pCpuIDs) : pCpuIDs'[k] = pCpuIDs[k] /\ pCpuIDs[k] \in Nat
            /\ DOMAIN pCpuIDs = 1 .. Len(pCpuIDs) /\ Len(pCpuIDs) \in Nat
        BY <2>1, <2>2, <2>4
      <3>2. \A k \in 1 .. Len(pCpuIDs) : pCpuIDs[k] < i
        BY <2>1, <3>1 DEF FilledSoFar
      <3>3. FilledSoFar'
        <4>1. \A k \in DOMAIN pCpuIDs' : pCpuIDs'[k] < i + 1
          BY <2>1, <3>1, <3>2
        <4> QED BY <2>1, <4>1 DEF FilledSoFar
      <3>4. \A k \in DOMAIN pCpuIDs' : pCpuIDs'[k] \in RFD'
        BY <2>1, <2>4, <3>1 DEF ListedIDsReported
      <3>5. \A k \in 2 .. Len(pCpuIDs') : pCpuIDs'[k - 1] < pCpuIDs'[k]
        <4> SUFFICES ASSUME NEW k \in 2 .. Len(pCpuIDs) + 1
                     PROVE  pCpuIDs'[k - 1] < pCpuIDs'[k]
          BY <3>1
        <4>1. CASE k = Len(pCpuIDs) + 1
          BY <3>1, <3>2, <4>1
        <4>2. CASE k \in 2 .. Len(pCpuIDs)
          <5>1. pCpuIDs[k - 1] < pCpuIDs[k]
            BY <4>2 DEF ListedIDsReported
          <5>2. k \in 1 .. Len(pCpuIDs) /\ k - 1 \in 1 .. Len(pCpuIDs)
            BY <3>1, <4>2
          <5> QED BY <3>1, <5>1, <5>2
        <4> QED BY <3>1, <4>1, <4>2
      <3> QED BY <1>2, <2>3, <3>3, <3>4, <3>5 DEF ListedIDsReported
    <2>5. CASE i \notin RFD
      <3>1. FilledSoFar'
        <4>1. \A k \in DOMAIN pCpuIDs : pCpuIDs[k] \in Nat /\ pCpuIDs[k] < i
          BY <2>1, <2>2 DEF FilledSoFar
        <4> QED BY <2>1, <2>5, <4>1 DEF FilledSoFar
      <3> QED BY <1>2, <2>1, <2>3, <2>5, <3>1 DEF ListedIDsReported
    <2> QED BY <2>4, <2>5
  <1> QED BY <1>3, <1>4

LEMMA NmiTestStep == ASSUME SmpAssumption, SmpIInv, NmiTest PROVE SmpIInv'
  <1> USE DEF SmpIInv, NmiTest, BspGoto, smp
  <1>1. Up' = Up
    BY DEF Up
  <1> QED BY <1>1 DEF SmpTypeOK, CountedOnce, CountIsExact, AllUpAfterWait, ListedIDsReported, FilledSoFar

LEMMA ApCountStep ==
  ASSUME SmpAssumption, SmpIInv, NEW c \in Aps, ApCount(c)
  PROVE  SmpIInv'
  <1> USE DEF SmpIInv, ApCount, ApGoto
  <1>1. counted[c] = 0 /\ c \in blacklist /\ bsp # "start"
    BY DEF CountedOnce, CountIsExact
  <1>2. Cardinality(Up') = Cardinality(Up) + 1
    BY <1>1, OneMoreUp DEF SmpTypeOK
  <1>3. CountIsExact'
    BY <1>1, <1>2, AllCounted DEF CountIsExact
  <1>4. ActiveProcessorCount' \in 1 .. IdealProcessorCount
    <2>1. (Cardinality(Up) \in Nat)' /\ (Cardinality(Up) <= Cardinality(Aps))'
      <3>1. Up' \in SUBSET Aps
        BY DEF Up
      <3>2. IsFiniteSet(Up') /\ Cardinality(Up') <= Cardinality(Aps)
        <4> HIDE DEF Up
        <4> QED BY <3>1, Processors, FS_Subset
      <3> QED BY <3>2, FS_CardinalityType
    <2> QED BY <1>3, <2>1, Processors DEF CountIsExact
  <1>5. SmpTypeOK'
    BY <1>4 DEF SmpTypeOK
  <1>6. CountedOnce'
    BY <1>1 DEF CountedOnce, SmpTypeOK
  <1>7. AllUpAfterWait'
    BY <1>1 DEF AllUpAfterWait
  <1>8. ListedIDsReported' /\ FilledSoFar'
    BY DEF ListedIDsReported, FilledSoFar
  <1> QED BY <1>3, <1>5, <1>6, <1>7, <1>8

(* The other steps of a processor do not count. *)
LEMMA ApOtherSteps ==
  ASSUME SmpAssumption, SmpIInv, NEW c \in Aps,
         ApEntry(c) \/ ApReport(c) \/ ApApicInit(c) \/ ApRestart(c)
  PROVE  SmpIInv'
  <1> USE DEF SmpIInv, ApEntry, ApReport, ApApicInit, ApRestart, ApGoto, smp
  <1>0. bsp # "start"
    BY DEF CountIsExact
  <1>1. UNCHANGED <<bsp, counted, ActiveProcessorCount, pCpuIDs, i>>
    OBVIOUS
  <1>2. Up' = Up
    BY <1>1 DEF Up
  <1>3. SmpTypeOK'
    <2>1. ap' \in [Aps -> {"off", "entry", "setup", "report", "apic", "idle", "dead"}]
      BY DEF SmpTypeOK
    <2>2. RFD' \subseteq Present /\ blacklist' \subseteq Aps
      BY DEF SmpTypeOK, Aps
    <2>3. bProcessorReinitDetected' \in BOOLEAN
      BY DEF SmpTypeOK
    <2>4. restarts' \in 0 .. MaxRestarts
      BY DEF SmpTypeOK, SmpAssumption
    <2> QED BY <1>1, <2>1, <2>2, <2>3, <2>4 DEF SmpTypeOK
  <1>4. CountedOnce'
    BY DEF CountedOnce, SmpTypeOK
  <1>5. CountIsExact' /\ AllUpAfterWait' /\ FilledSoFar'
    BY <1>0, <1>1, <1>2 DEF CountIsExact, AllUpAfterWait, FilledSoFar
  <1>6. ListedIDsReported'
    <2>1. RFD \subseteq RFD'
      OBVIOUS
    <2> QED BY <1>1, <2>1 DEF ListedIDsReported
  <1> QED BY <1>3, <1>4, <1>5, <1>6

LEMMA SmpNextIInv == ASSUME SmpAssumption, SmpIInv, [SmpNext]_smpVars PROVE SmpIInv'
  <1>1. CASE UNCHANGED smpVars
    <2>1. Up' = Up
      BY <1>1 DEF smpVars, Up
    <2> QED BY <1>1, <2>1 DEF SmpIInv, smpVars, smp, SmpTypeOK, CountedOnce, CountIsExact, AllUpAfterWait,
                              ListedIDsReported, FilledSoFar
  <1> QED BY <1>1, StartApsStep, AwaitCpusStep, CheckReinitStep, FillIDsStep, NmiTestStep,
             ApCountStep, ApOtherSteps DEF SmpNext, BspNext, ApNext

(* No processor stands in for another: when KrInitSMP leaves its wait,     *)
(* each one of the MADT has counted itself exactly once, however often any *)
(* of them entered the kernel, and pCpuIDs is an ascending list of CPUs    *)
(* that have reported for duty.                                            *)
THEOREM BringupCompletes ==
  ASSUME SmpAssumption
  PROVE  SmpSpec => []BringupIsComplete
  <1>1. SmpInit => SmpIInv
    BY SmpInitIInv
  <1>2. SmpIInv /\ [SmpNext]_smpVars => SmpIInv'
    BY SmpNextIInv
  <1>3. SmpIInv => BringupIsComplete
    BY DEF SmpIInv, BringupIsComplete
  <1> QED BY <1>1, <1>2, <1>3, PTL DEF SmpSpec
-----------------------------------------------------------------------------
(* The calibration: the inductive invariant *)

(* CalibrationIsSound's ApicTypeOK with the domains of the functions. *)
Typed ==
    /\ hwWidth \in {24, 32} /\ hwTicks \in 0..Mod[hwWidth] - 1
    /\ AcpiPmTimerBitWidth \in {0, 24, 32}
    /\ spinlock \in CPUs \cup {None} /\ registered \in BOOLEAN \cup {None}
    /\ calib \in [CPUs -> {"off", "lock", "recalc", "stall", "start", "poll", "read", "done"}]
    /\ lapic \in [CPUs -> 0..DWORD_MAX]
    /\ gap \in [CPUs -> Nat] /\ \A c \in CPUs : gap[c] <= Limit(c)
    /\ DestTickCnt \in [CPUs -> 0..Mod[32] + NrTicksFor50ms]
    /\ CalibrationValue \in [CPUs -> Nat \cup {None}]

(* What a processor has done so far: it holds the lock while it measures,  *)
(* its counter runs only between StartCount and ReadCount, and it has a    *)
(* value only at the end.                                                  *)
Phases ==
    \A c \in CPUs :
        /\ Measuring(c) => spinlock = c
        /\ lapic[c] > 0 => calib[c] \in {"poll", "read"}
        /\ calib[c] # "done" => CalibrationValue[c] = None
        /\ calib[c] # "off" => registered # None
        /\ ~Measuring(c) => gap[c] = 0

WidthKnown == registered = TRUE => AcpiPmTimerBitWidth = hwWidth

\* The value of the power management timer from which the deadline was chosen.
From(c) == DestTickCnt[c] - NrTicksFor50ms

(* The deadline is so far from the end of the counter that the counter does *)
(* not wrap before a poll has seen it pass.                                *)
DeadlineInReach(c) == From(c) >= 0 /\ DestTickCnt[c] - 1 + GAP < Mod[hwWidth]

(* The count lags behind the power management timer by at most the delay   *)
(* before StartCount, and never runs ahead.                                *)
CountsFor(c, low, high) ==
    /\ Elapsed(lapic[c]) <= RATE * high
    /\ lapic[c] = 0 \/ Elapsed(lapic[c]) >= RATE * low

Measured(c) ==
    /\ calib[c] = "start" => DeadlineInReach(c) /\ hwTicks = From(c) + gap[c]
    /\ calib[c] = "poll" =>
         /\ DeadlineInReach(c)
         /\ hwTicks >= From(c) /\ hwTicks <= DestTickCnt[c] - 1 + gap[c]
         /\ CountsFor(c, hwTicks - From(c) - GAP, hwTicks - From(c))
    /\ calib[c] = "read" => CountsFor(c, NrTicksFor50ms - GAP, NrTicksFor50ms + GAP + gap[c])
    /\ calib[c] = "done" =>
         /\ CalibrationValue[c] \in Nat
         /\ CalibrationValue[c] >= (RATE * (NrTicksFor50ms - GAP)) \div USECONDS
         /\ CalibrationValue[c] <= (RATE * (NrTicksFor50ms + 2 * GAP)) \div USECONDS

Accurate == registered = TRUE => \A c \in CPUs : Measured(c)

ApicIInv == Typed /\ Phases /\ WidthKnown /\ Accurate
-----------------------------------------------------------------------------
LEMMA Constants ==
    ASSUME CalibrationAssumption
    PROVE  /\ NrTicksFor50ms \in Nat /\ TOLERANCE \in Nat /\ RATE \in Nat /\ USECONDS \in Nat
           /\ GAP \in Nat /\ STALL \in Nat /\ DWORD_MAX \in Nat
           /\ NrTicksFor50ms > 0 /\ TOLERANCE > 0 /\ RATE > 0 /\ USECONDS > 0 /\ GAP > 0 /\ DWORD_MAX > 0
           /\ Mod[24] \in Nat /\ Mod[32] \in Nat /\ Mod[24] <= Mod[32]
           /\ NrTicksFor50ms + TOLERANCE + GAP + STALL < Mod[24]
           /\ GAP < NrTicksFor50ms /\ GAP <= TOLERANCE /\ RATE * NrTicksFor50ms <= DWORD_MAX
           /\ None \notin CPUs
    BY DEF CalibrationAssumption

LEMMA NoneIsNoBoolean ==
    ASSUME CalibrationAssumption
    PROVE  None # TRUE /\ None \notin BOOLEAN
    BY DEF CalibrationAssumption

LEMMA ApicInitIInv ==
    ASSUME CalibrationAssumption, ApicInit
    PROVE  ApicIInv
    <1>1. Typed
        BY Constants DEF ApicInit, Typed, Limit
    <1>2. Phases
        BY Constants DEF ApicInit, Phases, Measuring
    <1>3. registered # TRUE
        BY NoneIsNoBoolean DEF ApicInit
    <1> QED BY <1>1, <1>2, <1>3 DEF ApicIInv, WidthKnown, Accurate

LEMMA RegisterStep ==
    ASSUME CalibrationAssumption, ApicIInv, AcpiPmTimerDriverRegister
    PROVE  ApicIInv'
    <1>1. /\ registered = None /\ registered' \in BOOLEAN /\ AcpiPmTimerBitWidth' \in {0, hwWidth}
          /\ registered' = TRUE => AcpiPmTimerBitWidth' = hwWidth
          /\ UNCHANGED <<hwWidth, hwTicks, spinlock, cpuVars, gap>>
        BY DEF AcpiPmTimerDriverRegister
    <1>2. \A c \in CPUs : calib[c] = "off"
        BY <1>1 DEF ApicIInv, Phases
    <1>3. Typed'
        BY <1>1 DEF ApicIInv, Typed, cpuVars, Limit
    <1>4. Phases'
        BY <1>1, <1>2 DEF ApicIInv, Phases, cpuVars, Measuring
    <1>5. WidthKnown'
        BY <1>1 DEF WidthKnown
    <1>6. Accurate'
        BY <1>1, <1>2 DEF Accurate, Measured, cpuVars
    <1> QED BY <1>3, <1>4, <1>5, <1>6 DEF ApicIInv

(* What a step of processor c leaves as it was on the others. *)
OnlyCpu(c) ==
    /\ UNCHANGED <<timerVars, hwTicks>>
    /\ \A d \in CPUs \ {c} : /\ calib'[d] = calib[d] /\ lapic'[d] = lapic[d] /\ gap'[d] = gap[d]
                             /\ DestTickCnt'[d] = DestTickCnt[d]
                             /\ CalibrationValue'[d] = CalibrationValue[d]

LEMMA OthersMeasured ==
    ASSUME ApicIInv, NEW c \in CPUs, OnlyCpu(c), registered = TRUE => Measured(c)'
    PROVE  WidthKnown' /\ Accurate'
    <1>1. ASSUME NEW d \in CPUs \ {c}, Measured(d) PROVE Measured(d)'
        BY <1>1 DEF OnlyCpu, timerVars, Measured, DeadlineInReach, From, CountsFor
    <1>2. WidthKnown'
        BY DEF ApicIInv, WidthKnown, OnlyCpu, timerVars
    <1>3. Accurate'
        BY <1>1 DEF ApicIInv, Accurate, OnlyCpu, timerVars
    <1> QED BY <1>2, <1>3

LEMMA EnterStep ==
    ASSUME CalibrationAssumption, ApicIInv, NEW c \in CPUs, KrApicInit(c)
    PROVE  ApicIInv'
    <1>1. /\ calib[c] = "off" /\ registered # None /\ calib' = [calib EXCEPT ![c] = "lock"]
          /\ UNCHANGED <<timerVars, hwTicks, spinlock, DestTickCnt, lapic, gap, CalibrationValue>>
        BY DEF KrApicInit
    <1>2. Typed'
        BY <1>1 DEF ApicIInv, Typed, timerVars, Limit
    <1>3. Phases'
        BY <1>1 DEF ApicIInv, Typed, Phases, Measuring, timerVars
    <1>4. OnlyCpu(c)
        BY <1>1 DEF ApicIInv, Typed, OnlyCpu
    <1>5. Measured(c)'
        BY <1>1 DEF ApicIInv, Typed, Measured
    <1> QED BY <1>2, <1>3, <1>4, <1>5, OthersMeasured DEF ApicIInv

LEMMA AcquireLockStep ==
    ASSUME CalibrationAssumption, ApicIInv, NEW c \in CPUs, AcquireLock(c)
    PROVE  ApicIInv'
    <1>1. /\ calib[c] = "lock" /\ spinlock = None /\ spinlock' = c
          /\ calib' = [calib EXCEPT ![c] = "recalc"] /\ gap' = [gap EXCEPT ![c] = 0]
          /\ UNCHANGED <<timerVars, hwTicks, DestTickCnt, lapic, CalibrationValue>>
        BY DEF AcquireLock, LockFree
    <1>2. Typed'
        BY <1>1, Constants DEF ApicIInv, Typed, timerVars, Limit
    <1>3. Phases'
        BY <1>1, Constants DEF ApicIInv, Typed, Phases, Measuring, timerVars
    <1>4. OnlyCpu(c)
        BY <1>1 DEF ApicIInv, Typed, OnlyCpu
    <1>5. Measured(c)'
        BY <1>1 DEF ApicIInv, Typed, Measured
    <1> QED BY <1>2, <1>3, <1>4, <1>5, OthersMeasured DEF ApicIInv

(* A deadline that is not too late stays within reach of the counter. *)
LEMMA RecalcStep ==
    ASSUME CalibrationAssumption, ApicIInv, NEW c \in CPUs, Recalc(c)
    PROVE  ApicIInv'
    <1>1. PICK t \in GetTicks :
            /\ DestTickCnt' = [DestTickCnt EXCEPT ![c] = t + NrTicksFor50ms]
            /\ calib' = [calib EXCEPT ![c] = IF TooLate(t + NrTicksFor50ms) THEN "stall" ELSE "start"]
        BY DEF Recalc
    <1>2. /\ calib[c] = "recalc" /\ gap' = [gap EXCEPT ![c] = 0]
          /\ UNCHANGED <<timerVars, hwTicks, spinlock, lapic, CalibrationValue>>
        BY DEF Recalc
    <1>3. t \in Nat /\ t <= Mod[32]
        <2>1. CASE registered = TRUE
            BY <2>1, Constants DEF GetTicks, ApicIInv, Typed
        <2>2. CASE registered # TRUE
            <3>1. GetTicks = 0..Mod[24] - 1
                BY <2>2, Zenon DEF GetTicks
            <3> QED BY <3>1, Constants
        <2> QED BY <2>1, <2>2
    <1>4. calib'[c] \in {"stall", "start"} /\ DestTickCnt'[c] = t + NrTicksFor50ms /\ gap'[c] = 0
        BY <1>1, <1>2 DEF ApicIInv, Typed
    <1>5. Typed'
        <2>1. t + NrTicksFor50ms \in 0..Mod[32] + NrTicksFor50ms
            BY <1>3, Constants
        <2>2. /\ calib' \in [CPUs -> {"off", "lock", "recalc", "stall", "start", "poll", "read", "done"}]
              /\ DestTickCnt' \in [CPUs -> 0..Mod[32] + NrTicksFor50ms] /\ gap' \in [CPUs -> Nat]
            BY <1>1, <1>2, <2>1 DEF ApicIInv, Typed
        <2>3. \A d \in CPUs : gap'[d] <= Limit(d)'
            BY <1>1, <1>2, Constants DEF ApicIInv, Typed, Limit
        <2> QED BY <1>2, <2>2, <2>3 DEF ApicIInv, Typed, timerVars
    <1>6. OnlyCpu(c)
        BY <1>1, <1>2 DEF ApicIInv, Typed, OnlyCpu
    <1>7. Phases'
        BY <1>2, <1>4, <1>6 DEF ApicIInv, Phases, Measuring, OnlyCpu, timerVars
    <1>8. ASSUME registered = TRUE PROVE Measured(c)'
        <2>1. t = hwTicks /\ AcpiPmTimerBitWidth = hwWidth /\ hwWidth \in {24, 32}
            BY <1>8 DEF GetTicks, ApicIInv, WidthKnown, Typed
        <2>2. CASE calib'[c] = "start"
            <3>1. ~TooLate(t + NrTicksFor50ms)
                BY <1>1, <2>2 DEF ApicIInv, Typed
            <3>2. t + NrTicksFor50ms - 1 + GAP < Mod[hwWidth]
                BY <1>3, <2>1, <3>1, Constants DEF TooLate
            <3>3. DeadlineInReach(c)'
                BY <1>2, <1>3, <1>4, <3>2, Constants DEF DeadlineInReach, From, timerVars
            <3>4. hwTicks' = From(c)' + gap'[c]
                BY <1>2, <1>3, <1>4, <2>1, Constants DEF From
            <3> QED BY <2>2, <3>3, <3>4 DEF Measured
        <2> QED BY <1>4, <2>2 DEF Measured
    <1> QED BY <1>5, <1>6, <1>7, <1>8, OthersMeasured DEF ApicIInv

LEMMA StalledStep ==
    ASSUME CalibrationAssumption, ApicIInv, NEW c \in CPUs, Stalled(c)
    PROVE  ApicIInv'
    <1>1. /\ calib[c] = "stall" /\ calib' = [calib EXCEPT ![c] = "recalc"] /\ gap' = [gap EXCEPT ![c] = 0]
          /\ UNCHANGED <<timerVars, hwTicks, spinlock, DestTickCnt, lapic, CalibrationValue>>
        BY DEF Stalled
    <1>2. Typed'
        BY <1>1, Constants DEF ApicIInv, Typed, timerVars, Limit
    <1>3. Phases'
        BY <1>1 DEF ApicIInv, Typed, Phases, Measuring, timerVars
    <1>4. OnlyCpu(c)
        BY <1>1 DEF ApicIInv, Typed, OnlyCpu
    <1>5. Measured(c)'
        BY <1>1 DEF ApicIInv, Typed, Measured
    <1> QED BY <1>2, <1>3, <1>4, <1>5, OthersMeasured DEF ApicIInv

LEMMA StartCountStep ==
    ASSUME CalibrationAssumption, ApicIInv, NEW c \in CPUs, StartCount(c)
    PROVE  ApicIInv'
    <1>1. /\ calib[c] = "start" /\ lapic' = [lapic EXCEPT ![c] = DWORD_MAX]
          /\ calib' = [calib EXCEPT ![c] = "poll"] /\ gap' = [gap EXCEPT ![c] = 0]
          /\ UNCHANGED <<timerVars, hwTicks, spinlock, DestTickCnt, CalibrationValue>>
        BY DEF StartCount
    <1>2. Typed'
        BY <1>1, Constants DEF ApicIInv, Typed, timerVars, Limit
    <1>3. Phases'
        BY <1>1 DEF ApicIInv, Typed, Phases, Measuring, timerVars
    <1>4. OnlyCpu(c)
        BY <1>1 DEF ApicIInv, Typed, OnlyCpu
    <1>5. ASSUME registered = TRUE PROVE Measured(c)'
        <2>1. /\ DeadlineInReach(c) /\ hwTicks = From(c) + gap[c] /\ gap[c] \in Nat /\ gap[c] <= GAP
              /\ DestTickCnt[c] \in Nat
            BY <1>1, <1>5, Constants DEF ApicIInv, Accurate, Measured, Typed, Limit
        <2>2. /\ calib'[c] = "poll" /\ lapic'[c] = DWORD_MAX /\ gap'[c] = 0 /\ hwTicks' = hwTicks
              /\ DestTickCnt'[c] = DestTickCnt[c] /\ hwWidth' = hwWidth
            BY <1>1 DEF ApicIInv, Typed, timerVars
        <2>3. DeadlineInReach(c)' /\ From(c)' = From(c)
            BY <2>1, <2>2 DEF DeadlineInReach, From
        <2>4. From(c) \in Nat /\ From(c) = DestTickCnt[c] - NrTicksFor50ms
            BY <2>1, Constants DEF DeadlineInReach, From
        <2>5. hwTicks >= From(c) /\ hwTicks <= DestTickCnt[c] - 1 + 0
            BY <2>1, <2>4, Constants
        <2> DEFINE x == hwTicks - From(c)
        <2>6. x \in Nat /\ x <= GAP /\ x - GAP <= 0
            BY <2>1, <2>4, Constants
        <2> HIDE DEF x
        <2>7. RATE * x >= 0 /\ RATE * (x - GAP) <= 0
            BY <2>6, Constants
        <2>8. CountsFor(c, x - GAP, x)'
            BY <2>2, <2>7, Constants, <2>3 DEF CountsFor, Elapsed, x
        <2> QED BY <2>2, <2>3, <2>5, <2>8 DEF Measured, x
    <1> QED BY <1>2, <1>3, <1>4, <1>5, OthersMeasured DEF ApicIInv

LEMMA PollStep ==
    ASSUME CalibrationAssumption, ApicIInv, NEW c \in CPUs, PollTicks(c)
    PROVE  ApicIInv'
    <1>1. PICK t \in GetTicks :
            calib' = [calib EXCEPT ![c] = IF Before(t, DestTickCnt[c] % Mod[32]) THEN "poll" ELSE "read"]
        BY DEF PollTicks
    <1>2. /\ calib[c] = "poll" /\ gap' = [gap EXCEPT ![c] = 0]
          /\ UNCHANGED <<timerVars, hwTicks, spinlock, DestTickCnt, lapic, CalibrationValue>>
        BY DEF PollTicks
    <1>3. calib'[c] \in {"poll", "read"} /\ gap'[c] = 0
        BY <1>1, <1>2 DEF ApicIInv, Typed
    <1>4. OnlyCpu(c)
        BY <1>1, <1>2 DEF ApicIInv, Typed, OnlyCpu
    <1>5. Typed'
        <2>1. /\ calib' \in [CPUs -> {"off", "lock", "recalc", "stall", "start", "poll", "read", "done"}]
              /\ gap' \in [CPUs -> Nat]
            BY <1>1, <1>2 DEF ApicIInv, Typed
        <2>2. \A d \in CPUs : gap'[d] <= Limit(d)'
            BY <1>1, <1>2, Constants DEF ApicIInv, Typed, Limit
        <2> QED BY <1>2, <2>1, <2>2 DEF ApicIInv, Typed, timerVars
    <1>6. Phases'
        BY <1>2, <1>3, <1>4 DEF ApicIInv, Phases, Measuring, OnlyCpu, timerVars
    <1>7. ASSUME registered = TRUE PROVE Measured(c)'
        <2>1. /\ DeadlineInReach(c) /\ hwTicks >= From(c) /\ hwTicks <= DestTickCnt[c] - 1 + gap[c]
              /\ CountsFor(c, hwTicks - From(c) - GAP, hwTicks - From(c))
              /\ gap[c] \in Nat /\ gap[c] <= GAP /\ DestTickCnt[c] \in Nat /\ hwTicks \in Nat
            BY <1>2, <1>7, Constants DEF ApicIInv, Accurate, Measured, Typed, Limit
        <2>2. /\ lapic'[c] = lapic[c] /\ hwTicks' = hwTicks
              /\ DestTickCnt'[c] = DestTickCnt[c] /\ hwWidth' = hwWidth
            BY <1>2 DEF timerVars
        <2>3. DeadlineInReach(c)' /\ From(c)' = From(c)
            BY <2>1, <2>2 DEF DeadlineInReach, From
        <2>4. From(c) \in Nat /\ From(c) = DestTickCnt[c] - NrTicksFor50ms
            BY <2>1, Constants DEF DeadlineInReach, From
        <2>5. t = hwTicks
            BY <1>7 DEF GetTicks
        <2>6. DestTickCnt[c] % Mod[32] = DestTickCnt[c]
            <3>1. Mod[hwWidth] <= Mod[32] /\ Mod[hwWidth] \in Nat
                BY Constants DEF ApicIInv, Typed
            <3>2. DestTickCnt[c] < Mod[32]
                BY <2>1, <3>1, Constants DEF DeadlineInReach
            <3> QED BY <2>1, <3>2, Constants
        <2>7. CASE calib'[c] = "poll"
            <3>1. hwTicks < DestTickCnt[c]
                BY <1>1, <1>2, <2>5, <2>6, <2>7 DEF Before, ApicIInv, Typed
            <3>2. CountsFor(c, hwTicks - From(c) - GAP, hwTicks - From(c))'
                BY <2>1, <2>2, <2>3 DEF CountsFor
            <3>3. hwTicks' <= DestTickCnt'[c] - 1 + gap'[c]
                BY <1>3, <2>1, <2>2, <3>1
            <3> QED BY <2>1, <2>2, <2>3, <2>7, <3>2, <3>3 DEF Measured
        <2>8. CASE calib'[c] = "read"
            <3>1. hwTicks >= DestTickCnt[c]
                BY <1>1, <1>2, <2>1, <2>5, <2>6, <2>8 DEF Before, ApicIInv, Typed
            <3> DEFINE x == hwTicks - From(c)
            <3>2. x \in Nat /\ NrTicksFor50ms - GAP <= x - GAP /\ x <= NrTicksFor50ms + GAP
                BY <2>1, <2>4, <3>1, Constants
            <3>3. Elapsed(lapic[c]) <= RATE * x /\ (lapic[c] = 0 \/ Elapsed(lapic[c]) >= RATE * (x - GAP))
                BY <2>1 DEF CountsFor
            <3>4. Elapsed(lapic[c]) \in Int
                BY Constants DEF Elapsed, ApicIInv, Typed
            <3> HIDE DEF x
            <3>5. RATE * (NrTicksFor50ms - GAP) <= RATE * (x - GAP) /\ RATE * x <= RATE * (NrTicksFor50ms + GAP)
                BY <3>2, Constants
            <3>6. /\ Elapsed(lapic[c]) <= RATE * (NrTicksFor50ms + GAP + 0)
                  /\ lapic[c] = 0 \/ Elapsed(lapic[c]) >= RATE * (NrTicksFor50ms - GAP)
                BY <3>2, <3>3, <3>4, <3>5, Constants
            <3>7. CountsFor(c, NrTicksFor50ms - GAP, NrTicksFor50ms + GAP + gap[c])'
                BY <1>3, <2>2, <3>6 DEF CountsFor
            <3> QED BY <2>8, <3>7 DEF Measured
        <2> QED BY <1>3, <2>7, <2>8
    <1> QED BY <1>4, <1>5, <1>6, <1>7, OthersMeasured DEF ApicIInv

(* What is stored is the count, within the delays before and after it. *)
LEMMA ReadCountStep ==
    ASSUME CalibrationAssumption, ApicIInv, NEW c \in CPUs, ReadCount(c)
    PROVE  ApicIInv'
    <1>1. /\ calib[c] = "read" /\ lapic' = [lapic EXCEPT ![c] = 0] /\ spinlock' = None
          /\ CalibrationValue' = [CalibrationValue EXCEPT ![c] = Elapsed(lapic[c]) \div USECONDS]
          /\ calib' = [calib EXCEPT ![c] = "done"] /\ DestTickCnt' = [DestTickCnt EXCEPT ![c] = 0]
          /\ gap' = [gap EXCEPT ![c] = 0] /\ UNCHANGED <<timerVars, hwTicks>>
        BY DEF ReadCount
    <1>2. Elapsed(lapic[c]) \in Nat /\ lapic[c] \in Nat
        BY Constants DEF Elapsed, ApicIInv, Typed
    <1>3. Elapsed(lapic[c]) \div USECONDS \in Nat
        <2> HIDE DEF Elapsed
        <2> QED BY <1>2, Constants
    <1>4. Typed'
        BY <1>1, <1>3, Constants DEF ApicIInv, Typed, timerVars, Limit
    <1>5. OnlyCpu(c)
        BY <1>1 DEF ApicIInv, Typed, OnlyCpu
    <1>6. Phases'
        <2>1. \A d \in CPUs \ {c} : ~Measuring(d)
            BY <1>1, Constants DEF ApicIInv, Phases, Measuring
        <2> QED BY <1>1, <2>1, Constants DEF ApicIInv, Typed, Phases, Measuring, timerVars
    <1>7. ASSUME registered = TRUE PROVE Measured(c)'
        <2> DEFINE e == Elapsed(lapic[c])
                   low == RATE * (NrTicksFor50ms - GAP)
                   high == RATE * (NrTicksFor50ms + 2 * GAP)
        <2>1. /\ CountsFor(c, NrTicksFor50ms - GAP, NrTicksFor50ms + GAP + gap[c])
              /\ gap[c] \in Nat /\ gap[c] <= GAP
            BY <1>1, <1>7, Constants DEF ApicIInv, Accurate, Measured, Typed, Limit
        <2>2. e <= high
            <3>1. RATE * (NrTicksFor50ms + GAP + gap[c]) <= RATE * (NrTicksFor50ms + 2 * GAP)
                BY <2>1, Constants
            <3> QED BY <1>2, <2>1, <3>1, Constants DEF CountsFor
        <2>3. low <= RATE * NrTicksFor50ms
            BY Constants
        <2>4. low <= e
            <3>1. CASE lapic[c] = 0
                BY <2>3, <3>1, Constants DEF Elapsed
            <3>2. CASE lapic[c] # 0
                BY <2>1, <3>2 DEF CountsFor
            <3> QED BY <3>1, <3>2
        <2>5. low \in Nat /\ high \in Nat /\ e \in Nat
            BY <1>2, Constants
        <2>6. CalibrationValue'[c] = e \div USECONDS /\ calib'[c] = "done"
            BY <1>1 DEF ApicIInv, Typed
        <2> HIDE DEF e, low, high
        <2>7. low \div USECONDS <= e \div USECONDS /\ e \div USECONDS <= high \div USECONDS
            BY <2>2, <2>4, <2>5, Constants
        <2>8. e \div USECONDS \in Nat /\ low \div USECONDS \in Int /\ high \div USECONDS \in Int
            BY <2>5, Constants
        <2>9. CalibrationValue'[c] \in Nat /\ CalibrationValue'[c] >= low \div USECONDS
              /\ CalibrationValue'[c] <= high \div USECONDS
            BY <2>6, <2>7, <2>8
        <2> QED BY <2>6, <2>9 DEF Measured, low, high
    <1> QED BY <1>4, <1>5, <1>6, <1>7, OthersMeasured DEF ApicIInv

(* A tick of the power management timer is at most RATE ticks of the local *)
(* APIC counter, and exactly RATE unless that counter has run out.         *)
LEMMA CountTicks ==
    ASSUME CalibrationAssumption, NEW n \in 0..DWORD_MAX, NEW m,
           m = IF n > RATE THEN n - RATE ELSE 0
    PROVE  /\ m \in 0..DWORD_MAX /\ Elapsed(m) <= Elapsed(n) + RATE /\ (n = 0 => m = 0)
           /\ m = 0 \/ Elapsed(m) = Elapsed(n) + RATE
    BY Constants DEF Elapsed

LEMMA CountsForTick ==
    ASSUME CalibrationAssumption, NEW n \in 0..DWORD_MAX, NEW m \in 0..DWORD_MAX,
           Elapsed(m) <= Elapsed(n) + RATE, n = 0 => m = 0,
           m = 0 \/ Elapsed(m) = Elapsed(n) + RATE,
           NEW low \in Int, NEW high \in Int,
           Elapsed(n) <= RATE * high, n = 0 \/ Elapsed(n) >= RATE * low
    PROVE  /\ Elapsed(m) <= RATE * (high + 1)
           /\ m = 0 \/ Elapsed(m) >= RATE * (low + 1)
    <1>1. RATE * (high + 1) = RATE * high + RATE /\ RATE * (low + 1) = RATE * low + RATE
        BY Constants
    <1>2. Elapsed(m) \in Int /\ Elapsed(n) \in Int /\ RATE * high \in Int /\ RATE * low \in Int
        BY Constants DEF Elapsed
    <1> QED BY <1>1, <1>2, Constants

LEMMA TickStep ==
    ASSUME CalibrationAssumption, ApicIInv, Tick
    PROVE  ApicIInv'
    <1>1. /\ \A c \in CPUs : Measuring(c) => gap[c] < Limit(c)
          /\ hwTicks' = (hwTicks + 1) % Mod[hwWidth]
          /\ lapic' = [c \in CPUs |-> IF lapic[c] > RATE THEN lapic[c] - RATE ELSE 0]
          /\ gap' = [c \in CPUs |-> IF Measuring(c) THEN gap[c] + 1 ELSE 0]
          /\ UNCHANGED <<timerVars, spinlock, calib, DestTickCnt, CalibrationValue>>
        BY DEF Tick
    <1>2. Mod[hwWidth] \in Nat /\ Mod[hwWidth] > 0 /\ hwTicks \in Nat /\ hwTicks < Mod[hwWidth]
        BY Constants DEF ApicIInv, Typed
    <1>3. \A c \in CPUs : /\ Measuring(c)' = Measuring(c) /\ Limit(c)' = Limit(c)
                          /\ Limit(c) \in Nat /\ gap[c] \in Nat
        BY <1>1, Constants DEF Measuring, Limit, ApicIInv, Typed
    <1>4. ASSUME NEW c \in CPUs
          PROVE  /\ lapic'[c] \in 0..DWORD_MAX /\ Elapsed(lapic'[c]) <= Elapsed(lapic[c]) + RATE
                 /\ lapic[c] = 0 => lapic'[c] = 0
                 /\ lapic'[c] = 0 \/ Elapsed(lapic'[c]) = Elapsed(lapic[c]) + RATE
        <2>1. lapic[c] \in 0..DWORD_MAX
            BY DEF ApicIInv, Typed
        <2>2. lapic'[c] = IF lapic[c] > RATE THEN lapic[c] - RATE ELSE 0
            BY <1>1
        <2> QED BY <2>1, <2>2, CountTicks
    <1>5. Typed'
        <2>1. hwTicks' \in 0..Mod[hwWidth] - 1
            <3>1. (hwTicks + 1) % Mod[hwWidth] \in 0..Mod[hwWidth] - 1
                BY <1>2
            <3> QED BY <1>1, <3>1
        <2>2. lapic' \in [CPUs -> 0..DWORD_MAX]
            BY <1>1, <1>4
        <2>3. gap' \in [CPUs -> Nat] /\ \A c \in CPUs : gap'[c] <= Limit(c)'
            BY <1>1, <1>3
        <2> QED BY <1>1, <2>1, <2>2, <2>3 DEF ApicIInv, Typed, timerVars
    <1>6. Phases'
        <2> SUFFICES ASSUME NEW c \in CPUs
                     PROVE  /\ Measuring(c)' => spinlock' = c
                            /\ lapic'[c] > 0 => calib'[c] \in {"poll", "read"}
                            /\ calib'[c] # "done" => CalibrationValue'[c] = None
                            /\ calib'[c] # "off" => registered' # None
                            /\ ~Measuring(c)' => gap'[c] = 0
            BY DEF Phases
        <2>1. lapic'[c] > 0 => lapic[c] > 0
            <3>1. lapic[c] \in Nat /\ lapic'[c] \in Nat
                BY <1>4 DEF ApicIInv, Typed
            <3> QED BY <1>4, <3>1
        <2> QED BY <1>1, <1>3, <2>1 DEF ApicIInv, Phases, timerVars
    <1>7. WidthKnown'
        BY <1>1 DEF ApicIInv, WidthKnown, timerVars
    <1>8. ASSUME registered = TRUE, NEW c \in CPUs PROVE Measured(c)'
        <2>0. /\ Measured(c) /\ lapic[c] \in 0..DWORD_MAX /\ DestTickCnt[c] \in Nat
              /\ calib'[c] = calib[c] /\ DestTickCnt'[c] = DestTickCnt[c] /\ hwWidth' = hwWidth
              /\ CalibrationValue'[c] = CalibrationValue[c]
            BY <1>1, <1>8 DEF ApicIInv, Accurate, Typed, timerVars
        <2>1. From(c)' = From(c) /\ (DeadlineInReach(c) => DeadlineInReach(c)')
            BY <2>0 DEF From, DeadlineInReach
        <2>2. DeadlineInReach(c) => /\ From(c) \in Nat /\ From(c) = DestTickCnt[c] - NrTicksFor50ms
                                    /\ DestTickCnt[c] - 1 + GAP < Mod[hwWidth]
            BY <2>0, Constants DEF From, DeadlineInReach
        <2>3. calib[c] \in {"start", "poll", "read"} => gap'[c] = gap[c] + 1 /\ gap[c] < GAP
            BY <1>1 DEF Measuring, Limit
        <2>4. hwTicks + 1 < Mod[hwWidth] => hwTicks' = hwTicks + 1
            BY <1>1, <1>2
        <2>5. CASE calib[c] = "start"
            <3>1. DeadlineInReach(c) /\ hwTicks = From(c) + gap[c]
                BY <2>0, <2>5 DEF Measured
            <3>2. hwTicks' = From(c) + gap'[c]
                BY <1>2, <1>3, <2>0, <2>2, <2>3, <2>4, <2>5, <3>1, Constants
            <3> QED BY <2>0, <2>1, <2>5, <3>1, <3>2 DEF Measured
        <2>6. CASE calib[c] = "poll"
            <3> DEFINE x == hwTicks - From(c)
            <3>1. /\ DeadlineInReach(c) /\ hwTicks >= From(c) /\ hwTicks <= DestTickCnt[c] - 1 + gap[c]
                  /\ Elapsed(lapic[c]) <= RATE * x
                  /\ lapic[c] = 0 \/ Elapsed(lapic[c]) >= RATE * (x - GAP)
                BY <2>0, <2>6 DEF Measured, CountsFor
            <3>2. hwTicks' = hwTicks + 1 /\ hwTicks' <= DestTickCnt[c] - 1 + gap'[c] /\ hwTicks' >= From(c)
                BY <1>2, <1>3, <2>0, <2>2, <2>3, <2>4, <2>6, <3>1, Constants
            <3>3. x \in Int /\ x - GAP \in Int /\ x - GAP + 1 = x + 1 - GAP /\ hwTicks' - From(c) = x + 1
                BY <1>2, <2>2, <3>1, <3>2, Constants
            <3> HIDE DEF x
            <3>4. /\ Elapsed(lapic'[c]) <= RATE * (x + 1)
                  /\ lapic'[c] = 0 \/ Elapsed(lapic'[c]) >= RATE * (x - GAP + 1)
                BY <1>4, <2>0, <3>1, <3>3, CountsForTick
            <3>5. CountsFor(c, hwTicks - From(c) - GAP, hwTicks - From(c))'
                <4>1. hwTicks' - From(c)' = x + 1
                    BY <2>1, <3>3
                <4>2. hwTicks' - From(c)' - GAP = x - GAP + 1
                    BY <4>1, <3>3, Constants
                <4> HIDE DEF From
                <4> QED BY <3>4, <4>1, <4>2 DEF CountsFor
            <3> QED BY <2>0, <2>1, <2>6, <3>1, <3>2, <3>5 DEF Measured
        <2>7. CASE calib[c] = "read"
            <3> DEFINE low == NrTicksFor50ms - GAP
                       high == NrTicksFor50ms + GAP + gap[c]
            <3>1. /\ Elapsed(lapic[c]) <= RATE * high
                  /\ lapic[c] = 0 \/ Elapsed(lapic[c]) >= RATE * low
                BY <2>0, <2>7 DEF Measured, CountsFor
            <3>2. low \in Int /\ high \in Int /\ NrTicksFor50ms + GAP + gap'[c] = high + 1
                BY <1>3, <2>3, <2>7, Constants
            <3> HIDE DEF high
            <3>3. /\ Elapsed(lapic'[c]) <= RATE * (high + 1)
                  /\ lapic'[c] = 0 \/ Elapsed(lapic'[c]) >= RATE * (low + 1)
                BY <1>4, <2>0, <3>1, <3>2, CountsForTick
            <3>4. RATE * (low + 1) >= RATE * low /\ RATE * (low + 1) \in Int /\ RATE * low \in Int
                BY <3>2, Constants
            <3>5. Elapsed(lapic'[c]) \in Int
                BY <1>4, Constants DEF Elapsed
            <3>6. lapic'[c] = 0 \/ Elapsed(lapic'[c]) >= RATE * low
                BY <3>3, <3>4, <3>5
            <3>7. CountsFor(c, NrTicksFor50ms - GAP, NrTicksFor50ms + GAP + gap[c])'
                BY <3>2, <3>3, <3>6 DEF CountsFor
            <3> QED BY <2>0, <2>7, <3>7 DEF Measured
        <2>8. CASE calib[c] \notin {"start", "poll", "read"}
            BY <2>0, <2>8 DEF Measured
        <2> QED BY <2>5, <2>6, <2>7, <2>8
    <1>9. Accurate'
        BY <1>1, <1>8 DEF Accurate, timerVars
    <1> QED BY <1>5, <1>6, <1>7, <1>9 DEF ApicIInv

LEMMA StutterStep ==
    ASSUME ApicIInv, UNCHANGED apicVars
    PROVE  ApicIInv'
    <1> USE DEF apicVars, timerVars, cpuVars
    <1>1. Typed'
        BY DEF ApicIInv, Typed, Limit
    <1>2. Phases' /\ WidthKnown'
        BY DEF ApicIInv, Phases, Measuring, WidthKnown
    <1>3. Accurate'
        BY DEF ApicIInv, Accurate, Measured, DeadlineInReach, From, CountsFor
    <1> QED BY <1>1, <1>2, <1>3 DEF ApicIInv

LEMMA ApicNextIInv ==
    ASSUME CalibrationAssumption, ApicIInv, [ApicNext]_apicVars
    PROVE  ApicIInv'
    BY RegisterStep, EnterStep, AcquireLockStep, RecalcStep, StalledStep, StartCountStep,
       PollStep, ReadCountStep, TickStep, StutterStep DEF ApicNext, Step

LEMMA IInvSound ==
    ASSUME CalibrationAssumption, ApicIInv
    PROVE  CalibrationIsSound
    <1>1. ApicTypeOK
        <2>1. \A c \in CPUs : Limit(c) \in Nat /\ gap[c] \in 0..Limit(c)
            BY Constants DEF ApicIInv, Typed, Limit
        <2> QED BY <2>1 DEF ApicIInv, Typed, ApicTypeOK
    <1>2. OneMeasurement
        BY DEF ApicIInv, Phases, Measuring, OneMeasurement
    <1>3. CalibrationIsAccurate
        BY DEF ApicIInv, Phases, Accurate, Measured, CalibrationIsAccurate
    <1> QED BY <1>1, <1>2, <1>3 DEF CalibrationIsSound

(* ApicCalibrateTimer: one processor measures at a time, and what it       *)
(* stores is the rate of its local APIC timer up to the delays of its own  *)
(* steps.  The counter may be of either width and stand anywhere when the  *)
(* measurement begins: a deadline that it would wrap around before is      *)
(* never waited for.                                                       *)
THEOREM CalibrationSound ==
    ASSUME CalibrationAssumption
    PROVE  ApicSpec => []CalibrationIsSound
    <1>1. ApicInit => ApicIInv
        BY ApicInitIInv
    <1>2. ApicIInv /\ [ApicNext]_apicVars => ApicIInv'
        BY ApicNextIInv
    <1>3. ApicIInv => CalibrationIsSound
        BY IInvSound
    <1> QED BY <1>1, <1>2, <1>3, PTL DEF ApicSpec
----------------------------------------------------------------------------
(* Global NMIs: the inductive invariant *)

ModeOK ==
  mode.printers \in Printers /\ mode.hwNmis \in Nat /\ mode.timely \in BOOLEAN

(* sg_NmiSpinlock is held from the lock to the clearing of sg_NmiInfo, and *)
(* the reason is that of the holder.                                       *)
LockIsHeld ==
  /\ \A c \in Cpus : nmiLock = c <=> pc[c] \in {"selfAck", "poll", "clear"}
  /\ nmiLock = NoCpu => Reason = "NONE"
  /\ \A c \in Cpus : nmiLock = c => Reason = why[c]

(* A CPU that raises an NMI has a reason; a meltdown is the reason only of *)
(* the CPU that got the meltdown lock.                                     *)
ReasonIsGiven ==
  \A c \in Cpus :
    /\ pc[c] \in {"raise", "selfAck", "poll", "clear"} => why[c] # "NONE"
    /\ why[c] = "MELTDOWN" \/ pc[c] \in {"report", "halted"} => mdLock = c

(* Once the NMI is sent, no CPU is forgotten: it has still to take it, is  *)
(* in the handler, or has acknowledged; when the NMI is that of a meltdown *)
(* it has still to take it or does not come back from the handler.         *)
NobodyIsForgotten ==
  \A c \in Cpus : pc[c] = "poll" =>
    /\ c \in Ack
    /\ \A d \in Cpus \ {c} :
         /\ pending[d] \/ handler[d] \in {"ack", "ackStop"} \/ d \in Ack
         /\ Reason = "MELTDOWN" => pending[d] \/ handler[d] \in {"ackStop", "stopped"}

(* The harmless test is that of the bootstrap CPU, which does not leave    *)
(* its round while it handles an NMI of it.  Outside of its own rounds it  *)
(* is counted only when it has stopped.                                    *)
TestIsOfBsp ==
  /\ \A c \in Cpus : why[c] = "HARMLESS_TEST" => c = Bsp
  /\ handler[Bsp] = "ack" => nmiLock = Bsp
  /\ nmiLock # Bsp /\ Bsp \in Ack => handler[Bsp] = "stopped"
  /\ \A c \in Cpus \ {Bsp} : Bsp \in loaded[c] => handler[Bsp] = "stopped"

(* With answers in time a meltdown of another CPU stops the bootstrap CPU, *)
(* so that no test comes after it and every CPU answers a test.            *)
NoTestAfterMeltdown ==
  mode.timely =>
  /\ \A c \in Cpus \ {Bsp} : pc[c] = "clear" => handler[Bsp] = "stopped"
  /\ \A d \in Cpus : handler[d] \in {"ackStop", "stopped"} =>
       Reason = "MELTDOWN" \/ handler[Bsp] = "stopped" \/ pc[Bsp] \in {"report", "halted"}

(* With answers in time an answer is missing from a round only when it is  *)
(* a meltdown and the hardware has raised an NMI, and every CPU but the    *)
(* raising one has stopped then.                                           *)
OnlyLostAcks(c) ==
  hwNmis > 0 /\ \A d \in Cpus \ {c} : handler[d] = "stopped"

TimelyCount ==
  mode.timely =>
  /\ \A c \in Cpus : pc[c] = "clear" /\ NrAck[c] # Cardinality(Cpus) - 1 =>
                     why[c] = "MELTDOWN" /\ OnlyLostAcks(c)
  /\ bMeltdownCatastrophic =>
       /\ hwNmis > 0
       /\ \A c \in Cpus : pc[c] \in {"report", "halted"} => OnlyLostAcks(c)

Calm == hwNmis = 0 /\ mode.timely

(* With answers in time and no hardware NMI, NMIs are pending or handled   *)
(* only while they are polled for, and only a meltdown stops a CPU.        *)
NmisAreOfTheRound ==
  \A d \in Cpus :
    /\ pending[d] \/ handler[d] \in {"ack", "ackStop"} =>
         /\ \E c \in Cpus \ {d} : pc[c] = "poll"
         /\ pending[d] => handler[d] = "none"
         /\ handler[d] = "ack" => Reason = "HARMLESS_TEST"
         /\ handler[d] = "ackStop" => Reason = "MELTDOWN"
    /\ handler[d] \in {"ackStop", "stopped"} =>
         \E c \in Cpus : \/ pc[c] \in {"poll", "clear"} /\ why[c] = "MELTDOWN"
                         \/ pc[c] \in {"report", "halted"}

AcksAreOfTheRound ==
  /\ \A c \in Cpus : pc[c] = "selfAck" => Ack = {} /\ loaded[c] = {}
  /\ nmiLock = NoCpu => Ack = {}
  /\ \A c \in Cpus : pc[c] = "clear" => Ack = Cpus

AcknowledgedHaveStopped ==
  /\ \A c \in Cpus : pc[c] \in {"poll", "clear"} =>
       \A d \in Ack \ {c} : /\ ~pending[d] /\ handler[d] \in {"none", "stopped"}
                            /\ Reason = "MELTDOWN" => handler[d] = "stopped"
  /\ \A c \in Cpus : pc[c] \in {"report", "halted"} => \A d \in Cpus \ {c} : Stopped(d)

CalmRound == Calm => NmisAreOfTheRound /\ AcksAreOfTheRound /\ AcknowledgedHaveStopped

NmiIInv ==
  /\ ModeOK /\ TypeOK /\ LockIsHeld /\ ReasonIsGiven
  /\ NobodyIsForgotten /\ TestIsOfBsp /\ NoTestAfterMeltdown
  /\ TimelyCount /\ CalmRound
----------------------------------------------------------------------------
(* Counting CPUs *)

LEMMA OnlyNmiCpu ==
  ASSUME NmiAssumption, NEW c \in Cpus, ~(Cardinality(Cpus) > 1)
  PROVE  Cpus = {c}
  <1>1. IsFiniteSet({c}) /\ Cardinality({c}) = 1
    BY FS_Singleton
  <1>2. IsFiniteSet(Cpus) /\ Cardinality(Cpus) \in Nat /\ {c} \subseteq Cpus
    BY FS_CardinalityType DEF NmiAssumption
  <1>3. Cardinality({c}) <= Cardinality(Cpus) /\ (Cardinality({c}) = Cardinality(Cpus) => {c} = Cpus)
    BY <1>2, FS_Subset
  <1> QED BY <1>1, <1>2, <1>3

(* The poll that ends has counted at least the raising CPU.  With answers  *)
(* in time it has counted all, unless it is that of a meltdown after a     *)
(* hardware NMI: then the others have stopped.                             *)
LEMMA AnswersCounted ==
  ASSUME NmiAssumption, NmiIInv, NEW c \in Cpus, PollEnd(c)
  PROVE  /\ Cardinality(Ack) - 1 \in Nat /\ Cardinality(Cpus) \in Nat
         /\ mode.timely /\ Ack # Cpus => why[c] = "MELTDOWN" /\ OnlyLostAcks(c)
  <1>1. c \in Ack /\ Ack \subseteq Cpus
    BY DEF NmiIInv, PollEnd, Goto, NobodyIsForgotten, TypeOK
  <1>2. IsFiniteSet(Ack) /\ Cardinality(Ack) \in Nat /\ Cardinality(Cpus) \in Nat
    BY <1>1, FS_Subset, FS_CardinalityType DEF NmiAssumption
  <1>3. Cardinality(Ack) # 0
    BY <1>1, <1>2, FS_EmptySet
  <1>4. ASSUME mode.timely, Ack # Cpus PROVE why[c] = "MELTDOWN" /\ OnlyLostAcks(c)
    <2>1. pc[c] = "poll" /\ handler[c] = "none" /\ Answered(c) /\ nmiLock = c /\ Reason = why[c]
      BY <1>4 DEF NmiIInv, PollEnd, Goto, ExpectAck, LockIsHeld
    <2>2. PICK d \in Cpus \ {c} : d \notin Ack
      BY <1>1, <1>4
    <2>3. handler[d] = "stopped"
      BY <2>1, <2>2 DEF NmiIInv, NobodyIsForgotten, Answered
    <2>4. why[c] = "MELTDOWN"
      BY <1>4, <2>1, <2>3 DEF NmiIInv, NoTestAfterMeltdown, TestIsOfBsp, ReasonIsGiven, TypeOK, Reasons
    <2>5. \A e \in Cpus \ {c} : handler[e] = "stopped"
      BY <2>1, <2>4 DEF NmiIInv, NobodyIsForgotten, Answered
    <2>6. ASSUME Calm PROVE FALSE
      BY <2>1, <2>2, <2>3, <2>6 DEF NmiIInv, CalmRound, NmisAreOfTheRound, NobodyIsForgotten
    <2> QED BY <1>4, <2>4, <2>5, <2>6 DEF OnlyLostAcks, Calm, NmiIInv, TypeOK, ModeOK
  <1> QED BY <1>2, <1>3, <1>4
----------------------------------------------------------------------------
(* The steps *)

LEMMA PrintBeginStep == ASSUME NmiAssumption, NmiIInv, NEW c \in Cpus, PrintBegin(c) PROVE NmiIInv'
  <1> USE DEF NmiIInv, PrintBegin, Goto, nmiInfo, locks, state, raise, cpuNmi, NmiAssumption
  <1>1. ModeOK'
    BY DEF ModeOK
  <1>2. TypeOK'
    BY DEF TypeOK
  <1>3. LockIsHeld'
    BY DEF LockIsHeld, TypeOK
  <1>4. ReasonIsGiven'
    BY DEF ReasonIsGiven, TypeOK
  <1>5. NobodyIsForgotten'
    BY DEF NobodyIsForgotten, LockIsHeld, TypeOK
  <1>6. TestIsOfBsp'
    BY DEF TestIsOfBsp, LockIsHeld, TypeOK
  <1>7. NoTestAfterMeltdown'
    BY DEF NoTestAfterMeltdown, LockIsHeld, TypeOK
  <1>8. TimelyCount'
    BY DEF TimelyCount, OnlyLostAcks, LockIsHeld, TypeOK
  <1>9. CalmRound'
    <2> SUFFICES ASSUME Calm' PROVE NmisAreOfTheRound' /\ AcksAreOfTheRound' /\ AcknowledgedHaveStopped'
      BY DEF CalmRound
    <2>0. Calm /\ NmisAreOfTheRound /\ AcksAreOfTheRound /\ AcknowledgedHaveStopped
      BY DEF CalmRound, Calm
    <2>1. NmisAreOfTheRound'
      BY <2>0 DEF NmisAreOfTheRound, LockIsHeld, TypeOK
    <2>2. AcksAreOfTheRound'
      BY <2>0 DEF AcksAreOfTheRound, LockIsHeld, TypeOK
    <2>3. AcknowledgedHaveStopped'
      BY <2>0 DEF AcknowledgedHaveStopped, Stopped, LockIsHeld, TypeOK
    <2> QED BY <2>1, <2>2, <2>3
  <1> QED BY <1>1, <1>2, <1>3, <1>4, <1>5, <1>6, <1>7, <1>8, <1>9

LEMMA PrintEndStep == ASSUME NmiAssumption, NmiIInv, NEW c \in Cpus, PrintEnd(c) PROVE NmiIInv'
  <1> USE DEF NmiIInv, PrintEnd, Goto, nmiInfo, locks, state, raise, cpuNmi, NmiAssumption
  <1>1. ModeOK'
    BY DEF ModeOK
  <1>2. TypeOK'
    BY DEF TypeOK
  <1>3. LockIsHeld'
    BY DEF LockIsHeld, TypeOK
  <1>4. ReasonIsGiven'
    BY DEF ReasonIsGiven, TypeOK
  <1>5. NobodyIsForgotten'
    BY DEF NobodyIsForgotten, LockIsHeld, TypeOK
  <1>6. TestIsOfBsp'
    BY DEF TestIsOfBsp, LockIsHeld, TypeOK
  <1>7. NoTestAfterMeltdown'
    BY DEF NoTestAfterMeltdown, LockIsHeld, TypeOK
  <1>8. TimelyCount'
    BY DEF TimelyCount, OnlyLostAcks, LockIsHeld, TypeOK
  <1>9. CalmRound'
    <2> SUFFICES ASSUME Calm' PROVE NmisAreOfTheRound' /\ AcksAreOfTheRound' /\ AcknowledgedHaveStopped'
      BY DEF CalmRound
    <2>0. Calm /\ NmisAreOfTheRound /\ AcksAreOfTheRound /\ AcknowledgedHaveStopped
      BY DEF CalmRound, Calm
    <2>1. NmisAreOfTheRound'
      BY <2>0 DEF NmisAreOfTheRound, LockIsHeld, TypeOK
    <2>2. AcksAreOfTheRound'
      BY <2>0 DEF AcksAreOfTheRound, LockIsHeld, TypeOK
    <2>3. AcknowledgedHaveStopped'
      BY <2>0 DEF AcknowledgedHaveStopped, Stopped, LockIsHeld, TypeOK
    <2> QED BY <2>1, <2>2, <2>3
  <1> QED BY <1>1, <1>2, <1>3, <1>4, <1>5, <1>6, <1>7, <1>8, <1>9

LEMMA MeltdownCallStep == ASSUME NmiAssumption, NmiIInv, NEW c \in Cpus, MeltdownCall(c) PROVE NmiIInv'
  <1> USE DEF NmiIInv, MeltdownCall, Goto, nmiInfo, locks, state, raise, cpuNmi, NmiAssumption
  <1>1. ModeOK'
    BY DEF ModeOK
  <1>2. TypeOK'
    BY DEF TypeOK
  <1>3. LockIsHeld'
    BY DEF LockIsHeld, TypeOK
  <1>4. ReasonIsGiven'
    BY DEF ReasonIsGiven, TypeOK
  <1>5. NobodyIsForgotten'
    BY DEF NobodyIsForgotten, LockIsHeld, TypeOK
  <1>6. TestIsOfBsp'
    BY DEF TestIsOfBsp, LockIsHeld, TypeOK
  <1>7. NoTestAfterMeltdown'
    BY DEF NoTestAfterMeltdown, LockIsHeld, TypeOK
  <1>8. TimelyCount'
    BY DEF TimelyCount, OnlyLostAcks, LockIsHeld, TypeOK
  <1>9. CalmRound'
    <2> SUFFICES ASSUME Calm' PROVE NmisAreOfTheRound' /\ AcksAreOfTheRound' /\ AcknowledgedHaveStopped'
      BY DEF CalmRound
    <2>0. Calm /\ NmisAreOfTheRound /\ AcksAreOfTheRound /\ AcknowledgedHaveStopped
      BY DEF CalmRound, Calm
    <2>1. NmisAreOfTheRound'
      BY <2>0 DEF NmisAreOfTheRound, LockIsHeld, TypeOK
    <2>2. AcksAreOfTheRound'
      BY <2>0 DEF AcksAreOfTheRound, LockIsHeld, TypeOK
    <2>3. AcknowledgedHaveStopped'
      BY <2>0 DEF AcknowledgedHaveStopped, Stopped, LockIsHeld, TypeOK
    <2> QED BY <2>1, <2>2, <2>3
  <1> QED BY <1>1, <1>2, <1>3, <1>4, <1>5, <1>6, <1>7, <1>8, <1>9

LEMMA MeltdownLockStep == ASSUME NmiAssumption, NmiIInv, NEW c \in Cpus, MeltdownLock(c) PROVE NmiIInv'
  <1> USE DEF NmiIInv, MeltdownLock, Goto, nmiInfo, locks, state, raise, cpuNmi, NmiAssumption
  <1>1. ModeOK'
    BY DEF ModeOK
  <1>2. TypeOK'
    <2>1. pc' \in [Cpus -> {"run", "printing", "meltdown", "raise", "selfAck",
                           "poll", "clear", "report", "halted"}]
      BY DEF TypeOK
    <2>2. why' \in [Cpus -> Reasons]
      BY DEF TypeOK, Reasons
    <2> QED BY <2>1, <2>2 DEF TypeOK
  <1>3. LockIsHeld'
    BY DEF LockIsHeld, TypeOK
  <1>4. ReasonIsGiven'
    BY DEF ReasonIsGiven, TypeOK
  <1>5. NobodyIsForgotten'
    BY DEF NobodyIsForgotten, LockIsHeld, TypeOK
  <1>6. TestIsOfBsp'
    BY DEF TestIsOfBsp, LockIsHeld, TypeOK
  <1>7. NoTestAfterMeltdown'
    BY DEF NoTestAfterMeltdown, LockIsHeld, TypeOK
  <1>8. TimelyCount'
    <2>1. pc'[c] \in {"report", "halted"} => Cpus = {c}
      BY OnlyNmiCpu DEF TypeOK
    <2> QED BY <2>1 DEF TimelyCount, OnlyLostAcks, LockIsHeld, TypeOK
  <1>9. CalmRound'
    <2> SUFFICES ASSUME Calm' PROVE NmisAreOfTheRound' /\ AcksAreOfTheRound' /\ AcknowledgedHaveStopped'
      BY DEF CalmRound
    <2>0. Calm /\ NmisAreOfTheRound /\ AcksAreOfTheRound /\ AcknowledgedHaveStopped
      BY DEF CalmRound, Calm
    <2>1. NmisAreOfTheRound'
      BY <2>0 DEF NmisAreOfTheRound, LockIsHeld, TypeOK
    <2>2. AcksAreOfTheRound'
      BY <2>0 DEF AcksAreOfTheRound, LockIsHeld, TypeOK
    <2>3. AcknowledgedHaveStopped'
      BY <2>0, OnlyNmiCpu DEF AcknowledgedHaveStopped, Stopped, LockIsHeld, TypeOK
    <2> QED BY <2>1, <2>2, <2>3
  <1> QED BY <1>1, <1>2, <1>3, <1>4, <1>5, <1>6, <1>7, <1>8, <1>9

LEMMA RaiseLockStep == ASSUME NmiAssumption, NmiIInv, NEW c \in Cpus, RaiseLock(c) PROVE NmiIInv'
  <1> USE DEF NmiIInv, RaiseLock, Goto, nmiInfo, locks, state, raise, cpuNmi, NmiAssumption
  <1>1. ModeOK'
    BY DEF ModeOK
  <1>2. TypeOK'
    BY DEF TypeOK
  <1>3. LockIsHeld'
    BY DEF LockIsHeld, TypeOK
  <1>4. ReasonIsGiven'
    BY DEF ReasonIsGiven, TypeOK
  <1>5. NobodyIsForgotten'
    BY DEF NobodyIsForgotten, LockIsHeld, TypeOK
  <1>6. TestIsOfBsp'
    BY DEF TestIsOfBsp, LockIsHeld, TypeOK
  <1>7. NoTestAfterMeltdown'
    BY DEF NoTestAfterMeltdown, LockIsHeld, TypeOK
  <1>8. TimelyCount'
    BY DEF TimelyCount, OnlyLostAcks, LockIsHeld, TypeOK
  <1>9. CalmRound'
    <2> SUFFICES ASSUME Calm' PROVE NmisAreOfTheRound' /\ AcksAreOfTheRound' /\ AcknowledgedHaveStopped'
      BY DEF CalmRound
    <2>0. Calm /\ NmisAreOfTheRound /\ AcksAreOfTheRound /\ AcknowledgedHaveStopped
      BY DEF CalmRound, Calm
    <2>1. NmisAreOfTheRound'
      BY <2>0 DEF NmisAreOfTheRound, LockIsHeld, TypeOK
    <2>2. AcksAreOfTheRound'
      BY <2>0 DEF AcksAreOfTheRound, LockIsHeld, TypeOK
    <2>3. AcknowledgedHaveStopped'
      BY <2>0 DEF AcknowledgedHaveStopped, Stopped, LockIsHeld, TypeOK
    <2> QED BY <2>1, <2>2, <2>3
  <1> QED BY <1>1, <1>2, <1>3, <1>4, <1>5, <1>6, <1>7, <1>8, <1>9

LEMMA IssueIpiStep == ASSUME NmiAssumption, NmiIInv, NEW c \in Cpus, IssueIpi(c) PROVE NmiIInv'
  <1> USE DEF NmiIInv, IssueIpi, Goto, nmiInfo, locks, state, raise, cpuNmi, NmiAssumption
  <1>1. ModeOK'
    BY DEF ModeOK
  <1>2. TypeOK'
    BY DEF TypeOK
  <1>3. LockIsHeld'
    BY DEF LockIsHeld, TypeOK
  <1>4. ReasonIsGiven'
    BY DEF ReasonIsGiven, TypeOK
  <1>5. NobodyIsForgotten'
    <2>1. c \in Ack' /\ \A d \in Cpus \ {c} : pending'[d]
      OBVIOUS
    <2>2. \A e \in Cpus : pc'[e] = "poll" => e = c
      BY DEF LockIsHeld, TypeOK
    <2> QED BY <2>1, <2>2 DEF NobodyIsForgotten
  <1>6. TestIsOfBsp'
    BY DEF TestIsOfBsp, LockIsHeld, TypeOK
  <1>7. NoTestAfterMeltdown'
    BY DEF NoTestAfterMeltdown, LockIsHeld, TypeOK
  <1>8. TimelyCount'
    BY DEF TimelyCount, OnlyLostAcks, LockIsHeld, TypeOK
  <1>9. CalmRound'
    <2> SUFFICES ASSUME Calm' PROVE NmisAreOfTheRound' /\ AcksAreOfTheRound' /\ AcknowledgedHaveStopped'
      BY DEF CalmRound
    <2>0. Calm /\ NmisAreOfTheRound /\ AcksAreOfTheRound /\ AcknowledgedHaveStopped
      BY DEF CalmRound, Calm
    <2>1. NmisAreOfTheRound'
      <3>1. \A e \in Cpus : pc[e] \notin {"poll", "clear"}
        BY DEF LockIsHeld
      <3>2. \A d \in Cpus : ~pending[d] /\ handler[d] \notin {"ack", "ackStop"}
        BY <2>0, <3>1 DEF NmisAreOfTheRound
      <3>3. ASSUME NEW d \in Cpus, handler[d] = "stopped" PROVE FALSE
        <4>1. PICK e \in Cpus : pc[e] \in {"report", "halted"}
          BY <2>0, <3>1, <3>3 DEF NmisAreOfTheRound
        <4>2. mdLock = e /\ c # e
          BY <4>1 DEF ReasonIsGiven
        <4>3. why[c] = "HARMLESS_TEST"
          BY <4>2 DEF ReasonIsGiven, TypeOK, Reasons
        <4>4. Stopped(c)
          BY <2>0, <4>1, <4>2 DEF AcknowledgedHaveStopped
        <4> QED BY <4>4 DEF Stopped
      <3>4. \A d \in Cpus : handler'[d] = "none"
        BY <3>2, <3>3 DEF TypeOK
      <3>5. pc'[c] = "poll" /\ \A d \in Cpus : pending'[d] => d # c
        BY <3>2 DEF TypeOK
      <3> QED BY <3>4, <3>5 DEF NmisAreOfTheRound
    <2>2. AcksAreOfTheRound'
      BY <2>0 DEF AcksAreOfTheRound, LockIsHeld, TypeOK
    <2>3. AcknowledgedHaveStopped'
      <3>1. Ack' = {c}
        BY <2>0 DEF AcksAreOfTheRound
      <3> QED BY <2>0, <3>1 DEF AcknowledgedHaveStopped, Stopped, LockIsHeld, TypeOK
    <2> QED BY <2>1, <2>2, <2>3
  <1> QED BY <1>1, <1>2, <1>3, <1>4, <1>5, <1>6, <1>7, <1>8, <1>9

LEMMA NmiPollStep == ASSUME NmiAssumption, NmiIInv, NEW c \in Cpus, Poll(c) PROVE NmiIInv'
  <1> USE DEF NmiIInv, Poll, Goto, nmiInfo, locks, state, raise, cpuNmi, NmiAssumption
  <1>1. ModeOK'
    BY DEF ModeOK
  <1>2. TypeOK'
    BY DEF TypeOK
  <1>3. LockIsHeld'
    BY DEF LockIsHeld, TypeOK
  <1>4. ReasonIsGiven'
    BY DEF ReasonIsGiven, TypeOK
  <1>5. NobodyIsForgotten'
    BY DEF NobodyIsForgotten, LockIsHeld, TypeOK
  <1>6. TestIsOfBsp'
    BY DEF TestIsOfBsp, LockIsHeld, TypeOK
  <1>7. NoTestAfterMeltdown'
    BY DEF NoTestAfterMeltdown, LockIsHeld, TypeOK
  <1>8. TimelyCount'
    BY DEF TimelyCount, OnlyLostAcks, LockIsHeld, TypeOK
  <1>9. CalmRound'
    <2> SUFFICES ASSUME Calm' PROVE NmisAreOfTheRound' /\ AcksAreOfTheRound' /\ AcknowledgedHaveStopped'
      BY DEF CalmRound
    <2>0. Calm /\ NmisAreOfTheRound /\ AcksAreOfTheRound /\ AcknowledgedHaveStopped
      BY DEF CalmRound, Calm
    <2>1. NmisAreOfTheRound'
      BY <2>0 DEF NmisAreOfTheRound, LockIsHeld, TypeOK
    <2>2. AcksAreOfTheRound'
      BY <2>0 DEF AcksAreOfTheRound, LockIsHeld, TypeOK
    <2>3. AcknowledgedHaveStopped'
      BY <2>0 DEF AcknowledgedHaveStopped, Stopped, LockIsHeld, TypeOK
    <2> QED BY <2>1, <2>2, <2>3
  <1> QED BY <1>1, <1>2, <1>3, <1>4, <1>5, <1>6, <1>7, <1>8, <1>9

LEMMA PollEndStep == ASSUME NmiAssumption, NmiIInv, NEW c \in Cpus, PollEnd(c) PROVE NmiIInv'
  <1> USE DEF NmiIInv, PollEnd, Goto, nmiInfo, locks, state, raise, cpuNmi, NmiAssumption
  <1>1. ModeOK'
    BY DEF ModeOK
  <1>2. TypeOK'
    <2>1. polls' \in [Cpus -> 0 .. MaxPolls]
      BY DEF TypeOK
    <2>2. NrAck' \in [Cpus -> Nat]
      BY AnswersCounted DEF TypeOK
    <2> QED BY <2>1, <2>2 DEF TypeOK
  <1>3. LockIsHeld'
    BY DEF LockIsHeld, TypeOK
  <1>4. ReasonIsGiven'
    BY DEF ReasonIsGiven, TypeOK
  <1>5. NobodyIsForgotten'
    BY DEF NobodyIsForgotten, LockIsHeld, TypeOK
  <1>6. TestIsOfBsp'
    BY DEF TestIsOfBsp, LockIsHeld, TypeOK
  <1>7. NoTestAfterMeltdown'
    <2> SUFFICES ASSUME mode.timely PROVE NoTestAfterMeltdown'
      BY DEF NoTestAfterMeltdown
    <2>1. ASSUME c # Bsp PROVE handler[Bsp] = "stopped"
      <3>1. CASE Ack = Cpus
        BY <2>1, <3>1 DEF TestIsOfBsp, LockIsHeld
      <3>2. CASE Ack # Cpus
        BY <2>1, <3>2, AnswersCounted DEF OnlyLostAcks
      <3> QED BY <3>1, <3>2
    <2> QED BY <2>1 DEF NoTestAfterMeltdown, TypeOK
  <1>8. TimelyCount'
    <2>1. mode.timely /\ NrAck'[c] # Cardinality(Cpus) - 1 => why[c] = "MELTDOWN" /\ OnlyLostAcks(c)
      BY AnswersCounted DEF TypeOK
    <2>2. \A e \in Cpus : OnlyLostAcks(e)' = OnlyLostAcks(e)
      BY DEF OnlyLostAcks
    <2>3. \A e \in Cpus \ {c} : pc'[e] = pc[e] /\ NrAck'[e] = NrAck[e]
      BY DEF TypeOK
    <2> HIDE DEF PollEnd
    <2>4. pc'[c] = "clear" /\ UNCHANGED <<mode, why, hwNmis, bMeltdownCatastrophic>>
      BY DEF PollEnd, TypeOK
    <2> QED BY <2>1, <2>2, <2>3, <2>4 DEF TimelyCount
  <1>9. CalmRound'
    <2> SUFFICES ASSUME Calm' PROVE NmisAreOfTheRound' /\ AcksAreOfTheRound' /\ AcknowledgedHaveStopped'
      BY DEF CalmRound
    <2>0. Calm /\ NmisAreOfTheRound /\ AcksAreOfTheRound /\ AcknowledgedHaveStopped
      BY DEF CalmRound, Calm
    <2>4. Ack = Cpus
      <3>1. ~OnlyLostAcks(c) /\ mode.timely
        BY <2>0 DEF Calm, OnlyLostAcks
      <3>2. mode.timely /\ Ack # Cpus => OnlyLostAcks(c)
        BY AnswersCounted
      <3> QED BY <3>1, <3>2
    <2>1. NmisAreOfTheRound'
      <3>1. Ack = Cpus
        BY <2>4
      <3>2. \A d \in Cpus : ~pending[d] /\ handler[d] \notin {"ack", "ackStop"}
        BY <2>0, <3>1 DEF NmisAreOfTheRound, AcknowledgedHaveStopped, LockIsHeld
      <3>3. \A d \in Cpus : handler[d] = "stopped" =>
              \E e \in Cpus : \/ pc'[e] \in {"poll", "clear"} /\ why'[e] = "MELTDOWN"
                              \/ pc'[e] \in {"report", "halted"}
        BY <2>0 DEF NmisAreOfTheRound, TypeOK
      <3> QED BY <3>2, <3>3 DEF NmisAreOfTheRound
    <2>2. AcksAreOfTheRound'
      <3>1. Ack = Cpus
        BY <2>4
      <3> QED BY <2>0, <3>1 DEF AcksAreOfTheRound, LockIsHeld, TypeOK
    <2>3. AcknowledgedHaveStopped'
      BY <2>0 DEF AcknowledgedHaveStopped, Stopped, LockIsHeld, TypeOK
    <2> QED BY <2>1, <2>2, <2>3
  <1> QED BY <1>1, <1>2, <1>3, <1>4, <1>5, <1>6, <1>7, <1>8, <1>9

LEMMA RaiseReturnStep == ASSUME NmiAssumption, NmiIInv, NEW c \in Cpus, RaiseReturn(c) PROVE NmiIInv'
  <1> USE DEF NmiIInv, RaiseReturn, Goto, nmiInfo, locks, state, raise, cpuNmi, NmiAssumption
  <1>1. ModeOK'
    BY DEF ModeOK
  <1>2. TypeOK'
    <2>1. pc' \in [Cpus -> {"run", "printing", "meltdown", "raise", "selfAck",
                           "poll", "clear", "report", "halted"}]
      BY DEF TypeOK
    <2>2. why' \in [Cpus -> Reasons] /\ Reason' \in Reasons
      BY DEF TypeOK, Reasons
    <2>3. bMeltdownCatastrophic' \in BOOLEAN
      <3>1. CASE why[c] = "MELTDOWN"
        BY <3>1
      <3>2. CASE why[c] # "MELTDOWN"
        BY <3>2 DEF TypeOK
      <3> QED BY <3>1, <3>2
    <2>4. NrAck' \in [Cpus -> Nat]
      BY DEF TypeOK
    <2> QED BY <2>1, <2>2, <2>3, <2>4 DEF TypeOK
  <1>3. LockIsHeld'
    BY DEF LockIsHeld, TypeOK
  <1>4. ReasonIsGiven'
    BY DEF ReasonIsGiven, TypeOK
  <1>5. NobodyIsForgotten'
    BY DEF NobodyIsForgotten, LockIsHeld, TypeOK
  <1>6. TestIsOfBsp'
    BY DEF TestIsOfBsp, LockIsHeld, TypeOK
  <1>7. NoTestAfterMeltdown'
    BY DEF NoTestAfterMeltdown, LockIsHeld, TypeOK
  <1>8. TimelyCount'
    <2> SUFFICES ASSUME mode.timely PROVE TimelyCount'
      BY DEF TimelyCount
    <2>1. \A e \in Cpus : OnlyLostAcks(e)' = OnlyLostAcks(e)
      BY DEF OnlyLostAcks
    <2>2. \A e \in Cpus : pc'[e] # "clear"
      BY DEF LockIsHeld, TypeOK
    <2>3. CASE why[c] = "MELTDOWN"
      <3>1. bMeltdownCatastrophic' => OnlyLostAcks(c)
        BY <2>3 DEF TimelyCount
      <3>2. \A e \in Cpus : pc'[e] \in {"report", "halted"} => e = c
        BY <2>3 DEF ReasonIsGiven, TypeOK
      <3> QED BY <2>1, <2>2, <3>1, <3>2 DEF TimelyCount, OnlyLostAcks
    <2>4. CASE why[c] # "MELTDOWN"
      <3>1. bMeltdownCatastrophic' = bMeltdownCatastrophic /\ UNCHANGED hwNmis
        BY <2>4
      <3>2. \A e \in Cpus : pc'[e] \in {"report", "halted"} => pc[e] \in {"report", "halted"}
        BY <2>4 DEF TypeOK
      <3> QED BY <2>1, <2>2, <3>1, <3>2 DEF TimelyCount
    <2> QED BY <2>3, <2>4
  <1>9. CalmRound'
    <2> SUFFICES ASSUME Calm' PROVE NmisAreOfTheRound' /\ AcksAreOfTheRound' /\ AcknowledgedHaveStopped'
      BY DEF CalmRound
    <2>0. Calm /\ NmisAreOfTheRound /\ AcksAreOfTheRound /\ AcknowledgedHaveStopped
      BY DEF CalmRound, Calm
    <2>1. NmisAreOfTheRound'
      BY <2>0 DEF NmisAreOfTheRound, LockIsHeld, TypeOK
    <2>2. AcksAreOfTheRound'
      BY <2>0 DEF AcksAreOfTheRound, LockIsHeld, TypeOK
    <2>3. AcknowledgedHaveStopped'
      <3>1. ASSUME why[c] = "MELTDOWN", NEW d \in Cpus \ {c} PROVE handler[d] = "stopped"
        BY <2>0, <3>1 DEF AcksAreOfTheRound, AcknowledgedHaveStopped, LockIsHeld
      <3>2. \A e \in Cpus : pc'[e] \notin {"poll", "clear"}
        BY DEF LockIsHeld, TypeOK
      <3>3. \A e \in Cpus : pc'[e] \in {"report", "halted"} =>
              pc[e] \in {"report", "halted"} \/ (e = c /\ why[c] = "MELTDOWN")
        <4>1. why[c] = "MELTDOWN" \/ pc'[c] \notin {"report", "halted"}
          BY DEF TypeOK
        <4>2. \A e \in Cpus \ {c} : pc'[e] = pc[e]
          BY DEF TypeOK
        <4> QED BY <4>1, <4>2
      <3>4. \A d \in Cpus : Stopped(d) => Stopped(d)'
        BY DEF Stopped, TypeOK
      <3> QED BY <2>0, <3>1, <3>2, <3>3, <3>4 DEF AcknowledgedHaveStopped, Stopped
    <2> QED BY <2>1, <2>2, <2>3
  <1> QED BY <1>1, <1>2, <1>3, <1>4, <1>5, <1>6, <1>7, <1>8, <1>9

LEMMA ReportStep == ASSUME NmiAssumption, NmiIInv, NEW c \in Cpus, Report(c) PROVE NmiIInv'
  <1> USE DEF NmiIInv, Report, Goto, nmiInfo, locks, state, raise, cpuNmi, NmiAssumption
  <1>1. ModeOK'
    BY DEF ModeOK
  <1>2. TypeOK'
    BY DEF TypeOK
  <1>3. LockIsHeld'
    BY DEF LockIsHeld, TypeOK
  <1>4. ReasonIsGiven'
    BY DEF ReasonIsGiven, TypeOK
  <1>5. NobodyIsForgotten'
    BY DEF NobodyIsForgotten, LockIsHeld, TypeOK
  <1>6. TestIsOfBsp'
    BY DEF TestIsOfBsp, LockIsHeld, TypeOK
  <1>7. NoTestAfterMeltdown'
    BY DEF NoTestAfterMeltdown, LockIsHeld, TypeOK
  <1>8. TimelyCount'
    BY DEF TimelyCount, OnlyLostAcks, LockIsHeld, TypeOK
  <1>9. CalmRound'
    <2> SUFFICES ASSUME Calm' PROVE NmisAreOfTheRound' /\ AcksAreOfTheRound' /\ AcknowledgedHaveStopped'
      BY DEF CalmRound
    <2>0. Calm /\ NmisAreOfTheRound /\ AcksAreOfTheRound /\ AcknowledgedHaveStopped
      BY DEF CalmRound, Calm
    <2>1. NmisAreOfTheRound'
      BY <2>0 DEF NmisAreOfTheRound, LockIsHeld, TypeOK
    <2>2. AcksAreOfTheRound'
      BY <2>0 DEF AcksAreOfTheRound, LockIsHeld, TypeOK
    <2>3. AcknowledgedHaveStopped'
      BY <2>0 DEF AcknowledgedHaveStopped, Stopped, LockIsHeld, TypeOK
    <2> QED BY <2>1, <2>2, <2>3
  <1> QED BY <1>1, <1>2, <1>3, <1>4, <1>5, <1>6, <1>7, <1>8, <1>9

LEMMA HandlerEnterStep == ASSUME NmiAssumption, NmiIInv, NEW c \in Cpus, HandlerEnter(c) PROVE NmiIInv'
  <1> USE DEF NmiIInv, HandlerEnter, Goto, nmiInfo, locks, state, raise, cpuNmi, NmiAssumption
  <1>0. /\ handler'[c] \in {"none", "ack", "ackStop"} /\ ~pending'[c]
        /\ handler'[c] = "none" <=> Reason = "NONE"
        /\ handler'[c] = "ack" <=> Reason = "HARMLESS_TEST"
        /\ handler'[c] = "ackStop" <=> Reason = "MELTDOWN"
        /\ \A d \in Cpus \ {c} : handler'[d] = handler[d] /\ pending'[d] = pending[d]
    BY DEF TypeOK, Reasons
  <1>1. ModeOK'
    BY DEF ModeOK
  <1>2. TypeOK'
    <2>1. handler' \in [Cpus -> {"none", "ack", "ackStop", "stopped"}]
      BY DEF TypeOK, Reasons
    <2>2. pending' \in [Cpus -> BOOLEAN]
      BY DEF TypeOK
    <2> QED BY <2>1, <2>2 DEF TypeOK
  <1>3. LockIsHeld'
    BY DEF LockIsHeld, TypeOK
  <1>4. ReasonIsGiven'
    BY DEF ReasonIsGiven, TypeOK
  <1>5. NobodyIsForgotten'
    <2>1. ASSUME NEW e \in Cpus, pc[e] = "poll" PROVE handler'[c] \in {"ack", "ackStop"}
      BY <2>1 DEF LockIsHeld, ReasonIsGiven, TypeOK, Reasons
    <2>2. UNCHANGED <<pc, Ack, Reason>>
      OBVIOUS
    <2> HIDE DEF HandlerEnter
    <2> QED BY <1>0, <2>1, <2>2 DEF NobodyIsForgotten
  <1>6. TestIsOfBsp'
    <2>1. Reason = "HARMLESS_TEST" => nmiLock = Bsp
      BY DEF LockIsHeld, TestIsOfBsp, TypeOK
    <2>2. handler[Bsp] = "stopped" => handler'[Bsp] = "stopped"
      BY <1>0
    <2> QED BY <1>0, <2>1, <2>2 DEF TestIsOfBsp
  <1>7. NoTestAfterMeltdown'
    <2>1. handler[Bsp] = "stopped" => handler'[Bsp] = "stopped"
      BY <1>0
    <2> QED BY <1>0, <2>1 DEF NoTestAfterMeltdown
  <1>8. TimelyCount'
    BY DEF TimelyCount, OnlyLostAcks, LockIsHeld, TypeOK
  <1>9. CalmRound'
    <2> SUFFICES ASSUME Calm' PROVE NmisAreOfTheRound' /\ AcksAreOfTheRound' /\ AcknowledgedHaveStopped'
      BY DEF CalmRound
    <2>0. Calm /\ NmisAreOfTheRound /\ AcksAreOfTheRound /\ AcknowledgedHaveStopped
      BY DEF CalmRound, Calm
    <2>1. NmisAreOfTheRound'
      <3>1. PICK e \in Cpus \ {c} : pc[e] = "poll"
        BY <2>0 DEF NmisAreOfTheRound
      <3>2. Reason = why[e]
        BY <3>1 DEF LockIsHeld
      <3>3. UNCHANGED <<pc, why, Reason>>
        OBVIOUS
      <3> HIDE DEF HandlerEnter
      <3>4. ASSUME NEW d \in Cpus, pending'[d] \/ handler'[d] \in {"ack", "ackStop"}
            PROVE  /\ \E b \in Cpus \ {d} : pc'[b] = "poll"
                   /\ pending'[d] => handler'[d] = "none"
                   /\ handler'[d] = "ack" => Reason' = "HARMLESS_TEST"
                   /\ handler'[d] = "ackStop" => Reason' = "MELTDOWN"
        BY <1>0, <2>0, <3>1, <3>3, <3>4 DEF NmisAreOfTheRound
      <3>5. ASSUME NEW d \in Cpus, handler'[d] \in {"ackStop", "stopped"}
            PROVE  \E b \in Cpus : \/ pc'[b] \in {"poll", "clear"} /\ why'[b] = "MELTDOWN"
                                   \/ pc'[b] \in {"report", "halted"}
        BY <1>0, <2>0, <3>1, <3>2, <3>3, <3>5 DEF NmisAreOfTheRound
      <3> QED BY <3>4, <3>5 DEF NmisAreOfTheRound
    <2>2. AcksAreOfTheRound'
      BY <2>0 DEF AcksAreOfTheRound, LockIsHeld, TypeOK
    <2>3. AcknowledgedHaveStopped'
      BY <2>0 DEF AcknowledgedHaveStopped, Stopped, LockIsHeld, TypeOK
    <2> QED BY <2>1, <2>2, <2>3
  <1> QED BY <1>1, <1>2, <1>3, <1>4, <1>5, <1>6, <1>7, <1>8, <1>9

LEMMA HandlerAckStep == ASSUME NmiAssumption, NmiIInv, NEW c \in Cpus, HandlerAck(c) PROVE NmiIInv'
  <1> USE DEF NmiIInv, HandlerAck, Goto, nmiInfo, locks, state, raise, cpuNmi, NmiAssumption
  <1>1. ModeOK'
    BY DEF ModeOK
  <1>2. TypeOK'
    BY DEF TypeOK
  <1>3. LockIsHeld'
    BY DEF LockIsHeld, TypeOK
  <1>4. ReasonIsGiven'
    BY DEF ReasonIsGiven, TypeOK
  <1>5. NobodyIsForgotten'
    BY DEF NobodyIsForgotten, LockIsHeld, TypeOK
  <1>6. TestIsOfBsp'
    BY DEF TestIsOfBsp, LockIsHeld, TypeOK
  <1>7. NoTestAfterMeltdown'
    BY DEF NoTestAfterMeltdown, LockIsHeld, TypeOK
  <1>8. TimelyCount'
    BY DEF TimelyCount, OnlyLostAcks, LockIsHeld, TypeOK
  <1>9. CalmRound'
    <2> SUFFICES ASSUME Calm' PROVE NmisAreOfTheRound' /\ AcksAreOfTheRound' /\ AcknowledgedHaveStopped'
      BY DEF CalmRound
    <2>0. Calm /\ NmisAreOfTheRound /\ AcksAreOfTheRound /\ AcknowledgedHaveStopped
      BY DEF CalmRound, Calm
    <2>1. NmisAreOfTheRound'
      BY <2>0 DEF NmisAreOfTheRound, LockIsHeld, TypeOK
    <2>2. AcksAreOfTheRound'
      <3>1. PICK e \in Cpus \ {c} : pc[e] = "poll"
        BY <2>0 DEF NmisAreOfTheRound
      <3>2. nmiLock = e /\ \A d \in Cpus : pc[d] \in {"selfAck", "clear"} => d = e
        BY <3>1 DEF LockIsHeld
      <3> QED BY <3>1, <3>2 DEF AcksAreOfTheRound, NmiAssumption
    <2>3. AcknowledgedHaveStopped'
      <3>1. /\ ~pending[c] /\ handler'[c] \in {"none", "stopped"}
            /\ Reason = "MELTDOWN" => handler'[c] = "stopped"
        BY <2>0 DEF NmisAreOfTheRound, TypeOK
      <3>2. \A d \in Cpus \ {c} : handler'[d] = handler[d]
        BY DEF TypeOK
      <3>3. \A d \in Cpus : Stopped(d) => Stopped(d)'
        BY DEF Stopped, TypeOK
      <3> QED BY <2>0, <3>1, <3>2, <3>3 DEF AcknowledgedHaveStopped, TypeOK
    <2> QED BY <2>1, <2>2, <2>3
  <1> QED BY <1>1, <1>2, <1>3, <1>4, <1>5, <1>6, <1>7, <1>8, <1>9

LEMMA HardwareNmiStep == ASSUME NmiAssumption, NmiIInv, NEW c \in Cpus, HardwareNmi(c) PROVE NmiIInv'
  <1> USE DEF NmiIInv, HardwareNmi, Goto, nmiInfo, locks, state, raise, cpuNmi, NmiAssumption
  <1>1. ModeOK'
    BY DEF ModeOK
  <1>2. TypeOK'
    <2>1. hwNmis' \in 0 .. mode.hwNmis
      BY DEF TypeOK, ModeOK
    <2>2. pending' \in [Cpus -> BOOLEAN]
      BY DEF TypeOK
    <2> QED BY <2>1, <2>2 DEF TypeOK
  <1>3. LockIsHeld'
    BY DEF LockIsHeld, TypeOK
  <1>4. ReasonIsGiven'
    BY DEF ReasonIsGiven, TypeOK
  <1>5. NobodyIsForgotten'
    BY DEF NobodyIsForgotten, LockIsHeld, TypeOK
  <1>6. TestIsOfBsp'
    BY DEF TestIsOfBsp, LockIsHeld, TypeOK
  <1>7. NoTestAfterMeltdown'
    BY DEF NoTestAfterMeltdown, LockIsHeld, TypeOK
  <1>8. TimelyCount'
    BY DEF TimelyCount, OnlyLostAcks, LockIsHeld, TypeOK
  <1>9. CalmRound'
    BY DEF CalmRound, Calm, TypeOK
  <1> QED BY <1>1, <1>2, <1>3, <1>4, <1>5, <1>6, <1>7, <1>8, <1>9

LEMMA HarmlessTestStep == ASSUME NmiAssumption, NmiIInv, HarmlessTest PROVE NmiIInv'
  <1> USE DEF NmiIInv, HarmlessTest, Goto, nmiInfo, locks, state, raise, cpuNmi, NmiAssumption
  <1>1. ModeOK'
    BY DEF ModeOK
  <1>2. TypeOK'
    <2>1. pc' \in [Cpus -> {"run", "printing", "meltdown", "raise", "selfAck",
                           "poll", "clear", "report", "halted"}]
      BY DEF TypeOK
    <2>2. why' \in [Cpus -> Reasons]
      BY DEF TypeOK, Reasons
    <2> QED BY <2>1, <2>2 DEF TypeOK
  <1>3. LockIsHeld'
    BY DEF LockIsHeld, TypeOK
  <1>4. ReasonIsGiven'
    BY DEF ReasonIsGiven, TypeOK
  <1>5. NobodyIsForgotten'
    BY DEF NobodyIsForgotten, LockIsHeld, TypeOK
  <1>6. TestIsOfBsp'
    BY DEF TestIsOfBsp, LockIsHeld, TypeOK
  <1>7. NoTestAfterMeltdown'
    BY DEF NoTestAfterMeltdown, LockIsHeld, TypeOK
  <1>8. TimelyCount'
    BY DEF TimelyCount, OnlyLostAcks, LockIsHeld, TypeOK
  <1>9. CalmRound'
    <2> SUFFICES ASSUME Calm' PROVE NmisAreOfTheRound' /\ AcksAreOfTheRound' /\ AcknowledgedHaveStopped'
      BY DEF CalmRound
    <2>0. Calm /\ NmisAreOfTheRound /\ AcksAreOfTheRound /\ AcknowledgedHaveStopped
      BY DEF CalmRound, Calm
    <2>1. NmisAreOfTheRound'
      BY <2>0 DEF NmisAreOfTheRound, LockIsHeld, TypeOK
    <2>2. AcksAreOfTheRound'
      BY <2>0 DEF AcksAreOfTheRound, LockIsHeld, TypeOK
    <2>3. AcknowledgedHaveStopped'
      BY <2>0 DEF AcknowledgedHaveStopped, Stopped, LockIsHeld, TypeOK
    <2> QED BY <2>1, <2>2, <2>3
  <1> QED BY <1>1, <1>2, <1>3, <1>4, <1>5, <1>6, <1>7, <1>8, <1>9

LEMMA NmiInitIInv == ASSUME NmiAssumption PROVE Init => NmiIInv
  <1> SUFFICES ASSUME Init PROVE NmiIInv
    OBVIOUS
  <1> USE DEF Init, NmiAssumption
  <1>1. ModeOK
    BY DEF ModeOK
  <1>2. TypeOK
    <2>1. hwNmis \in 0 .. mode.hwNmis
      BY <1>1 DEF ModeOK
    <2>2. Reason \in Reasons /\ why \in [Cpus -> Reasons]
      BY DEF Reasons
    <2>3. pending \in [Cpus -> BOOLEAN] /\ polls \in [Cpus -> 0 .. MaxPolls]
      OBVIOUS
    <2> QED BY <2>1, <2>2, <2>3 DEF TypeOK
  <1>3. /\ LockIsHeld /\ ReasonIsGiven /\ NobodyIsForgotten
        /\ TestIsOfBsp /\ NoTestAfterMeltdown /\ TimelyCount
    BY DEF LockIsHeld, ReasonIsGiven, NobodyIsForgotten, TestIsOfBsp, NoTestAfterMeltdown, TimelyCount
  <1>4. CalmRound
    BY DEF CalmRound, NmisAreOfTheRound, AcksAreOfTheRound, AcknowledgedHaveStopped
  <1> QED BY <1>1, <1>2, <1>3, <1>4 DEF NmiIInv

LEMMA NmiNextIInv == ASSUME NmiAssumption PROVE NmiIInv /\ [Next]_vars => NmiIInv'
  <1> SUFFICES ASSUME NmiIInv, [Next]_vars PROVE NmiIInv'
    OBVIOUS
  <1>1. CASE HarmlessTest
    BY <1>1, HarmlessTestStep
  <1>2. ASSUME NEW c \in Cpus, PrintBegin(c) \/ MeltdownCall(c) \/ HardwareNmi(c)
        PROVE  NmiIInv'
    BY <1>2, PrintBeginStep, MeltdownCallStep, HardwareNmiStep
  <1>3. ASSUME NEW c \in Cpus, Running(c) PROVE NmiIInv'
    <2>1. CASE PrintEnd(c) \/ MeltdownLock(c) \/ Report(c)
      BY <2>1, PrintEndStep, MeltdownLockStep, ReportStep
    <2>2. CASE RaiseLock(c) \/ IssueIpi(c) \/ Poll(c) \/ PollEnd(c) \/ RaiseReturn(c)
      BY <2>2, RaiseLockStep, IssueIpiStep, NmiPollStep, PollEndStep, RaiseReturnStep
    <2>3. CASE HandlerEnter(c) \/ HandlerAck(c)
      BY <2>3, HandlerEnterStep, HandlerAckStep
    <2> QED BY <1>3, <2>1, <2>2, <2>3 DEF Running
  <1>4. CASE UNCHANGED vars
    <2> USE <1>4 DEF vars, nmiInfo, locks, state, raise, cpuNmi, NmiIInv
    <2>1. (ModeOK /\ TypeOK /\ LockIsHeld)'
      BY DEF ModeOK, TypeOK, LockIsHeld
    <2>2. (ReasonIsGiven /\ NobodyIsForgotten /\ TestIsOfBsp)'
      BY DEF ReasonIsGiven, NobodyIsForgotten, TestIsOfBsp
    <2>4. (NoTestAfterMeltdown /\ TimelyCount)'
      BY DEF NoTestAfterMeltdown, TimelyCount, OnlyLostAcks
    <2>3. CalmRound'
      BY DEF CalmRound, Calm, NmisAreOfTheRound, AcksAreOfTheRound, AcknowledgedHaveStopped, Stopped
    <2> QED BY <2>1, <2>2, <2>3, <2>4
  <1> QED BY <1>1, <1>2, <1>3, <1>4 DEF Next
----------------------------------------------------------------------------
(* The theorems *)

(* Only the holder of the meltdown lock reports. *)
LEMMA OneReports == ASSUME NmiAssumption, NmiIInv PROVE OneMeltdown
  <1> DEFINE R == {c \in Cpus : pc[c] \in {"report", "halted"}}
  <1>1. \A c \in R : c = mdLock
    BY DEF NmiIInv, ReasonIsGiven
  <1>2. R \subseteq {mdLock} /\ IsFiniteSet({mdLock}) /\ Cardinality({mdLock}) = 1
    BY <1>1, FS_Singleton
  <1>3. Cardinality(R) <= 1
    <2> HIDE DEF R
    <2> QED BY <1>2, FS_Subset
  <1> QED BY <1>3 DEF OneMeltdown

(* Krnlmeltdown is truthful: at most one CPU owns the meltdown, a meltdown *)
(* reported as not catastrophic has stopped every other CPU when answers   *)
(* come in time and the hardware has raised no NMI, and with answers in    *)
(* time one is reported as catastrophic only after a hardware NMI, every   *)
(* other CPU having stopped even then.                                     *)
THEOREM MeltdownTruthful == ASSUME NmiAssumption PROVE Spec => []MeltdownIsTruthful
  <1>1. Init => NmiIInv
    BY NmiInitIInv
  <1>2. NmiIInv /\ [Next]_vars => NmiIInv'
    BY NmiNextIInv
  <1>3. NmiIInv => MeltdownIsTruthful
    <2> SUFFICES ASSUME NmiIInv PROVE MeltdownIsTruthful
      OBVIOUS
    <2>1. CatastrophicIsTruthful
      BY DEF NmiIInv, CalmRound, Calm, AcknowledgedHaveStopped, CatastrophicIsTruthful
    <2>2. CatastrophicOnlyByLostAck
      BY DEF NmiIInv, TimelyCount, OnlyLostAcks, CatastrophicOnlyByLostAck, Stopped
    <2> QED BY <2>1, <2>2, OneReports DEF NmiIInv, MeltdownIsTruthful
  <1> QED BY <1>1, <1>2, <1>3, PTL DEF Spec

(* RaiseGlobalNonmaskableInterrupt counts the acknowledgements of its own  *)
(* round alone, and with answers in time the test of KrInitSMP counts      *)
(* every CPU.                                                              *)
THEOREM AnswersCountedExactly == ASSUME NmiAssumption PROVE Spec => []AnswersAreCounted
  <1>1. Init => NmiIInv
    BY NmiInitIInv
  <1>2. NmiIInv /\ [Next]_vars => NmiIInv'
    BY NmiNextIInv
  <1>3. NmiIInv => AnswersAreCounted
    <2> SUFFICES ASSUME NmiIInv PROVE AnswersAreCounted
      OBVIOUS
    <2>1. NoStaleAck
      <3> SUFFICES ASSUME Calm, Reason = "NONE" PROVE Ack = {}
        BY DEF NoStaleAck, Calm
      <3>1. nmiLock = NoCpu
        BY DEF NmiIInv, LockIsHeld, ReasonIsGiven, TypeOK
      <3> QED BY <3>1 DEF NmiIInv, CalmRound, AcksAreOfTheRound
    <2>2. TestCountsEveryCpu
      BY DEF NmiIInv, TimelyCount, TestCountsEveryCpu
    <2> QED BY <2>1, <2>2 DEF AnswersAreCounted
  <1> QED BY <1>1, <1>2, <1>3, PTL DEF Spec
============================================================================
