---------------------------- MODULE MCProcessors ----------------------------
(***************************************************************************)
(* The protocols between the processors, side by side: global NMIs and     *)
(* meltdown, bring-up, and the calibration of the local APIC timers; and   *)
(* the way of each processor into and out of an interrupt.  They share no  *)
(* variable here, so a behaviour is one of a single part: part names it    *)
(* and the others stay where they start.                                   *)
(***************************************************************************)
EXTENDS NMI, SmpBringup, ApicCalibration, InterruptEntry, TLC

(* A 24 bit counter of 16 values and a 32 bit one of 24. *)
CounterValues == (24 :> 16) @@ (32 :> 24)

VARIABLE part

ASSUME MCProcessorsAssumption ==
  NmiAssumption /\ SmpAssumption /\ CalibrationAssumption /\ EntryAssumption

AllVars == <<part, vars, smpVars, apicVars, entryVars>>

(* What a part that does not run starts with is of no interest. *)
AllInit ==
  /\ part \in {"nmi", "bringup", "calibration", "entry"}
  /\ Init /\ SmpInit /\ ApicInit /\ EntryInit
  /\ part # "nmi" => mode = CHOOSE m \in [printers : Printers, hwNmis : MaxHwNmi, timely : Timely] : TRUE
  /\ part # "calibration" => hwWidth = 24 /\ hwTicks = 0
  /\ part # "entry" => stack = <<>>

AllNext ==
  /\ UNCHANGED part
  /\ \/ part = "nmi" /\ Next /\ UNCHANGED <<smpVars, apicVars, entryVars>>
     \/ part = "bringup" /\ SmpNext /\ UNCHANGED <<vars, apicVars, entryVars>>
     \/ part = "calibration" /\ ApicNext /\ UNCHANGED <<vars, smpVars, entryVars>>
     \/ part = "entry" /\ EntryNext /\ UNCHANGED <<vars, smpVars, apicVars>>

(* The fairness of the modules, each while its part runs. *)
AllSpec ==
  /\ AllInit /\ [][AllNext]_AllVars
  /\ \A c \in Cpus : WF_vars(part = "nmi" /\ Running(c))
  /\ WF_smpVars(part = "bringup" /\ BspNext)
  /\ WF_apicVars(part = "calibration" /\ AcpiPmTimerDriverRegister)
  /\ WF_apicVars(part = "calibration" /\ Tick)
  /\ \A c \in CPUs : WF_apicVars(part = "calibration" /\ Step(c))
----------------------------------------------------------------------------
(* NMI: a meltdown stops every CPU.  SmpBringup, ApicCalibration: bring-up *)
(* ends, with all processors or with a meltdown, and every processor ends  *)
(* its calibration.                                                        *)
ProtocolsEnd ==
  /\ MeltdownStopsEveryCpu
  /\ part = "bringup" ~> bsp \in {"up", "meltdown"}
  /\ EveryCpuIsCalibrated
============================================================================
