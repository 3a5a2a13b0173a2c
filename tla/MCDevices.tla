------------------------------ MODULE MCDevices ------------------------------
(***************************************************************************)
(* How devices come into service, side by side: what the ACPI tables say,  *)
(* drivers and the device tree, the routing of interrupts, and the set-up  *)
(* of the PS/2 controller.                                                 *)
(* The drivers: the three built-in ones and one more PCI driver that may   *)
(* refuse a device.  NVMe takes every NVM controller; AcpiPmTimer and PS2  *)
(* bring a platform device of their own and match nothing.                 *)
(*                                                                         *)
(* They share no variable here, so a behaviour is one of a single part and *)
(* the others stay where they start.                                       *)
(***************************************************************************)
EXTENDS Devdriv, IrqRouting, PS2Setup, Acpi

CONSTANTS Storage, NVMe, AcpiPmTimer, PS2

MCBuiltin == <<Storage, NVMe, AcpiPmTimer, PS2>>
MCPlatform == {AcpiPmTimer, PS2}
MCAccepts == [d \in Range(MCBuiltin) |->
                CASE d = NVMe -> {"nvm"}
                  [] d = Storage -> {"nvm", "ahci"}
                  [] OTHER -> {}]
MCFallible == {Storage}
MCClasses == {"nvm", "ahci"}

(* Two I/O APICs of two pins each: interrupt 1 is the last pin of the      *)
(* first, 2 the first and 3 the last pin of the second.                    *)
MCIoApics == <<[FirstIRQ |-> 0, MaxRedirEntry |-> 1], [FirstIRQ |-> 2, MaxRedirEntry |-> 1]>>

(* ACPI tables of a firmware that is in order, and what may be wrong with  *)
(* each.                                                                   *)
Table(signature, length) == [Signature |-> signature, dwLength |-> length, sum |-> TRUE]
Cpu(id, on) == [type |-> "LocalApic", RecordSize |-> 8, id |-> id, enabled |-> on, FirstIRQ |-> 0]
Io(id, first) == [type |-> "IoApic", RecordSize |-> 12, id |-> id, enabled |-> TRUE, FirstIRQ |-> first]
Other(size) == [type |-> "other", RecordSize |-> size, id |-> 0, enabled |-> FALSE, FirstIRQ |-> 0]

Fadt == Table("FACP", 276)
Mcfg == Table("MCFG", 60)
Madt(records) == Table("APIC", 44 + FoldSeq(LAMBDA r, n : n + r.RecordSize, 0, records))
Computer(records) ==
    [rsdp |-> "ok", rsdpChecksum |-> 1, xsdt |-> "ok", records |-> records,
     tables |-> <<Fadt, Madt(records), Mcfg>>, pins |-> <<2, 3>>]

(* The records of up to two more processors and two I/O APICs around the   *)
(* bootstrap processor, in every order.                                    *)
Records == {Cpu(0, TRUE), Cpu(1, TRUE), Cpu(2, FALSE), Io(1, 0), Io(2, 4), Other(10), Other(0)}
Arrangements == {a \in UNION {[1..n -> Records] : n \in 1..4} :
                   IsInjective(a) /\ Cpu(0, TRUE) \in Range(a)}
SMALL == <<Io(2, 4), Cpu(0, TRUE), Cpu(1, TRUE)>>
UNUSABLE == <<Cpu(2, FALSE), Io(1, 0)>>

(* A MADT whose length is a multiple of 256. *)
LARGE == <<Cpu(0, TRUE), Cpu(1, TRUE), Io(1, 0), Other(184)>>

MCFirmwares ==
    {Computer(a) : a \in Arrangements \cup {UNUSABLE, LARGE}}
    \cup {[Computer(SMALL) EXCEPT !.rsdp = s] :
            s \in {"null", "signature", "revision", "legacySum", "sum", "xsdtNull"}}
    \cup {[Computer(SMALL) EXCEPT !.xsdt = s] : s \in {"signature", "sum"}}
    \cup {[Computer(SMALL) EXCEPT !.tables = t] :
            t \in {<<Fadt, Mcfg>>, <<Madt(SMALL), Fadt>>, <<Mcfg, Madt(SMALL)>>,
                   <<Fadt, Table("APIC", 40), Mcfg>>, <<Table("MCFG", 50), Fadt, Madt(SMALL)>>,
                   <<Madt(SMALL), Mcfg, [Fadt EXCEPT !.sum = FALSE]>>}}

VARIABLES part

AllVars == <<part, treeVars, irqVars, ps2Vars, acpiVars>>

(* What a part that does not run starts with is of no interest. *)
AllInit ==
    /\ part \in {"devices", "interrupts", "keyboard", "tables"}
    /\ TreeInit /\ IrqInit /\ Ps2Init /\ AcpiInit
    /\ part # "interrupts" => late = TRUE
    /\ part # "keyboard" => fast = TRUE /\ data.kind = "ACK" /\ scanset = 1
    /\ part # "tables" => fw = Computer(SMALL)

AllNext ==
    /\ UNCHANGED part
    /\ \/ part = "devices" /\ TreeNext /\ UNCHANGED <<irqVars, ps2Vars, acpiVars>>
       \/ part = "interrupts" /\ IrqNext /\ UNCHANGED <<treeVars, ps2Vars, acpiVars>>
       \/ part = "keyboard" /\ Ps2Next /\ UNCHANGED <<treeVars, irqVars, acpiVars>>
       \/ part = "tables" /\ AcpiNext /\ UNCHANGED <<treeVars, irqVars, ps2Vars>>

(* The fairness of the modules, each while its part runs. *)
AllSpec ==
    /\ AllInit /\ [][AllNext]_AllVars
    /\ WF_treeVars(part = "devices" /\ TreeNext)
    /\ WF_acpiVars(part = "tables" /\ AcpiNext)
    /\ WF_irqVars(part = "interrupts" /\ setupStep # "meltdown" /\ Setup)
    /\ \A c \in CPUs : /\ WF_irqVars(part = "interrupts" /\ Deliver(c))
                       /\ WF_irqVars(part = "interrupts" /\ KrDispatchInterrupt(c))
    /\ WF_ps2Vars(part = "keyboard" /\ PS2_KeyboardDriverRegister)
    /\ WF_ps2Vars(part = "keyboard" /\ KeyboardInterrupt)
    /\ WF_ps2Vars(part = "keyboard" /\ Take)
    /\ WF_ps2Vars(part = "keyboard" /\ Work)
    /\ WF_ps2Vars(part = "keyboard" /\ HandOver)
-----------------------------------------------------------------------------
(* IrqRouting, PS2Setup: every interrupt a driver asked for is let through *)
(* unless the kernel melts down for lack of vectors, every interrupt in    *)
(* service is ended, and no old answer holds up the keys.                  *)
InterruptsAreServed ==
    /\ \A j \in IRQs : part = "interrupts" ~> setupStep = "meltdown" \/ ~redir[Wire(j)].masked
    /\ InterruptsAreEnded
    /\ KeysAreSeen

(* Devdriv, PS2Setup, Acpi: enumeration and pairing come to an end, if     *)
(* only by reading a bus that is not mapped, PS2_KeyboardDriverRegister    *)
(* returns, and the tables are read through unless a MADT record says that *)
(* its size is zero.                                                       *)
SetupEnds ==
    <>(\/ part = "devices" /\ phase \in {"done", "meltdown"}
       \/ part = "keyboard" /\ regStep \in {"registered", "failed"}
       \/ part = "tables" /\ acpiStep \in {"done", "meltdown"}
       \/ part = "tables" /\ (\E r \in Range(fw.records) : r.RecordSize = 0)
       \/ part = "interrupts")
=============================================================================
