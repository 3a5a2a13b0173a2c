-------------------------------- MODULE Acpi --------------------------------
(***************************************************************************)
(* What the kernel learns of the machine from the firmware's ACPI tables:  *)
(* KrInitACPI (KrInitACPI.c) checks the root pointer and the XSDT, finds   *)
(* the MADT, MCFG and FADT with KrAcpiLocateTable (ACPI.c), walks the      *)
(* records of the MADT, and IoApicsInit (IOAPIC.c) maps the I/O APICs that *)
(* it found there.  Whatever is missing or corrupt ends in a meltdown.     *)
(*                                                                         *)
(* A table is [Signature, dwLength, sum]: sum says whether its bytes add   *)
(* up to zero.  A MADT record is [type, RecordSize, ...] with the fields   *)
(* of its type.  The XSDT lists the tables, eight bytes each.              *)
(***************************************************************************)
EXTENDS Naturals, Sequences, FiniteSets

CONSTANTS Firmwares,   \* what the firmware may present
          BspApicID,   \* local APIC ID of the bootstrap processor
          MAX_GSI,     \* bound: the last interrupt whose I/O APIC is asked for
          NoTable      \* NULL

Record == [type : {"LocalApic", "IoApic", "other"}, RecordSize : Nat, id : Nat,
           enabled : BOOLEAN, FirstIRQ : Nat]

(* The firmware gives every processor and every I/O APIC an ID of its own, *)
(* and an I/O APIC has a pin.                                              *)
ASSUME AcpiAssumption ==
    /\ MAX_GSI \in Nat
    /\ \A f \in Firmwares :
         /\ f.records \in Seq(Record)
         /\ \A j, k \in DOMAIN f.records :
              /\ f.records[j].type = f.records[k].type /\ f.records[j].type # "other"
              /\ f.records[j].id = f.records[k].id
              => j = k
         /\ \A j \in DOMAIN f.records :
              f.records[j].type = "IoApic" => f.pins[f.records[j].id] \in Nat \ {0}

VARIABLES fw,          \* the firmware's tables, never changed
          acpiStep, MdCode,
          cur,         \* the MADT record at pRecordsCur
          IdealProcessorCount,
          ProcInfo,    \* local APIC ID -> [BSP, RFD] of the valid entries
          ioApicTable, \* IoApics: ID -> [FirstIRQ, MaxRedirEntry, INIT] of the valid entries
          IoApicIDs,   \* sequence of IDs
          nextIoApic,  \* the loop index of IoApicsInit
          pFadt

madtVars == <<cur, IdealProcessorCount, ProcInfo>>
ioApicVars == <<ioApicTable, IoApicIDs>>
acpiVars == <<fw, acpiStep, MdCode, madtVars, ioApicVars, nextIoApic, pFadt>>

SDT_HEADER == 36   \* sizeof(KrAcpiSdtHeader)
MADT_HEADER == 44
MCFG_MINIMUM == 60 \* header and one entry

AcpiInit ==
    /\ fw \in Firmwares
    /\ acpiStep = "rsdp" /\ MdCode = "none"
    /\ cur = 1 /\ IdealProcessorCount = 0 /\ ProcInfo = <<>>
    /\ ioApicTable = <<>> /\ IoApicIDs = <<>> /\ nextIoApic = 1 /\ pFadt = NoTable
-----------------------------------------------------------------------------
(* Wrong variant: what the comparison should be. *)
BytesEqual(equal, after) == equal

(* KrtlBufferEqual: when all N bytes are equal the loop also compares the  *)
(* bytes after them, and if those are equal too N wraps and the answer is  *)
(* FALSE.  The literal signatures are followed by their NUL.               *)
KrtlBufferEqual(equal, after) == equal /\ after # 0

SignatureIs(table, signature) ==
    KrtlBufferEqual(table.Signature = signature, table.dwLength % 256)

(* Wrong variant: the last table of the XSDT is not looked at. *)
EntryCountShort(n) == n - 1
EntryCount(n) == ((SDT_HEADER + 8 * n) - SDT_HEADER) \div 8

(* The first listed table with the signature. *)
KrAcpiLocateTable(signature) ==
    LET found == {i \in 1..EntryCount(Len(fw.tables)) : SignatureIs(fw.tables[i], signature)}
    IN  IF found = {} THEN NoTable
        ELSE fw.tables[CHOOSE i \in found : \A j \in found : i <= j]

(* FailInit, a failed RUNTIME_ASSERT, and the meltdown of KrKernelStart. *)
Fail(code) == acpiStep' = "meltdown" /\ MdCode' = code

CheckRsdp ==
    /\ acpiStep = "rsdp"
    /\ IF fw.rsdp = "null" \/ ~KrtlBufferEqual(fw.rsdp # "signature", fw.rsdpChecksum)
             \/ fw.rsdp \in {"revision", "legacySum", "sum", "xsdtNull"}
       THEN Fail("CORRUPT_ACPI_RSDP")
       ELSE acpiStep' = "xsdt" /\ UNCHANGED MdCode
    /\ UNCHANGED <<fw, madtVars, ioApicVars, nextIoApic, pFadt>>

CheckXsdt ==
    /\ acpiStep = "xsdt"
    /\ CASE ~KrtlBufferEqual(fw.xsdt # "signature", (SDT_HEADER + 8 * Len(fw.tables)) % 256)
                                 -> Fail("CORRUPT_ACPI_RSDP")
         [] fw.xsdt = "sum"      -> Fail("ACPI_SDT_CHECKSUM_NV")
         [] OTHER                -> acpiStep' = "madt" /\ UNCHANGED MdCode
    /\ UNCHANGED <<fw, madtVars, ioApicVars, nextIoApic, pFadt>>

FindMadt ==
    /\ acpiStep = "madt"
    /\ LET pMadt == KrAcpiLocateTable("APIC") IN
       CASE pMadt = NoTable -> Fail("ACPI_TABLE_NOT_FOUND")
         [] pMadt # NoTable /\ pMadt.dwLength < MADT_HEADER -> Fail("ACPI_TABLE_CORRUPT")
         [] OTHER -> acpiStep' = "walk" /\ UNCHANGED MdCode
    /\ UNCHANGED <<fw, madtVars, ioApicVars, nextIoApic, pFadt>>

(* A function with one more argument, or with another value for it. *)
With(f, x, v) == [y \in DOMAIN f \cup {x} |-> IF y = x THEN v ELSE f[y]]

(* Wrong variant: disabled processors are taken too. *)
AnyLocalApic(r) == r.type = "LocalApic"
UsableLocalApic(r) == r.type = "LocalApic" /\ r.enabled

(* pRecordsCur += RecordSize - 2 after two bytes were read: a record that  *)
(* says its size is zero is met again.                                     *)
Advance(r) == IF r.RecordSize = 0 THEN cur ELSE cur + 1

(* One round of the loop of ProcessMADT. *)
WalkMadt ==
    /\ acpiStep = "walk" /\ cur <= Len(fw.records)
    /\ LET r == fw.records[cur] IN
       /\ cur' = Advance(r)
       /\ IF UsableLocalApic(r)
          THEN /\ IdealProcessorCount' = IdealProcessorCount + 1
               /\ ProcInfo' = With(ProcInfo, r.id, [BSP |-> FALSE, RFD |-> FALSE])
          ELSE UNCHANGED <<IdealProcessorCount, ProcInfo>>
       /\ IF r.type = "IoApic"
          THEN /\ ioApicTable' = With(ioApicTable, r.id,
                       [FirstIRQ |-> r.FirstIRQ, MaxRedirEntry |-> 0, INIT |-> FALSE])
               /\ IoApicIDs' = Append(IoApicIDs, r.id)
          ELSE UNCHANGED ioApicVars
    /\ UNCHANGED <<fw, acpiStep, MdCode, nextIoApic, pFadt>>

(* The end of ProcessMADT marks the bootstrap processor. *)
EndMadt ==
    /\ acpiStep = "walk" /\ cur > Len(fw.records)
    /\ ProcInfo' = IF BspApicID \in DOMAIN ProcInfo
                   THEN [ProcInfo EXCEPT ![BspApicID] = [BSP |-> TRUE, RFD |-> TRUE]] ELSE ProcInfo
    /\ IF IdealProcessorCount = 0
       THEN Fail("ACPI_TABLE_CORRUPT")
       ELSE acpiStep' = "mcfg" /\ UNCHANGED MdCode
    /\ UNCHANGED <<fw, cur, IdealProcessorCount, ioApicVars, nextIoApic, pFadt>>

(* ProcessMCFG maps the configuration space; MmioMapDevice may fail. *)
FindMcfg ==
    /\ acpiStep = "mcfg"
    /\ LET pMcfg == KrAcpiLocateTable("MCFG") IN
       CASE pMcfg = NoTable -> Fail("ACPI_TABLE_NOT_FOUND")
         [] pMcfg # NoTable /\ pMcfg.dwLength < MCFG_MINIMUM -> Fail("ACPI_TABLE_CORRUPT")
         [] OTHER -> \/ acpiStep' = "fadt" /\ UNCHANGED MdCode
                     \/ Fail("MMIO_DEVICE_MAP_FAILURE")
    /\ UNCHANGED <<fw, madtVars, ioApicVars, nextIoApic, pFadt>>

FindFadt ==
    /\ acpiStep = "fadt"
    /\ LET found == KrAcpiLocateTable("FACP") IN
       CASE found = NoTable -> Fail("ACPI_TABLE_NOT_FOUND") /\ UNCHANGED pFadt
         [] found # NoTable /\ ~found.sum -> Fail("ACPI_SDT_CHECKSUM_NV") /\ UNCHANGED pFadt
         [] OTHER -> acpiStep' = "ioapics" /\ pFadt' = found /\ UNCHANGED MdCode
    /\ UNCHANGED <<fw, madtVars, ioApicVars, nextIoApic>>

(* One round of IoApicsInit: an I/O APIC is mapped and asked how many pins *)
(* it has; when it cannot be mapped KrKernelStart melts down.              *)
IoApicsInit ==
    /\ acpiStep = "ioapics" /\ nextIoApic <= Len(IoApicIDs)
    /\ LET id == IoApicIDs[nextIoApic] IN
       \/ /\ ioApicTable[id].INIT /\ nextIoApic' = nextIoApic + 1
          /\ UNCHANGED <<acpiStep, MdCode, ioApicTable>>
       \/ /\ ~ioApicTable[id].INIT /\ nextIoApic' = nextIoApic + 1
          /\ ioApicTable' = [ioApicTable EXCEPT ![id].MaxRedirEntry = fw.pins[id] - 1, ![id].INIT = TRUE]
          /\ UNCHANGED <<acpiStep, MdCode>>
       \/ /\ ~ioApicTable[id].INIT /\ Fail("IO_APICS_INIT_FAILURE")
          /\ UNCHANGED <<nextIoApic, ioApicTable>>
    /\ UNCHANGED <<fw, madtVars, IoApicIDs, pFadt>>

IoApicsDone ==
    /\ acpiStep = "ioapics" /\ nextIoApic > Len(IoApicIDs)
    /\ acpiStep' = "done"
    /\ UNCHANGED <<fw, MdCode, madtVars, ioApicVars, nextIoApic, pFadt>>

AcpiNext ==
    \/ CheckRsdp \/ CheckXsdt \/ FindMadt \/ WalkMadt \/ EndMadt
    \/ FindMcfg \/ FindFadt \/ IoApicsInit \/ IoApicsDone

(* Straight-line code of the bootstrap processor. *)
AcpiSpec == AcpiInit /\ [][AcpiNext]_acpiVars /\ WF_acpiVars(AcpiNext)
-----------------------------------------------------------------------------
Enabled == {r \in {fw.records[i] : i \in DOMAIN fw.records} : r.type = "LocalApic" /\ r.enabled}
FwIoApics == {r \in {fw.records[i] : i \in DOMAIN fw.records} : r.type = "IoApic"}

(* FindIoApicForIRQ of IOAPIC.c on the tables that were read. *)
IoApicsForIRQ(irq) ==
    {id \in DOMAIN ioApicTable :
       /\ ioApicTable[id].INIT /\ irq >= ioApicTable[id].FirstIRQ
       /\ irq <= ioApicTable[id].FirstIRQ + ioApicTable[id].MaxRedirEntry}

(* When KrInitACPI and IoApicsInit are through, the kernel knows exactly   *)
(* the enabled processors of the MADT, each once, and which of them is the *)
(* bootstrap processor; it leads every interrupt to the I/O APIC whose pin *)
(* it is, and an interrupt no I/O APIC has to none.                        *)
TopologyIsExact ==
    acpiStep = "done" =>
      /\ DOMAIN ProcInfo = {r.id : r \in Enabled}
      /\ IdealProcessorCount = Cardinality(DOMAIN ProcInfo)
      /\ \A id \in DOMAIN ProcInfo : ProcInfo[id].BSP = (id = BspApicID)
      /\ \A irq \in 0..MAX_GSI : IoApicsForIRQ(irq) =
             {r.id : r \in {s \in FwIoApics : irq \in s.FirstIRQ .. s.FirstIRQ + fw.pins[s.id] - 1}}
      /\ pFadt.sum

Present(signature) == \E i \in DOMAIN fw.tables : fw.tables[i].Signature = signature

(* "System has no MADT ... table present present (or exists in a malformed *)
(* form)! Issue on firmware side." (KrInitACPI.c:44): the kernel gives up  *)
(* on a table only if the firmware has none, on the root pointer only if   *)
(* it is corrupt.                                                          *)
MeltdownBlamesFirmware ==
    /\ MdCode = "ACPI_TABLE_NOT_FOUND" => \E s \in {"APIC", "MCFG", "FACP"} : ~Present(s)
    /\ MdCode = "CORRUPT_ACPI_RSDP" => fw.rsdp # "ok" \/ fw.xsdt # "ok"

(* Discovery ends, with the tables read or with a meltdown, unless a MADT  *)
(* record says that its size is zero.                                      *)
DiscoveryEnds ==
    (\A k \in DOMAIN fw.records : fw.records[k].RecordSize # 0) =>
       <>(acpiStep \in {"done", "meltdown"})
=============================================================================
