SPECIFICATION AllSpec
CONSTANTS
    Builtin <- MCBuiltin
    Platform <- MCPlatform
    Accepts <- MCAccepts
    Fallible <- MCFallible
    Classes <- MCClasses
    PCIE_MAX_BUS = 1
    ECAM_BUSES = 1
    PCIE_MAX_DEV = 2
    PCIE_MAX_FUN = 2
    MaxFunctions = 2
    Storage = Storage
    NVMe = NVMe
    AcpiPmTimer = AcpiPmTimer
    PS2 = PS2
    NULL = NULL
    NONE = NONE
    NoByte = NoByte
    ROOT = ROOT
    PCIE_ROOT = PCIE_ROOT
    CPUs = {0, 1}
    BSP = 0
    Firmwares <- MCFirmwares
    BspApicID = 0
    MAX_GSI = 8
    NoTable = NoTable
    IoApics <- MCIoApics
    IRQs = {1, 2, 3}
    NUM_INT_VECTORS = 5
    RESERVED = 1
    OFFERS_AFTER_SMP = {TRUE, FALSE}
    FAST = {TRUE, FALSE}
    MAX_RESENDS = 3
    MAX_FAULTS = 4
    MAX_KEYS = 2
INVARIANTS
    MeltdownBlamesFirmware
CHECK_DEADLOCK FALSE
