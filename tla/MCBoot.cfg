SPECIFICATION AllSpec
CONSTANTS
  Maps <- MCMaps
  UINT_MAX = 65535
  PT = 2
  PD = 2
  PDPT = 2
  PML4 = 2
  NrPages = 12
  ArenaBase = 20
  Pml4 = Pml4
  NoPage = NoPage
  APs = {a1, a2}
  BSP = b
  HAS_NX = {TRUE, FALSE}
  HAS_HUGE = TRUE
  ArenaSizes = {30, 60}
  ALIGNMENT = 2
  DESCRIPTOR = 4
  BYTE_BITS = 2
  LOW_PAGES = 1
  KERNEL_BASE = 2
  KERNEL_RESERVE = 2
  METAS = 3
  MaxStructs = 1
  Computers <- MCComputers
  ENTRIES = 3
  KERNEL_PAGES = 2
  SLACK = 2
  DiskSizes = {3, 4, 5, 6}
  BlockSizes = {0, 1, 2, 3, 4, 6, 8, 10, 12, 16, 32}
  SECTOR = 2
  MIB = 32
  TABLE_SIZE = 8
  MINIMUM_DISK_SIZE_MIB = 5
  EFI_SYSTEM_PART_SIZE_MIB = 2
  Outcomes = {"OK", "NOT_IMPLEMENTED", "FAIL"}
  Delays = {1, 3}
  Calibration = 2
  DWORD_MAX = 3
  MaxEvents = 3
  IrqOff = {TRUE, FALSE}
  HeapFails = {TRUE, FALSE}
INVARIANTS
  MapIsExact
  KernelMemoryIsSound
  AddressSpaceIsSound
  HandoverIsSound
  ToolsAreRight
PROPERTIES
  TimersKeepTime
  BootEnds
  TimersFire
CHECK_DEADLOCK FALSE
