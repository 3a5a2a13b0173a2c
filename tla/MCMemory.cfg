SPECIFICATION AllSpec
CONSTANTS
  HeapSize = 44
  HeaderSize = 3
  OffsetSize = 2
  MaxOffset = 9
  MinPayload = 5
  Sizes = {0, 1, 5}
  Alignments = {0, 1, 2, 3, 4}
  MaxLive = 4
  NrRnaSlots = 6
  SignBit = 3
  MaxRnaPages = 2
  LargePage = 2
  LowMap <- MCLowMap
  HeapRange <- MCHeapRange
  Devices <- MCDevs
  MmioStart = 12
  BinaryStart = 28
  BinarySize = 2
  FrameBuffer = 32
  FrameSize = 2
  KernelStart = 8
  MaxDevices = 5
  Cpus = {c1, c2}
  v1 = v1
  v2 = v2
  v3 = v3
  v4 = v4
  None = None
  Vpages = {v1, v2, v3, v4}
  Frames = {1, 2, 3, 4, 5}
  RegionKind <- KindOf
  Dir <- DirOf
  Loads <- BothLoads
INVARIANTS
  HeapIsWellFormed
  RegionsAreSound
  FaultsAreHandled
PROPERTIES
  OwnersCanRelinquish
  ImplementsExtents
  AccessesGetThrough
CHECK_DEADLOCK FALSE
