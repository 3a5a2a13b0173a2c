SPECIFICATION FaultSpec
CONSTANTS
  Cpus = {c1, c2}
  v1 = v1
  v2 = v2
  Vpages = {v1, v2}
  RegionKind <- DemandRegion
  Dir <- OneDir
  Frames = {1, 2, 3, 4, 5}
  None = None
  Loads <- OverlapLoads
INVARIANT WritesSurvive
CHECK_DEADLOCK FALSE
