SPECIFICATION Spec
CONSTANTS
  Cpus = {c1, c2}
  NoCpu = NoCpu
  NrPages = 5
  ByteBits = 2
  FreeAtBoot <- MCFree
  InitialHint = 1
  IVLDPGID = 99
  Requests <- DefaultRequests
  Reservers = {c1}
  HintSetters = {}
INVARIANT FailureMeansExhausted
