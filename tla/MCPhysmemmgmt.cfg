SPECIFICATION FairSpec
CONSTANTS
  Cpus = {c1, c2}
  NoCpu = NoCpu
  NrPages = 5
  ByteBits = 2
  FreeAtBoot <- MCFree
  InitialHint = 1
  IVLDPGID = 99
  Requests <- HintedRequests
  Reservers = {c1}
  HintSetters = {c1}
INVARIANTS
  TypeOK
  ExclusiveOwnership
  BitmapMatchesOwnership
  BookkeepingIsExact
  DenseIsContiguous
  HuntIsExhaustive
PROPERTIES
  ReservationIsPermanent
  LockIsReleased
  AllocSpec
