SPECIFICATION AllSpec
CONSTANTS
  Cpus = {0, 1, 2}
  NoCpu = NoCpu
  Bsp = 0
  Printers = {{}, {1}}
  MaxPolls = 2
  MaxHwNmi = {0, 1}
  Timely = {TRUE, FALSE}
  BspID = 0
  MaxCpuID = 3
  Present = {0, 1, 3}
  MaxWaits = 3
  MaxRestarts = 1
  CPUs = {c1, c2}
  Mod <- CounterValues
  NrTicksFor50ms = 6
  TOLERANCE = 2
  RATE = 2
  USECONDS = 2
  GAP = 2
  STALL = 3
  DWORD_MAX = 63
  REGISTRATION_MAY_FAIL = FALSE
  None = None
  MaxDepth = 3
  Locals = {0, 1}
  NREGS = 15
INVARIANTS
  MeltdownIsTruthful
  AnswersAreCounted
  BringupIsComplete
  CalibrationIsSound
  InterruptsNest
PROPERTIES
  ProtocolsEnd
CHECK_DEADLOCK FALSE
