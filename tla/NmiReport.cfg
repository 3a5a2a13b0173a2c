SPECIFICATION FairSpec
CONSTANTS
  Cpus = {0, 1, 2}
  NoCpu = NoCpu
  Bsp = 0
  Printers = {{0}}
  MaxPolls = 1
  MaxHwNmi = {0}
  Timely = {TRUE}
PROPERTY MeltdownIsReported
CHECK_DEADLOCK FALSE
