\* swapper, init and two clones under a periodic timer; no signals
SPECIFICATION FairSpec
CONSTANTS
  MAX_PROCESSES = 4
  SleepTicks = {1, 2}
  AlarmTicks = {}
  FaultSignals = {}
  SIGALRM = SIGALRM
  Gprs = {g0}
  Pfns = {f1, f2, f3, f4}
  NoPfn = NoPfn
  MaxNest = 0
PROPERTIES
  NoStarvation
  SleepEnds
CHECK_DEADLOCK FALSE
