\* the three schedulers; swapper, init and one clone, a frame to clone once more
SPECIFICATION VersionsSpec
CONSTANTS
  MAX_PROCESSES = 3
  SleepTicks = {0, 2}
  AlarmTicks = {1}
  FaultSignals = {SIGFPE}
  SIGALRM = SIGALRM
  Gprs = {g0, g1}
  Pfns = {f1, f2, f3, f4}
  NoPfn = NoPfn
  MaxNest = 2
SYMMETRY PfnSymmetry
INVARIANTS
  TypeOK
  RunningIsCurrent
  SwapperOnlyIdles
  CleanupOnlyWhenAlone
  SleepersWait
  OsStacksDistinct
  HandlersNest
PROPERTIES
  ControlKept
  ResumesSavedRegs
CHECK_DEADLOCK FALSE
