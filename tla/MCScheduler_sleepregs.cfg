\* what sleep() saves
SPECIFICATION Spec
CONSTANTS
  MAX_PROCESSES = 3
  SleepTicks = {1}
  AlarmTicks = {}
  FaultSignals = {}
  SIGALRM = SIGALRM
  Gprs = {g0, g1}
  Pfns = {f1, f2, f3}
  NoPfn = NoPfn
  MaxNest = 0
PROPERTIES
  SwitchSavesRegisters
CHECK_DEADLOCK FALSE
