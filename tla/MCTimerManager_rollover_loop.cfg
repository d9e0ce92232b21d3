\* One recurring timer and one step back of the wall clock by more than
\* the rollover gap: does listExpiredCb return?
CONSTANTS
  t1 = t1
  t2 = t2
  Timers <- OnlyT1
  Recurring <- OnlyT1
  Periods = {1}
  MaxTime = 3
  MaxCalls = 1
  MaxTimeout = 2
  RolloverGap = 1
  BackStep = 3
  MaxJumps = 1
SPECIFICATION Spec
PROPERTY ScanTerminates
