\* Two recurring timers with the same period and a clock that only moves
\* forward: does every due timer fire?
CONSTANTS
  t1 = t1
  t2 = t2
  Timers <- MCTimers
  Recurring <- BothTimers
  Periods = {1}
  MaxTime = 4
  MaxCalls = 1
  MaxTimeout = 2
  RolloverGap = 2
  BackStep = 1
  MaxJumps = 0
SPECIFICATION Spec
PROPERTY TimerFires
