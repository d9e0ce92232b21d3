\* A one-shot and a recurring timer, periods 1 and 2, with every owner
\* call, and one step back of the clock smaller than the rollover gap:
\* the refinement of TimerSpec, and the m_tickled protocol.
CONSTANTS
  t1 = t1
  t2 = t2
  Timers <- MCTimers
  Recurring <- OnlyT2
  Periods = {1, 2}
  MaxTime = 4
  MaxCalls = 2
  MaxTimeout = 2
  RolloverGap = 2
  BackStep = 1
  MaxJumps = 1
SPECIFICATION Spec
INVARIANT TypeOK
INVARIANT NoOversleep
PROPERTY TimerSpecRefined
