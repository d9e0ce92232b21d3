\* Every FdCtx case, with and without a timeout, immediate success or
\* EINPROGRESS, and a pending connection that succeeds or is refused:
\* the timer races the readiness.
SPECIFICATION Spec
CONSTANTS
  Immediate <- SuccessOrPending
  Outcomes <- AllOutcomes
  TimerModes <- WithAndWithout
  CtxModes <- AllCtx
INVARIANT ConnectTruthful
PROPERTY ConnectReturns
