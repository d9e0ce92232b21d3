\* A blocking socket whose connect_f fails at once (ECONNREFUSED), no
\* timeout: the hook goes on to wait and then reads SO_ERROR.
SPECIFICATION Spec
CONSTANTS
  Immediate <- AnyImmediate
  Outcomes <- AllOutcomes
  TimerModes = {FALSE}
  CtxModes <- BlockingOnly
INVARIANT ConnectTruthful
