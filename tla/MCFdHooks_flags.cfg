\* Three numbers, three descriptions, every call from hooked threads,
\* F_SETFL either way, FIONBIO to non-blocking, whole-ms timeouts.
SPECIFICATION Spec
CONSTANTS
  Fds <- MCFds3
  Descs <- MCDescs3
  HookModes <- OnlyHooked
  Calls <- FlagCalls
  TimeVals <- WholeMs
  FionbioArgs <- NonblockOnly
  NoCtx = NoCtx
  NoDesc = NoDesc
INVARIANT TypeOK
INVARIANT NoWorkerBlock
INVARIANT GetFlShowsIntent
