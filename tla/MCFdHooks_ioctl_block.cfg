\* ioctl(FIONBIO) with 0 on a hooked socket.
SPECIFICATION Spec
CONSTANTS
  Fds <- OneFd
  Descs <- OneDesc
  HookModes <- OnlyHooked
  Calls <- IoctlCalls
  TimeVals <- NoTv
  FionbioArgs <- BothArgs
  NoCtx = NoCtx
  NoDesc = NoDesc
INVARIANT NoWorkerBlock
