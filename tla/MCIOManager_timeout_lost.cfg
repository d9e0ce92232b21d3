\* One reader with SO_RCVTIMEO on a socket nobody writes to, two workers.
CONSTANTS
  w1 = w1
  w2 = w2
  f1 = f1
  f2 = f2
  NoFiber = NoFiber
  NoWorker = NoWorker
  Fibers <- MCFibers
  Fds <- MCFds
  Workers <- MCWorkers
  Dirs <- DirsR
  TimeoutDirs <- DirsR
  Script <- ScriptTimedRead
  MaxArrivals = 0
  EpollCtlFails <- NoFaults
SPECIFICATION Spec
PROPERTY AllCallsReturn
