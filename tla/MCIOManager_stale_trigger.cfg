\* Reader and writer on one socket, two workers, no timeouts.
CONSTANTS
  w1 = w1
  w2 = w2
  f1 = f1
  f2 = f2
  NoFiber = NoFiber
  NoWorker = NoWorker
  Fibers <- MCFibers
  Fds <- MCFds
  Workers <- MCWorkers
  Dirs <- DirsRW
  TimeoutDirs <- NoDirs
  Script <- ScriptDuplex
  MaxArrivals = 2
  EpollCtlFails <- NoFaults
SPECIFICATION Spec
INVARIANT TriggerRegisteredOnly
