\* Two readers with SO_RCVTIMEO, one of which then closes the socket,
\* two workers, one direction on the fd; epoll_ctl MOD/DEL may be refused.
CONSTANTS
  w1 = w1
  w2 = w2
  f1 = f1
  f2 = f2
  NoFiber = NoFiber
  NoWorker = NoWorker
  Fibers <- MCFibers
  Fds <- MCFds
  Workers <- MCWorkers
  Dirs <- DirsR
  TimeoutDirs <- DirsR
  Script <- ScriptReadCloseRead
  MaxArrivals = 2
  EpollCtlFails <- EpollFaults
SPECIFICATION Spec
INVARIANT TypeOK
INVARIANT OneWaker
INVARIANT FiberExclusive
INVARIANT LastExitOnlyWhenDone
PROPERTY WorkersExit
