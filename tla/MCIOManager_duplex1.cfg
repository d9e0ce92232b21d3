\* Reader, writer and close on a full-duplex socket without send or receive
\* timeouts, served by a single worker thread.
CONSTANTS
  w1 = w1
  w2 = w2
  f1 = f1
  f2 = f2
  NoFiber = NoFiber
  NoWorker = NoWorker
  Fibers <- MCFibers
  Fds <- MCFds
  Workers <- MCOneWorker
  Dirs <- DirsRW
  TimeoutDirs <- NoDirs
  Script <- ScriptDuplexClose
  MaxArrivals = 2
  EpollCtlFails <- NoFaults
SPECIFICATION Spec
INVARIANT OneWaker
INVARIANT ExitOnlyWhenDone
PROPERTY ReadyEventDelivered
PROPERTY WorkersExit
