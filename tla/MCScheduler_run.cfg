\* IOManager(3, use_caller = true): two workers and the root thread; a
\* coroutine that sleeps twice, one pinned to the first worker, and one
\* pinned to the root thread.
CONSTANTS
  w1 = w1
  w2 = w2
  f1 = f1
  f2 = f2
  f3 = f3
  Root = Root
  AnyThread = AnyThread
  NoId = NoId
  None = None
  UseCaller = TRUE
  Workers <- MCWorkers
  Fibers <- MCFibers
  Affinity <- MCAffinity
  Naps <- MCNaps
SPECIFICATION Spec
INVARIANT TypeOK
INVARIANT ThreadIdsKnown
PROPERTY ResumeReadyOnly
PROPERTY AllDone
PROPERTY CoroutineSpecRefined
