----------------------------- MODULE IOManager -----------------------------
(***************************************************************************)
(* The I/O manager of corlib (src/corlib/ioscheduler.cpp) together with   *)
(* the worker loop of its Scheduler base (src/corlib/scheduler.cpp), the  *)
(* timer set used for I/O timeouts (src/corlib/timer.cpp) and the hooked  *)
(* blocking I/O path do_io / close (src/corlib/hook.cpp).                 *)
(*                                                                         *)
(* Worker threads take tasks from the shared FIFO, resume coroutines      *)
(* (fibers) under the fiber's mutex, run expired-timer callbacks, and     *)
(* when the queue is empty run the idle coroutine, which waits on the     *)
(* edge-triggered readiness notifier, drains expired timers and turns     *)
(* ready descriptors into tasks.  Application fibers run a fixed script   *)
(* of hooked calls: a read/write on a socket (do_io) or a close.          *)
(***************************************************************************)
EXTENDS Integers, Sequences, FiniteSets, SequencesExt

CONSTANTS
  Workers,      \* worker threads of the IOManager (model values)
  Fibers,       \* application coroutines (model values)
  Fds,          \* socket descriptors
  Dirs,         \* event directions in use, a subset of {"READ", "WRITE"}
  Script,       \* Script[f]: the sequence of hooked calls fiber f makes
  TimeoutDirs,  \* directions whose SO_RCVTIMEO / SO_SNDTIMEO is set
  MaxArrivals,  \* bound on readiness edges produced by the peer
  EpollCtlFails,\* whether an epoll_ctl MOD/DEL may be refused: {FALSE},
                \* or BOOLEAN (EBADF/ENOENT when the fd was closed past
                \* the hook, ENOMEM)
  NoFiber,      \* empty EventContext (model value)
  NoWorker      \* fiber mutex not held (model value)

IoCall(fd, d) == [kind |-> "io", fd |-> fd, dir |-> d]
CloseCall(fd) == [kind |-> "close", fd |-> fd]
Calls == {IoCall(fd, d) : fd \in Fds, d \in Dirs} \cup {CloseCall(fd) : fd \in Fds}

ASSUME /\ Dirs \subseteq {"READ", "WRITE"} /\ Dirs # {}
       /\ TimeoutDirs \subseteq Dirs
       /\ \A f \in Fibers : Script[f] \in Seq(Calls)
       /\ MaxArrivals \in Nat
       /\ EpollCtlFails \subseteq BOOLEAN /\ FALSE \in EpollCtlFails

VARIABLES
  tasks,             \* Scheduler::m_tasks, FIFO of fiber and timer-callback tasks
  activeThreadCount, \* Scheduler::m_activeThreadCount
  stopFlag,          \* Scheduler::m_stopping
  wpc,               \* where each worker is in Scheduler::run / IOManager::idle
  wtask,             \* the task a worker has claimed
  wevents,           \* the epoll_event buffer each idle worker still has to process
  fdEvents,          \* FdContext::events, registered directions per fd
  evFiber,           \* FdContext::read/write .fiber, the coroutine to resume
  pendingEventCount, \* IOManager::m_pendingEventCount
  ready,             \* kernel: the socket is readable / writable
  edge,              \* kernel: the fd's epitem sits on the ready list (EPOLLET)
  arrivals,          \* number of readiness edges the peer has produced
  closed,            \* the fd has been closed through the close hook
  timer,             \* state of the timeout timer of each fiber's current wait
  pc,                \* where each fiber is in its script / in do_io
  opIdx,             \* index of the hooked call a fiber is executing
  cancelled,         \* timer_info::cancelled of the fiber's current do_io
  owner,             \* worker holding the fiber's mutex and running it
  lastRes            \* outcome of the fiber's last hooked call

vars == <<tasks, activeThreadCount, stopFlag, wpc, wtask, wevents, fdEvents,
          evFiber, pendingEventCount, ready, edge, arrivals, closed, timer, pc,
          opIdx, cancelled, owner, lastRes>>

DirOrder == SelectSeq(<<"READ", "WRITE">>, LAMBDA d : d \in Dirs)
IoPcs    == {"attempt", "arm", "add", "yield", "wait"}
Results  == {"none", "OK", "EBADF", "EAGAIN", "ETIMEDOUT"}

FiberTask(f) == [kind |-> "fiber", fiber |-> f]
TimerTask(f, k, fd, d) == [kind |-> "timer", fiber |-> f, op |-> k, fd |-> fd, dir |-> d]

CurCall(f) == Script[f][opIdx[f]]

(***************************************************************************)
(* Helpers shared by the operations.                                       *)
(***************************************************************************)

\* FdContext::resetEventContext for the directions D of fd: the stored
\* scheduler, fiber and callback are dropped.
ResetEventContext(fd, D) ==
  evFiber' = [evFiber EXCEPT ![fd] = [d \in Dirs |-> IF d \in D THEN NoFiber ELSE @[d]]]

\* Fault variant of TriggerEvent: the context is reset (as delEvent does)
\* without scheduling the stored fiber.
TriggerEvent_noSchedule(fd, D) ==
  /\ UNCHANGED tasks
  /\ fdEvents' = [fdEvents EXCEPT ![fd] = @ \ D]
  /\ ResetEventContext(fd, D)

\* FdContext::triggerEvent for each direction of D in READ, WRITE order:
\* clear the bit, schedule the stored fiber and reset the EventContext.
\* Its callers decrement m_pendingEventCount themselves.
TriggerEvent(fd, D) ==
  LET order == SelectSeq(DirOrder, LAMBDA d : d \in D)
  IN /\ tasks' = tasks \o [i \in 1..Len(order) |-> FiberTask(evFiber[fd][order[i]])]
     /\ fdEvents' = [fdEvents EXCEPT ![fd] = @ \ D]
     /\ ResetEventContext(fd, D)

\* epoll_ctl(EPOLL_CTL_ADD / MOD / DEL) with the new mask: an ADD or MOD
\* re-polls the file and queues the epitem if a registered direction is
\* ready; a DEL removes it.
EpollCtl(fd, mask) ==
  edge' = [edge EXCEPT ![fd] = \E d \in mask : ready[fd][d]]

\* Timer::cancel on the fiber's current timeout timer: removed from the set
\* if still there; a timer already handed out by listExpiredCb is not.
CancelTimer(f) == timer' = [timer EXCEPT ![f] = "none"]

\* The fiber yields back to the worker that resumed it; Scheduler::run
\* releases the fiber mutex and decrements m_activeThreadCount.
YieldToWorker(f) ==
  /\ owner' = [owner EXCEPT ![f] = NoWorker]
  /\ wpc' = [wpc EXCEPT ![owner[f]] = "loop"]
  /\ activeThreadCount' = activeThreadCount - 1

\* Fault variant of FinishTask: m_activeThreadCount is not decremented.
FinishTask_noDecrement(w) ==
  /\ wpc' = [wpc EXCEPT ![w] = "loop"]
  /\ UNCHANGED activeThreadCount

\* A worker finishes a task that did not leave a fiber running.
FinishTask(w) ==
  /\ wpc' = [wpc EXCEPT ![w] = "loop"]
  /\ activeThreadCount' = activeThreadCount - 1

NextCall(f, res) ==
  /\ opIdx' = [opIdx EXCEPT ![f] = @ + 1]
  /\ pc' = [pc EXCEPT ![f] = "start"]
  /\ lastRes' = [lastRes EXCEPT ![f] = res]

\* Fault variant of Scheduler::stopping: m_activeThreadCount is not consulted.
SchedulerStopping_noActive == stopFlag /\ tasks = <<>>

SchedulerStopping == stopFlag /\ tasks = <<>> /\ activeThreadCount = 0
Running(f) == owner[f] # NoWorker

schedVars  == <<tasks, activeThreadCount, stopFlag>>
fdVars     == <<fdEvents, evFiber, pendingEventCount>>
kernelVars == <<ready, edge, arrivals, closed>>
fiberVars  == <<timer, pc, opIdx, cancelled, owner, lastRes>>

NoTask == FiberTask(NoFiber)

Init ==
  /\ \E s \in SetToSeqs(Fibers) : tasks = [i \in 1..Len(s) |-> FiberTask(s[i])]
  /\ activeThreadCount = 0
  /\ stopFlag = FALSE
  /\ wpc = [w \in Workers |-> "loop"]
  /\ wtask = [w \in Workers |-> NoTask]
  /\ wevents = [w \in Workers |-> [fd \in Fds |-> {}]]
  /\ fdEvents = [fd \in Fds |-> {}]
  /\ evFiber = [fd \in Fds |-> [d \in Dirs |-> NoFiber]]
  /\ pendingEventCount = 0
  /\ ready \in [Fds -> [Dirs -> BOOLEAN]]
  /\ edge = [fd \in Fds |-> FALSE]
  /\ arrivals = 0
  /\ closed = [fd \in Fds |-> FALSE]
  /\ timer = [f \in Fibers |-> "none"]
  /\ pc = [f \in Fibers |-> "start"]
  /\ opIdx = [f \in Fibers |-> 1]
  /\ cancelled = [f \in Fibers |-> FALSE]
  /\ owner = [f \in Fibers |-> NoWorker]
  /\ lastRes = [f \in Fibers |-> "none"]

(***************************************************************************)
(* Scheduler::run: the worker loop.                                        *)
(***************************************************************************)

\* Claim the first task of the queue (every task of the I/O path is
\* scheduled with thread -1, so the affinity scan stops at the head).
TakeTask(w) ==
  /\ wpc[w] = "loop"
  /\ tasks # <<>>
  /\ wtask' = [wtask EXCEPT ![w] = Head(tasks)]
  /\ tasks' = Tail(tasks)
  /\ activeThreadCount' = activeThreadCount + 1
  /\ wpc' = [wpc EXCEPT ![w] = IF Head(tasks).kind = "fiber" THEN "lock" ELSE "timer"]
  /\ UNCHANGED <<stopFlag, wevents, fdVars, kernelVars, fiberVars>>

\* Fault variant of ResumeTask: the fiber is resumed without its mutex.
ResumeTask_noMutex(w) ==
  LET f == wtask[w].fiber IN
  /\ wpc[w] = "lock"
  /\ IF pc[f] = "term"
       THEN FinishTask(w) /\ UNCHANGED owner
       ELSE /\ owner' = [owner EXCEPT ![f] = w]
            /\ wpc' = [wpc EXCEPT ![w] = "run"]
            /\ UNCHANGED activeThreadCount
  /\ UNCHANGED <<tasks, stopFlag, wtask, wevents, fdVars, kernelVars,
                 timer, pc, opIdx, cancelled, lastRes>>

\* Lock the fiber's mutex (blocking while another worker runs it) and
\* resume it unless it has terminated.
ResumeTask(w) ==
  LET f == wtask[w].fiber IN
  /\ wpc[w] = "lock"
  /\ ~Running(f)
  /\ IF pc[f] = "term"
       THEN FinishTask(w) /\ UNCHANGED owner
       ELSE /\ owner' = [owner EXCEPT ![f] = w]
            /\ wpc' = [wpc EXCEPT ![w] = "run"]
            /\ UNCHANGED activeThreadCount
  /\ UNCHANGED <<tasks, stopFlag, wtask, wevents, fdVars, kernelVars,
                 timer, pc, opIdx, cancelled, lastRes>>

\* No task claimed: resume the idle coroutine.
EnterIdle(w) ==
  /\ wpc[w] = "loop"
  /\ tasks = <<>>
  /\ wpc' = [wpc EXCEPT ![w] = "idle0"]
  /\ UNCHANGED <<schedVars, wtask, wevents, fdVars, kernelVars, fiberVars>>

(***************************************************************************)
(* IOManager::idle, one iteration of its loop.                             *)
(***************************************************************************)

\* TimerManager::listExpiredCb: every expired timer leaves the set and its
\* callback is scheduled; expired timers are drained in deadline order,
\* which the abstract clock leaves open.
ListExpiredCb ==
  LET due == {f \in Fibers : timer[f] = "due"}
  IN /\ timer' = [f \in Fibers |-> IF f \in due THEN "none" ELSE timer[f]]
     /\ \E s \in SetToSeqs(due) :
          tasks' = tasks \o [i \in 1..Len(s) |->
                     TimerTask(s[i], opIdx[s[i]], CurCall(s[i]).fd, CurCall(s[i]).dir)]

\* The epoll_wait half of one idle() round: epoll_wait hands back the
\* queued epitems of open fds (edge-triggered: each one once, with the
\* directions that are registered and ready when it is collected; a closed
\* file's epitem has left the ready list) and the expired timers are
\* scheduled.
IdleWait(w) ==
  /\ wevents' = [wevents EXCEPT ![w] =
       [fd \in Fds |-> IF edge[fd] /\ ~closed[fd]
                          THEN {d \in fdEvents[fd] : ready[fd][d]} ELSE {}]]
  /\ edge' = [fd \in Fds |-> FALSE]
  /\ ListExpiredCb
  /\ wpc' = [wpc EXCEPT ![w] = "idle"]

\* IOManager::stopping() is three reads taken one after the other, without
\* a common lock: getNextTimer() (the timer set's own lock), then
\* m_pendingEventCount, then Scheduler::stopping() under the scheduler
\* mutex.  Another worker runs fibers between them.  The first read that
\* fails sends this round of idle() into epoll_wait.
IdleWake(w) ==
  /\ wpc[w] = "idle0"
  /\ IF \A f \in Fibers : timer[f] = "none"
       THEN /\ wpc' = [wpc EXCEPT ![w] = "stop2"]
            /\ UNCHANGED <<tasks, wevents, edge, timer>>
       ELSE IdleWait(w)
  /\ UNCHANGED <<activeThreadCount, stopFlag, wtask, fdEvents, evFiber,
                 pendingEventCount, ready, arrivals, closed,
                 pc, opIdx, cancelled, owner, lastRes>>

\* Fault variant of IdleStopPending: m_pendingEventCount is not consulted.
IdleStopPending_noCount(w) ==
  /\ wpc[w] = "stop2"
  /\ wpc' = [wpc EXCEPT ![w] = "stop3"]
  /\ UNCHANGED <<tasks, wevents, edge, timer>>
  /\ UNCHANGED <<activeThreadCount, stopFlag, wtask, fdEvents, evFiber,
                 pendingEventCount, ready, arrivals, closed,
                 pc, opIdx, cancelled, owner, lastRes>>

\* Second read of stopping(): m_pendingEventCount == 0.
IdleStopPending(w) ==
  /\ wpc[w] = "stop2"
  /\ IF pendingEventCount = 0
       THEN /\ wpc' = [wpc EXCEPT ![w] = "stop3"]
            /\ UNCHANGED <<tasks, wevents, edge, timer>>
       ELSE IdleWait(w)
  /\ UNCHANGED <<activeThreadCount, stopFlag, wtask, fdEvents, evFiber,
                 pendingEventCount, ready, arrivals, closed,
                 pc, opIdx, cancelled, owner, lastRes>>

\* Third read of stopping(): Scheduler::stopping(); if it holds, idle()
\* breaks out of its loop, the idle fiber ends and run() returns.
IdleStopSched(w) ==
  /\ wpc[w] = "stop3"
  /\ IF SchedulerStopping
       THEN /\ wpc' = [wpc EXCEPT ![w] = "exit"]
            /\ UNCHANGED <<tasks, wevents, edge, timer>>
       ELSE IdleWait(w)
  /\ UNCHANGED <<activeThreadCount, stopFlag, wtask, fdEvents, evFiber,
                 pendingEventCount, ready, arrivals, closed,
                 pc, opIdx, cancelled, owner, lastRes>>

\* One returned epoll_event, under the FdContext mutex: if any reported
\* direction is still registered, the reported directions (real_events)
\* are removed from the kernel mask and triggered.  If that epoll_ctl
\* fails the event is skipped: the directions stay registered with their
\* waiters, and the kernel mask is unchanged.
IdleProcess(w, fd) ==
  LET real == wevents[w][fd] IN
  /\ wpc[w] = "idle"
  /\ real # {}
  /\ wevents' = [wevents EXCEPT ![w][fd] = {}]
  /\ IF fdEvents[fd] \cap real = {}
       THEN UNCHANGED <<tasks, fdVars, edge>>
       ELSE \E fail \in EpollCtlFails :
              IF fail
                THEN UNCHANGED <<tasks, fdVars, edge>>
                ELSE /\ EpollCtl(fd, fdEvents[fd] \ real)
                     /\ TriggerEvent(fd, real)
                     /\ pendingEventCount' = pendingEventCount - Cardinality(real)
  /\ UNCHANGED <<activeThreadCount, stopFlag, wpc, wtask, ready, arrivals,
                 closed, fiberVars>>

\* All returned events handled: the idle coroutine yields to run().
IdleYield(w) ==
  /\ wpc[w] = "idle"
  /\ \A fd \in Fds : wevents[w][fd] = {}
  /\ wpc' = [wpc EXCEPT ![w] = "loop"]
  /\ UNCHANGED <<schedVars, wtask, wevents, fdVars, kernelVars, fiberVars>>

(***************************************************************************)
(* Expired-timer callbacks run in a fresh coroutine (Scheduler::run's cb  *)
(* branch): OnTimer plus the lambda do_io / connect arm.                   *)
(***************************************************************************)

\* The timer_info is alive while the do_io that armed the timer is still
\* in progress; then, unless already cancelled, mark it ETIMEDOUT.
TimerCallback(w) ==
  LET t == wtask[w]
      f == t.fiber
  IN /\ wpc[w] = "timer"
     /\ IF opIdx[f] = t.op /\ pc[f] \in IoPcs /\ ~cancelled[f]
          THEN /\ cancelled' = [cancelled EXCEPT ![f] = TRUE]
               /\ wpc' = [wpc EXCEPT ![w] = "cancel"]
               /\ UNCHANGED activeThreadCount
          ELSE FinishTask(w) /\ UNCHANGED cancelled
     /\ UNCHANGED <<tasks, stopFlag, wtask, wevents, fdVars, kernelVars,
                    timer, pc, opIdx, owner, lastRes>>

\* Fault variant of CancelEvent: m_pendingEventCount is not decremented.
CancelEvent_noDecrement(w) ==
  LET t == wtask[w] IN
  /\ wpc[w] = "cancel"
  /\ IF t.dir \in fdEvents[t.fd]
       THEN /\ EpollCtl(t.fd, fdEvents[t.fd] \ {t.dir})
            /\ UNCHANGED pendingEventCount
            /\ TriggerEvent(t.fd, {t.dir})
       ELSE UNCHANGED <<tasks, fdVars, edge>>
  /\ FinishTask(w)
  /\ UNCHANGED <<stopFlag, wtask, wevents, ready, arrivals, closed, fiberVars>>

\* IOManager::cancelEvent(fd, event) from the callback: whoever is
\* registered for that direction is triggered.  If epoll_ctl fails it
\* returns -1 (true, to a caller that ignores it) and triggers nothing.
CancelEvent(w) ==
  LET t == wtask[w] IN
  /\ wpc[w] = "cancel"
  /\ IF t.dir \in fdEvents[t.fd]
       THEN \E fail \in EpollCtlFails :
              IF fail
                THEN UNCHANGED <<tasks, fdVars, edge>>
                ELSE /\ EpollCtl(t.fd, fdEvents[t.fd] \ {t.dir})
                     /\ pendingEventCount' = pendingEventCount - 1
                     /\ TriggerEvent(t.fd, {t.dir})
       ELSE UNCHANGED <<tasks, fdVars, edge>>
  /\ FinishTask(w)
  /\ UNCHANGED <<stopFlag, wtask, wevents, ready, arrivals, closed, fiberVars>>

(***************************************************************************)
(* Application fibers: the hooked calls of hook.cpp.  A fiber step is     *)
(* taken by the worker that holds the fiber's mutex.                       *)
(***************************************************************************)

\* The entry callable returns: the fiber is TERM and run() moves on.
Finish(f) ==
  /\ Running(f)
  /\ pc[f] = "start"
  /\ opIdx[f] > Len(Script[f])
  /\ pc' = [pc EXCEPT ![f] = "term"]
  /\ YieldToWorker(f)
  /\ UNCHANGED <<tasks, stopFlag, wtask, wevents, fdVars, kernelVars,
                 timer, opIdx, cancelled, lastRes>>

\* Fault variant of CancelAll: the mask is cleared and the contexts reset
\* without triggerEvent, so no waiter is scheduled.
CancelAll_noTrigger(fd) ==
  IF fdEvents[fd] # {}
    THEN /\ EpollCtl(fd, {})
         /\ fdEvents' = [fdEvents EXCEPT ![fd] = {}]
         /\ evFiber' = [evFiber EXCEPT ![fd] = [d \in Dirs |-> NoFiber]]
         /\ pendingEventCount' = pendingEventCount - Cardinality(fdEvents[fd])
         /\ UNCHANGED tasks
    ELSE UNCHANGED <<tasks, fdVars, edge>>

\* Fault variant of CancelAll: m_pendingEventCount is not decremented.
CancelAll_noDecrement(fd) ==
  IF fdEvents[fd] # {}
    THEN /\ EpollCtl(fd, {})
         /\ TriggerEvent(fd, fdEvents[fd])
         /\ UNCHANGED pendingEventCount
    ELSE UNCHANGED <<tasks, fdVars, edge>>

\* IOManager::cancelAll(fd): if any direction is registered, EPOLL_CTL_DEL
\* and trigger READ then WRITE, one pending event less for each.  If the
\* DEL is refused, cancelAll returns at once: nothing is triggered, the
\* directions stay registered with their waiters and counted as pending.
CancelAll(fd) ==
  IF fdEvents[fd] # {}
    THEN \E fail \in EpollCtlFails :
           IF fail
             THEN UNCHANGED <<tasks, fdVars, edge>>
             ELSE /\ EpollCtl(fd, {})
                  /\ TriggerEvent(fd, fdEvents[fd])
                  /\ pendingEventCount' = pendingEventCount - Cardinality(fdEvents[fd])
    ELSE UNCHANGED <<tasks, fdVars, edge>>

\* close(): with an FdCtx, cancelAll(fd) fires every armed direction, the
\* FdCtx is deleted and close_f closes the descriptor; without one (already
\* closed) close_f fails with EBADF.
CloseHook(f) ==
  /\ Running(f)
  /\ pc[f] = "start"
  /\ opIdx[f] <= Len(Script[f])
  /\ CurCall(f).kind = "close"
  /\ LET fd == CurCall(f).fd IN
     IF closed[fd]
       THEN /\ NextCall(f, "EBADF")
            /\ UNCHANGED <<tasks, fdVars, edge, closed>>
       ELSE /\ CancelAll(fd)
            /\ closed' = [closed EXCEPT ![fd] = TRUE]
            /\ NextCall(f, "OK")
  /\ UNCHANGED <<activeThreadCount, stopFlag, wpc, wtask, wevents, ready,
                 arrivals, timer, cancelled, owner>>

\* do_io entry: a closed fd has no FdCtx, so the raw call fails with EBADF;
\* otherwise a fresh timer_info is made and the call is attempted.
IoBegin(f) ==
  /\ Running(f)
  /\ pc[f] = "start"
  /\ opIdx[f] <= Len(Script[f])
  /\ CurCall(f).kind = "io"
  /\ IF closed[CurCall(f).fd]
       THEN NextCall(f, "EBADF") /\ UNCHANGED cancelled
       ELSE /\ pc' = [pc EXCEPT ![f] = "attempt"]
            /\ cancelled' = [cancelled EXCEPT ![f] = FALSE]
            /\ UNCHANGED <<opIdx, lastRes>>
  /\ UNCHANGED <<schedVars, wpc, wtask, wevents, fdVars, kernelVars, timer, owner>>

\* retry: the raw syscall succeeds if the socket is ready (and may leave it
\* drained), fails on a closed fd, or would block.
Attempt(f) ==
  LET fd == CurCall(f).fd
      d  == CurCall(f).dir
  IN /\ Running(f)
     /\ pc[f] = "attempt"
     /\ \/ /\ closed[fd]
           /\ NextCall(f, "EBADF")
           /\ UNCHANGED ready
        \/ /\ ~closed[fd]
           /\ ready[fd][d]
           /\ NextCall(f, "OK")
           /\ \E r \in BOOLEAN : ready' = [ready EXCEPT ![fd][d] = r]
        \/ /\ ~closed[fd]
           /\ ~ready[fd][d]
           /\ pc' = [pc EXCEPT ![f] = IF d \in TimeoutDirs THEN "arm" ELSE "add"]
           /\ UNCHANGED <<ready, opIdx, lastRes>>
     /\ UNCHANGED <<schedVars, wpc, wtask, wevents, fdVars, edge, arrivals,
                    closed, timer, cancelled, owner>>

\* EAGAIN with a timeout configured: addConditionTimer guarded by the
\* weak timer_info.
ArmTimer(f) ==
  /\ Running(f)
  /\ pc[f] = "arm"
  /\ timer' = [timer EXCEPT ![f] = "armed"]
  /\ pc' = [pc EXCEPT ![f] = "add"]
  /\ UNCHANGED <<schedVars, wpc, wtask, wevents, fdVars, kernelVars,
                 opIdx, cancelled, owner, lastRes>>

\* Fault variant of AddEvent: m_pendingEventCount is not incremented.
AddEvent_noCount(f) ==
  LET fd == CurCall(f).fd
      d  == CurCall(f).dir
  IN /\ Running(f)
     /\ pc[f] = "add"
     /\ \/ /\ closed[fd]
           /\ CancelTimer(f)
           /\ NextCall(f, "EBADF")
           /\ UNCHANGED <<fdVars, edge>>
        \/ /\ ~closed[fd]
           /\ d \in fdEvents[fd]
           /\ CancelTimer(f)
           /\ NextCall(f, "EAGAIN")
           /\ UNCHANGED <<fdVars, edge>>
        \/ /\ ~closed[fd]
           /\ d \notin fdEvents[fd]
           /\ EpollCtl(fd, fdEvents[fd] \cup {d})
           /\ UNCHANGED pendingEventCount
           /\ fdEvents' = [fdEvents EXCEPT ![fd] = @ \cup {d}]
           /\ evFiber' = [evFiber EXCEPT ![fd][d] = f]
           /\ pc' = [pc EXCEPT ![f] = "yield"]
           /\ UNCHANGED <<timer, opIdx, lastRes>>
     /\ UNCHANGED <<schedVars, wpc, wtask, wevents, ready, arrivals, closed,
                    cancelled, owner>>

\* Fault variant of AddEvent: epoll_ctl is given the old mask
\* (EPOLLET | fd_ctx->events) without the new direction.
AddEvent_oldMask(f) ==
  LET fd == CurCall(f).fd
      d  == CurCall(f).dir
  IN /\ Running(f)
     /\ pc[f] = "add"
     /\ \/ /\ closed[fd]
           /\ CancelTimer(f)
           /\ NextCall(f, "EBADF")
           /\ UNCHANGED <<fdVars, edge>>
        \/ /\ ~closed[fd]
           /\ d \in fdEvents[fd]
           /\ CancelTimer(f)
           /\ NextCall(f, "EAGAIN")
           /\ UNCHANGED <<fdVars, edge>>
        \/ /\ ~closed[fd]
           /\ d \notin fdEvents[fd]
           /\ EpollCtl(fd, fdEvents[fd])
           /\ pendingEventCount' = pendingEventCount + 1
           /\ fdEvents' = [fdEvents EXCEPT ![fd] = @ \cup {d}]
           /\ evFiber' = [evFiber EXCEPT ![fd][d] = f]
           /\ pc' = [pc EXCEPT ![f] = "yield"]
           /\ UNCHANGED <<timer, opIdx, lastRes>>
     /\ UNCHANGED <<schedVars, wpc, wtask, wevents, ready, arrivals, closed,
                    cancelled, owner>>

\* IOManager::addEvent(fd, event) with the running fiber as the context:
\* -1 if the direction is already registered or epoll_ctl fails (closed
\* fd), in which case do_io cancels its timer and returns -1 with the
\* errno of the failed call.
AddEvent(f) ==
  LET fd == CurCall(f).fd
      d  == CurCall(f).dir
  IN /\ Running(f)
     /\ pc[f] = "add"
     /\ \/ /\ closed[fd]
           /\ CancelTimer(f)
           /\ NextCall(f, "EBADF")
           /\ UNCHANGED <<fdVars, edge>>
        \/ /\ ~closed[fd]
           /\ d \in fdEvents[fd]
           /\ CancelTimer(f)
           /\ NextCall(f, "EAGAIN")
           /\ UNCHANGED <<fdVars, edge>>
        \/ /\ ~closed[fd]
           /\ d \notin fdEvents[fd]
           /\ EpollCtl(fd, fdEvents[fd] \cup {d})
           /\ pendingEventCount' = pendingEventCount + 1
           /\ fdEvents' = [fdEvents EXCEPT ![fd] = @ \cup {d}]
           /\ evFiber' = [evFiber EXCEPT ![fd][d] = f]
           /\ pc' = [pc EXCEPT ![f] = "yield"]
           /\ UNCHANGED <<timer, opIdx, lastRes>>
     /\ UNCHANGED <<schedVars, wpc, wtask, wevents, ready, arrivals, closed,
                    cancelled, owner>>

\* Fiber::yield after a successful addEvent.
Yield(f) ==
  /\ Running(f)
  /\ pc[f] = "yield"
  /\ pc' = [pc EXCEPT ![f] = "wait"]
  /\ YieldToWorker(f)
  /\ UNCHANGED <<tasks, stopFlag, wtask, wevents, fdVars, kernelVars,
                 timer, opIdx, cancelled, lastRes>>

\* Resumed: cancel the timer, return ETIMEDOUT if the timeout callback
\* marked the timer_info, otherwise goto retry.
AfterWait(f) ==
  /\ Running(f)
  /\ pc[f] = "wait"
  /\ CancelTimer(f)
  /\ IF cancelled[f]
       THEN NextCall(f, "ETIMEDOUT")
       ELSE pc' = [pc EXCEPT ![f] = "attempt"] /\ UNCHANGED <<opIdx, lastRes>>
  /\ UNCHANGED <<schedVars, wpc, wtask, wevents, fdVars, kernelVars, cancelled, owner>>

(***************************************************************************)
(* Environment: time, the peer, and the thread calling stop().             *)
(***************************************************************************)

\* The clock passes the timer's deadline.
TimerExpires(f) ==
  /\ timer[f] = "armed"
  /\ timer' = [timer EXCEPT ![f] = "due"]
  /\ UNCHANGED <<schedVars, wpc, wtask, wevents, fdVars, kernelVars,
                 pc, opIdx, cancelled, owner, lastRes>>

\* The peer sends data / frees buffer space; ep_poll_callback queues the
\* epitem when the direction is in the registered mask.
PeerReady(fd, d) ==
  /\ arrivals < MaxArrivals
  /\ ~closed[fd]
  /\ ready' = [ready EXCEPT ![fd][d] = TRUE]
  /\ edge' = [edge EXCEPT ![fd] = @ \/ d \in fdEvents[fd]]
  /\ arrivals' = arrivals + 1
  /\ UNCHANGED <<schedVars, wpc, wtask, wevents, fdVars, closed, fiberVars>>

\* Scheduler::stop: m_stopping is set (its tickles only shorten the idle
\* workers' epoll_wait, which returns within 5 s anyway).
Stop ==
  /\ ~stopFlag
  /\ stopFlag' = TRUE
  /\ UNCHANGED <<tasks, activeThreadCount, wpc, wtask, wevents, fdVars,
                 kernelVars, fiberVars>>

\* Every worker has left run(): the process is done.
Terminated ==
  /\ \A w \in Workers : wpc[w] = "exit"
  /\ UNCHANGED vars

FiberStep(f) ==
  \/ Finish(f) \/ CloseHook(f) \/ IoBegin(f) \/ Attempt(f)
  \/ ArmTimer(f) \/ AddEvent(f) \/ Yield(f) \/ AfterWait(f)

WorkerStep(w) ==
  \/ TakeTask(w) \/ ResumeTask(w) \/ EnterIdle(w)
  \/ IdleWake(w) \/ IdleStopPending(w) \/ IdleStopSched(w)
  \/ \E fd \in Fds : IdleProcess(w, fd)
  \/ IdleYield(w) \/ TimerCallback(w) \/ CancelEvent(w)
  \/ \E f \in Fibers : owner[f] = w /\ FiberStep(f)

Next ==
  \/ \E w \in Workers : WorkerStep(w)
  \/ \E f \in Fibers : TimerExpires(f)
  \/ \E fd \in Fds, d \in Dirs : PeerReady(fd, d)
  \/ Stop
  \/ Terminated

\* Worker threads are OS threads that keep running, and the idle
\* coroutine's epoll_wait returns within MAX_TIMEOUT; a timer's deadline is
\* eventually reached.  The peer and stop() are not assumed to act.
Fairness ==
  /\ \A w \in Workers : WF_vars(WorkerStep(w))
  /\ \A f \in Fibers : WF_vars(TimerExpires(f))

Spec == Init /\ [][Next]_vars /\ Fairness

(***************************************************************************)
(* Properties.                                                             *)
(***************************************************************************)

Tasks == {FiberTask(f) : f \in Fibers}
         \cup {TimerTask(f, k, fd, d) : f \in Fibers, k \in 1..8, fd \in Fds, d \in Dirs}

TypeOK ==
  /\ tasks \in Seq(Tasks)
  /\ activeThreadCount \in 0..Cardinality(Workers)
  /\ stopFlag \in BOOLEAN
  /\ wpc \in [Workers -> {"loop", "lock", "run", "timer", "cancel", "idle0", "stop2", "stop3", "idle", "exit"}]
  /\ wtask \in [Workers -> Tasks \cup {NoTask}]
  /\ wevents \in [Workers -> [Fds -> SUBSET Dirs]]
  /\ fdEvents \in [Fds -> SUBSET Dirs]
  /\ evFiber \in [Fds -> [Dirs -> Fibers \cup {NoFiber}]]
  /\ pendingEventCount \in Nat
  /\ ready \in [Fds -> [Dirs -> BOOLEAN]]
  /\ edge \in [Fds -> BOOLEAN]
  /\ arrivals \in 0..MaxArrivals
  /\ closed \in [Fds -> BOOLEAN]
  /\ timer \in [Fibers -> {"none", "armed", "due"}]
  /\ pc \in [Fibers -> {"start", "term"} \cup IoPcs]
  /\ opIdx \in [Fibers -> Nat \ {0}]
  /\ cancelled \in [Fibers -> BOOLEAN]
  /\ owner \in [Fibers -> Workers \cup {NoWorker}]
  /\ lastRes \in [Fibers -> Results]

\* Number of places that will resume fiber f: EventContexts holding it,
\* queued tasks for it, and workers that claimed it and wait for its mutex.
Wakers(f) ==
  Cardinality({<<fd, d>> \in Fds \X Dirs : evFiber[fd][d] = f})
  + Len(SelectSeq(tasks, LAMBDA t : t = FiberTask(f)))
  + Cardinality({w \in Workers : wpc[w] = "lock" /\ wtask[w] = FiberTask(f)})

\* A fiber suspended in do_io after a successful addEvent is resumed by
\* exactly one of readiness (idle), cancelEvent (its timeout) or cancelAll
\* (close): it is never lost and never scheduled twice, whatever the order
\* in which idle workers, timer callbacks and other fibers act on the fd.
OneWaker ==
  \A f \in Fibers : pc[f] = "wait" /\ ~Running(f) => Wakers(f) = 1

\* No coroutine runs on two workers at once: a fiber triggered between its
\* addEvent and its yield is only resumed after the yield (fiber mutex in
\* Scheduler::run).
FiberExclusive ==
  \A w1, w2 \in Workers :
    w1 # w2 /\ wpc[w1] = "run" /\ wpc[w2] = "run" => wtask[w1] # wtask[w2]

\* With one worker, that worker only leaves run() (the three reads of
\* IOManager::stopping() all true) when every application fiber has
\* finished: no fiber is left suspended on an fd or a timer.  (With two
\* workers this does not hold of each worker: a fiber on the other worker
\* can arm a timer, addEvent and yield between the three reads.)
ExitOnlyWhenDone ==
  \A w \in Workers : wpc[w] = "exit" => \A f \in Fibers : pc[f] = "term"

\* However the three reads of IOManager::stopping() interleave with fibers
\* on other workers, the last worker to leave run() leaves no application
\* fiber suspended on an fd or a timer: once every worker has returned,
\* nothing is left to resume it.
LastExitOnlyWhenDone ==
  (\A w \in Workers : wpc[w] = "exit") => \A f \in Fibers : pc[f] = "term"

\* triggerEvent asserts that the direction it fires is registered: an idle
\* worker only fires directions of an epoll_event that are still in
\* FdContext::events when it processes the event under the fd mutex.
TriggerRegisteredOnly ==
  \A w \in Workers, fd \in Fds :
    wpc[w] = "idle" /\ wevents[w][fd] \cap fdEvents[fd] # {}
      => wevents[w][fd] \subseteq fdEvents[fd]

\* A blocking hooked call never surfaces EAGAIN: would-block is internal.
NoWouldBlockSurfaced == \A f \in Fibers : lastRes[f] # "EAGAIN"

\* A registered direction whose socket is ready is eventually delivered:
\* edge-triggered readiness is not lost between the failed syscall, the
\* addEvent and the idle workers' epoll_wait.
ReadyEventDelivered ==
  \A fd \in Fds, d \in Dirs :
    (d \in fdEvents[fd] /\ ready[fd][d]) ~> (d \notin fdEvents[fd])

\* Once stop() has been called and the application is done, every worker
\* leaves run(): the pending-event count and timer set drain to empty.
WorkersExit ==
  (stopFlag /\ \A f \in Fibers : pc[f] = "term") ~> (\A w \in Workers : wpc[w] = "exit")

\* Every hooked call on a socket with a timeout returns: a blocked read or
\* write is ended by readiness, close, or its timer.  This must survive a
\* refused epoll_ctl in idle() or cancelEvent(): the skipped event keeps its
\* waiter registered, so a later edge, timeout or close still wakes it.
AllCallsReturn == <>(\A f \in Fibers : pc[f] = "term")

=============================================================================
