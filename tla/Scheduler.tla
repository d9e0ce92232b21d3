----------------------------- MODULE Scheduler -----------------------------
(***************************************************************************)
(* The life of a Scheduler as IOManager runs it (src/corlib/scheduler.cpp, *)
(* thread.cpp, ioscheduler.cpp): the constructing (root) thread starts    *)
(* the worker Threads, each of which reports its id through the start-up  *)
(* semaphore; it schedules coroutines with a thread affinity and calls    *)
(* stop(), which with use_caller runs the scheduler coroutine in the root *)
(* thread and then joins the workers.  Workers scan the task FIFO for the *)
(* first task they may run, resume coroutines under the fiber mutex, run  *)
(* callbacks, and idle in epoll_wait, woken by the tickle pipe or by a    *)
(* timeout.  Coroutines run the sleep hooks (hook.cpp): addTimer with a   *)
(* callback that reschedules the coroutine, then yield.                   *)
(*                                                                         *)
(* Descriptors and their events are left out (IOManager.tla has them):    *)
(* m_pendingEventCount is 0 throughout.                                    *)
(***************************************************************************)
EXTENDS Integers, Sequences, FiniteSets, SequencesExt

CONSTANTS
  Workers,   \* the Threads start() creates (model values)
  Root,      \* the thread that constructs the scheduler and calls stop()
  UseCaller, \* the use_caller argument of the constructor
  Fibers,    \* coroutines the root thread schedules
  Affinity,  \* Affinity[f]: the thread argument of schedule(f, thread)
  Naps,      \* Naps[f]: how many sleep hooks coroutine f calls
  AnyThread, \* thread = -1: any thread may run the task
  NoId,      \* Thread::m_id before Thread::run sets it
  None       \* fiber mutex free / no task claimed

\* The threads that run Scheduler::run: the workers, and the root thread
\* inside stop() when use_caller is set.
Threads == Workers \cup (IF UseCaller THEN {Root} ELSE {})

ASSUME /\ UseCaller \in BOOLEAN /\ Root \notin Workers
       /\ \A f \in Fibers : Affinity[f] \in Threads \cup {AnyThread} /\ Naps[f] \in Nat

VARIABLES
  tasks,     \* Scheduler::m_tasks: FIFO of [fiber, cb, thread]
  active,    \* m_activeThreadCount
  idleCnt,   \* m_idleThreadCount
  stopFlag,  \* m_stopping
  pipe,      \* the tickle pipe holds a byte whose edge no epoll_wait took yet
  tickled,   \* TimerManager::m_tickled
  timer,     \* the sleep timer of each coroutine: "none", "armed", "due"
  wpc,       \* where each thread is in Thread::run / Scheduler::run / idle
  wtask,     \* the task each thread has claimed
  idleTerm,  \* the thread's idle coroutine has returned (TERM)
  owner,     \* the thread holding the coroutine's m_mutex and running it
  fpc,       \* coroutine state: "new", "ready", "running", "yielding", "term"
  naps,      \* sleep hooks the coroutine still calls
  rpc,       \* where the root thread is: start, schedule, stop, join
  starting,  \* the Thread whose constructor start() is in
  sem,       \* Thread::m_semaphore count
  tid,       \* Thread::m_id
  threadIds  \* Scheduler::m_threadIds

schedVars == <<tasks, active, idleCnt, stopFlag, pipe, tickled, timer>>
thrVars   == <<wpc, wtask, idleTerm, owner>>
fibVars   == <<fpc, naps>>
rootVars  == <<rpc, starting, sem, tid, threadIds>>
vars == <<schedVars, thrVars, fibVars, rootVars>>

Task(f, cb, th) == [fiber |-> f, cb |-> cb, thread |-> th]
NoTask == Task(None, FALSE, AnyThread)

\* The scan's test: the task may run on thread t.
Runnable(t, task) == task.thread \in {AnyThread, t}

(***************************************************************************)
(* IOManager::tickle and Scheduler::scheduleLock.                          *)
(***************************************************************************)

\* tickle(): a byte is written to the pipe only if some thread is counted
\* idle (hasIdleThreads).
Tickle(doIt) == pipe' = (pipe \/ (doIt /\ idleCnt > 0))

\* scheduleLock(task): append under m_mutex; tickle if the queue was empty.
ScheduleLock(task) ==
  /\ tasks' = Append(tasks, task)
  /\ Tickle(tasks = <<>>)

\* IOManager::stopping: no timer, no pending event, and Scheduler::stopping.
SchedulerStopping == stopFlag /\ tasks = <<>> /\ active = 0

\* Mutant: IOManager::stopping without the check that no timer is left.
IOStopping_noTimers == SchedulerStopping

\* Taken as one step here, although the code's reads are separate: a
\* coroutine on another thread may arm its sleep timer between them, so
\* one worker can leave while it sleeps.  The properties of this model are
\* about the last thread to leave, which re-reads after every coroutine
\* has yielded; IOManager.tla splits the reads and checks that case.
IOStopping == (\A f \in Fibers : timer[f] = "none") /\ SchedulerStopping

(***************************************************************************)
(* The constructor (use_caller records the root thread's id), start() and *)
(* the Thread start-up handshake.                                          *)
(***************************************************************************)

Init ==
  /\ tasks = <<>> /\ active = 0 /\ idleCnt = 0 /\ stopFlag = FALSE
  /\ pipe = FALSE /\ tickled = FALSE
  /\ timer = [f \in Fibers |-> "none"]
  /\ wpc = [t \in Threads |-> "off"]
  /\ wtask = [t \in Threads |-> NoTask]
  /\ idleTerm = [t \in Threads |-> FALSE]
  /\ owner = [f \in Fibers |-> None]
  /\ fpc = [f \in Fibers |-> "new"] /\ naps = Naps
  /\ rpc = "start" /\ starting = None
  /\ sem = [w \in Workers |-> 0] /\ tid = [w \in Workers |-> NoId]
  /\ threadIds = IF UseCaller THEN {Root} ELSE {}

\* start(), under m_mutex: new Thread(run): pthread_create.
CreateThread(w) ==
  /\ rpc = "start" /\ wpc[w] = "off"
  /\ wpc' = [wpc EXCEPT ![w] = "init"]
  /\ starting' = w /\ rpc' = "ctorwait"
  /\ UNCHANGED <<schedVars, wtask, idleTerm, owner, fibVars, sem, tid, threadIds>>

\* Thread::run: m_id = gettid(), then m_semaphore.signal(); the thread
\* goes on into Scheduler::run.
ThreadRun(w) ==
  /\ wpc[w] = "init"
  /\ tid' = [tid EXCEPT ![w] = w]
  /\ sem' = [sem EXCEPT ![w] = @ + 1]
  /\ wpc' = [wpc EXCEPT ![w] = "loop"]
  /\ UNCHANGED <<schedVars, wtask, idleTerm, owner, fibVars, rpc, starting, threadIds>>

\* Fault variant of ThreadCreated: the constructor does not wait on the
\* semaphore before start() reads getId().
ThreadCreated_noWait ==
  /\ rpc = "ctorwait"
  /\ threadIds' = threadIds \cup {tid[starting]}
  /\ starting' = None
  /\ rpc' = IF \A w \in Workers : wpc[w] # "off" THEN "sched" ELSE "start"
  /\ UNCHANGED <<schedVars, thrVars, fibVars, sem, tid>>

\* The Thread constructor returns after m_semaphore.wait(); start() pushes
\* getId() into m_threadIds and releases m_mutex after the last thread.
ThreadCreated ==
  /\ rpc = "ctorwait" /\ sem[starting] > 0
  /\ sem' = [sem EXCEPT ![starting] = @ - 1]
  /\ threadIds' = threadIds \cup {tid[starting]}
  /\ starting' = None
  /\ rpc' = IF \A w \in Workers : wpc[w] # "off" THEN "sched" ELSE "start"
  /\ UNCHANGED <<schedVars, thrVars, fibVars, tid>>

\* The application schedules its coroutines: schedule(f, thread).
Schedule(f) ==
  /\ rpc = "sched" /\ fpc[f] = "new"
  /\ ScheduleLock(Task(f, FALSE, Affinity[f]))
  /\ fpc' = [fpc EXCEPT ![f] = "ready"]
  /\ UNCHANGED <<active, idleCnt, stopFlag, tickled, timer, thrVars, naps, rootVars>>

(***************************************************************************)
(* Scheduler::run, one step of its loop per action.                       *)
(***************************************************************************)

\* What tickle_me can be after the scan (scheduler.cpp:128).  A skipped
\* task pinned to another thread sets it.  When a task was taken, the
\* erased iterator is compared with end(): undefined behaviour, which in
\* a vector still points at the task after the removed one and in a list
\* is a freed node that never equals end().
TickleMe(t, i) ==
  LET skipped == \E j \in 1..(IF i = 0 THEN Len(tasks) ELSE i - 1) :
                   ~Runnable(t, tasks[j])
  IN IF i = 0 THEN {skipped} ELSE {skipped \/ i < Len(tasks), TRUE}

\* Under m_mutex (which start() holds until every Thread is created), take
\* the first task thread t may run, then tickle if tickle_me.  With no task
\* the thread leaves run() if its idle coroutine has returned, else it goes
\* to resume it.
Scan(t) ==
  LET i == SelectInSeq(tasks, LAMBDA x : Runnable(t, x))
  IN /\ wpc[t] = "loop" /\ rpc \notin {"start", "ctorwait"}
     /\ \E tm \in TickleMe(t, i) : Tickle(tm)
     /\ IF i # 0
          THEN /\ tasks' = RemoveAt(tasks, i)
               /\ active' = active + 1
               /\ wtask' = [wtask EXCEPT ![t] = tasks[i]]
               /\ wpc' = [wpc EXCEPT ![t] = IF tasks[i].cb THEN "cb" ELSE "fiber"]
          ELSE /\ wpc' = [wpc EXCEPT ![t] = IF idleTerm[t] THEN "exit" ELSE "toidle"]
               /\ UNCHANGED <<tasks, active, wtask>>
  /\ UNCHANGED <<idleCnt, stopFlag, tickled, timer, idleTerm, owner, fibVars, rootVars>>

\* Mutant: the coroutine is resumed without taking its m_mutex.
ResumeFiber_noMutex(t) ==
  LET f == wtask[t].fiber IN
  /\ wpc[t] = "fiber"
  /\ IF fpc[f] = "term"
       THEN /\ active' = active - 1 /\ wpc' = [wpc EXCEPT ![t] = "loop"]
            /\ wtask' = [wtask EXCEPT ![t] = NoTask] /\ UNCHANGED <<owner, fpc>>
       ELSE /\ owner' = [owner EXCEPT ![f] = t] /\ fpc' = [fpc EXCEPT ![f] = "running"]
            /\ wpc' = [wpc EXCEPT ![t] = "resumed"] /\ UNCHANGED <<active, wtask>>
  /\ UNCHANGED <<tasks, idleCnt, stopFlag, pipe, tickled, timer, idleTerm, naps, rootVars>>

\* Lock the coroutine's m_mutex (wait while another thread runs it); a
\* coroutine that has terminated is not resumed.
ResumeFiber(t) ==
  LET f == wtask[t].fiber IN
  /\ wpc[t] = "fiber" /\ owner[f] = None
  /\ IF fpc[f] = "term"
       THEN /\ active' = active - 1 /\ wpc' = [wpc EXCEPT ![t] = "loop"]
            /\ wtask' = [wtask EXCEPT ![t] = NoTask] /\ UNCHANGED <<owner, fpc>>
       ELSE /\ owner' = [owner EXCEPT ![f] = t] /\ fpc' = [fpc EXCEPT ![f] = "running"]
            /\ wpc' = [wpc EXCEPT ![t] = "resumed"] /\ UNCHANGED <<active, wtask>>
  /\ UNCHANGED <<tasks, idleCnt, stopFlag, pipe, tickled, timer, idleTerm, naps, rootVars>>

\* Mutant: m_activeThreadCount is not decremented after a resume.
Release_noDecrement(t, f) ==
  /\ owner' = [owner EXCEPT ![f] = None]
  /\ active' = active
  /\ wpc' = [wpc EXCEPT ![t] = "loop"]
  /\ wtask' = [wtask EXCEPT ![t] = NoTask]

\* The resumed coroutine returns control: the thread releases its mutex,
\* decrements m_activeThreadCount and loops.
Release(t, f) ==
  /\ owner' = [owner EXCEPT ![f] = None]
  /\ active' = active - 1
  /\ wpc' = [wpc EXCEPT ![t] = "loop"]
  /\ wtask' = [wtask EXCEPT ![t] = NoTask]

\* A callback task: a fresh coroutine runs it.  The only callbacks here are
\* the sleep timers', scheduleLock(fiber, -1).
RunCb(t) ==
  /\ wpc[t] = "cb"
  /\ ScheduleLock(Task(wtask[t].fiber, FALSE, AnyThread))
  /\ active' = active - 1
  /\ wpc' = [wpc EXCEPT ![t] = "loop"]
  /\ wtask' = [wtask EXCEPT ![t] = NoTask]
  /\ UNCHANGED <<idleCnt, stopFlag, tickled, timer, idleTerm, owner, fibVars, rootVars>>

\* m_idleThreadCount++ and resume the idle coroutine.
EnterIdle(t) ==
  /\ wpc[t] = "toidle"
  /\ idleCnt' = idleCnt + 1
  /\ wpc' = [wpc EXCEPT ![t] = "idle0"]
  /\ UNCHANGED <<tasks, active, stopFlag, pipe, tickled, timer, wtask, idleTerm,
                 owner, fibVars, rootVars>>

\* IOManager::idle: if stopping() the idle coroutine returns (TERM) and
\* run() decrements m_idleThreadCount; otherwise getNextTimer (which
\* clears m_tickled) and epoll_wait.
IdleCheck(t) ==
  /\ wpc[t] = "idle0"
  /\ IF IOStopping
       THEN /\ idleTerm' = [idleTerm EXCEPT ![t] = TRUE]
            /\ idleCnt' = idleCnt - 1
            /\ wpc' = [wpc EXCEPT ![t] = "loop"]
            /\ UNCHANGED tickled
       ELSE /\ tickled' = FALSE
            /\ wpc' = [wpc EXCEPT ![t] = "wait"]
            /\ UNCHANGED <<idleTerm, idleCnt>>
  /\ UNCHANGED <<tasks, active, stopFlag, pipe, timer, wtask, owner, fibVars, rootVars>>

\* Mutant: listExpiredCb hands out the callbacks of due timers but leaves
\* them in m_timers.
Wake_keepTimers(t) ==
  LET due == {f \in Fibers : timer[f] = "due"} IN
  /\ wpc[t] = "wait"
  /\ \E s \in SetToSeqs(due) :
       tasks' = tasks \o [i \in 1..Len(s) |-> Task(s[i], TRUE, AnyThread)]
  /\ pipe' = IF pipe THEN FALSE ELSE (due # {} /\ tasks = <<>>)
  /\ idleCnt' = idleCnt - 1
  /\ wpc' = [wpc EXCEPT ![t] = "loop"]
  /\ UNCHANGED <<active, stopFlag, tickled, timer, wtask, idleTerm, owner, fibVars, rootVars>>

\* epoll_wait returns, on the pipe's edge or on its timeout (at most
\* MAX_TIMEOUT or the next deadline).  listExpiredCb schedules the
\* callbacks of the due timers (scheduleLock tickles into an empty queue;
\* this thread itself counts as idle); the pipe, if its edge was taken, is
\* drained after that.  The idle coroutine yields and run() decrements
\* m_idleThreadCount.
Wake(t) ==
  LET due == {f \in Fibers : timer[f] = "due"} IN
  /\ wpc[t] = "wait"
  /\ \E s \in SetToSeqs(due) :
       tasks' = tasks \o [i \in 1..Len(s) |-> Task(s[i], TRUE, AnyThread)]
  /\ pipe' = IF pipe THEN FALSE ELSE (due # {} /\ tasks = <<>>)
  /\ timer' = [f \in Fibers |-> IF f \in due THEN "none" ELSE timer[f]]
  /\ idleCnt' = idleCnt - 1
  /\ wpc' = [wpc EXCEPT ![t] = "loop"]
  /\ UNCHANGED <<active, stopFlag, tickled, wtask, idleTerm, owner, fibVars, rootVars>>

(***************************************************************************)
(* The coroutines: the sleep hooks and the end of the coroutine.          *)
(***************************************************************************)

\* The thread that runs coroutine f.
Runner(f) == CHOOSE t \in Threads : wpc[t] = "resumed" /\ wtask[t].fiber = f

\* sleep / usleep / nanosleep with the hook enabled: addTimer(ms, cb) with
\* cb = scheduleLock(fiber, -1).  The timer is at begin() of m_timers if
\* no other is there; before only armed ones its place depends on their
\* deadlines; it never precedes one already due.  At the front, and unless
\* m_tickled, addTimer sets m_tickled and tickles.
Sleep(f) ==
  LET others == {g \in Fibers \ {f} : timer[g] # "none"}
      Fronts == IF \E g \in others : timer[g] = "due" THEN {FALSE}
                ELSE IF others = {} THEN {TRUE} ELSE BOOLEAN
  IN /\ fpc[f] = "running" /\ naps[f] > 0
     /\ \E front \in Fronts :
          /\ tickled' = (tickled \/ front)
          /\ Tickle(front /\ ~tickled)
     /\ timer' = [timer EXCEPT ![f] = "armed"]
     /\ naps' = [naps EXCEPT ![f] = @ - 1]
     /\ fpc' = [fpc EXCEPT ![f] = "yielding"]
     /\ UNCHANGED <<tasks, active, idleCnt, stopFlag, thrVars, rootVars>>

\* fiber->yield() in the sleep hook: resume() returns in the thread that
\* ran the coroutine.
Yield(f) ==
  /\ fpc[f] = "yielding"
  /\ fpc' = [fpc EXCEPT ![f] = "ready"]
  /\ Release(Runner(f), f)
  /\ UNCHANGED <<tasks, idleCnt, stopFlag, pipe, tickled, timer, idleTerm, naps, rootVars>>

\* The coroutine's function returns: TERM, back to Scheduler::run.
Finish(f) ==
  /\ fpc[f] = "running" /\ naps[f] = 0
  /\ fpc' = [fpc EXCEPT ![f] = "term"]
  /\ Release(Runner(f), f)
  /\ UNCHANGED <<tasks, idleCnt, stopFlag, pipe, tickled, timer, idleTerm, naps, rootVars>>

\* The deadline of a sleep timer passes.
Expire(f) ==
  /\ timer[f] = "armed"
  /\ timer' = [timer EXCEPT ![f] = "due"]
  /\ UNCHANGED <<tasks, active, idleCnt, stopFlag, pipe, tickled, thrVars, fibVars, rootVars>>

(***************************************************************************)
(* Scheduler::stop, called by the root thread once it has scheduled its   *)
(* coroutines.                                                             *)
(***************************************************************************)

\* stopping() is false (m_stopping is not yet set), but the
\* getNextTimer() inside it clears m_tickled; stop() then sets
\* m_stopping, tickles once per thread (a byte only if one is idle), and
\* with use_caller resumes the scheduler coroutine: Scheduler::run in the
\* root thread.
Stop ==
  /\ rpc = "sched" /\ \A f \in Fibers : fpc[f] # "new"
  /\ stopFlag' = TRUE
  /\ Tickle(TRUE)
  /\ IF UseCaller
       THEN wpc' = [wpc EXCEPT ![Root] = "loop"] /\ rpc' = "insched"
       ELSE rpc' = "join" /\ UNCHANGED wpc
  /\ tickled' = FALSE
  /\ UNCHANGED <<tasks, active, idleCnt, timer, wtask, idleTerm, owner,
                 fibVars, starting, sem, tid, threadIds>>

\* Scheduler::run has returned in the root thread: the scheduler
\* coroutine ends and stop() goes on.
SchedFiberEnd ==
  /\ rpc = "insched" /\ wpc[Root] = "exit"
  /\ rpc' = "join"
  /\ UNCHANGED <<schedVars, thrVars, fibVars, starting, sem, tid, threadIds>>

\* m_threads is swapped out under m_mutex and every Thread is joined.
Join ==
  /\ rpc = "join" /\ \A w \in Workers : wpc[w] = "exit"
  /\ rpc' = "done"
  /\ UNCHANGED <<schedVars, thrVars, fibVars, starting, sem, tid, threadIds>>

\* stop() has returned: the program is over.
Terminated == rpc = "done" /\ UNCHANGED vars

ThreadStep(t) ==
  \/ Scan(t) \/ ResumeFiber(t) \/ RunCb(t) \/ EnterIdle(t) \/ IdleCheck(t)
  \/ Wake(t) \/ (t \in Workers /\ ThreadRun(t))

FiberStep(f) == Sleep(f) \/ Yield(f) \/ Finish(f)

RootStep ==
  \/ \E w \in Workers : CreateThread(w)
  \/ ThreadCreated \/ \E f \in Fibers : Schedule(f)
  \/ Stop \/ SchedFiberEnd \/ Join

Next ==
  \/ RootStep
  \/ \E t \in Threads : ThreadStep(t)
  \/ \E f \in Fibers : FiberStep(f) \/ Expire(f)
  \/ Terminated

\* Every thread keeps running (an idle one returns from epoll_wait at the
\* latest after MAX_TIMEOUT), a running coroutine keeps running, deadlines
\* pass, and the root thread, having scheduled its work, calls stop().
Fairness ==
  /\ \A t \in Threads : WF_vars(ThreadStep(t))
  /\ \A f \in Fibers : WF_vars(FiberStep(f)) /\ WF_vars(Expire(f))
  /\ WF_vars(RootStep)

Spec == Init /\ [][Next]_vars /\ Fairness

-----------------------------------------------------------------------------
TypeOK ==
  /\ tasks \in Seq([fiber : Fibers, cb : BOOLEAN, thread : Threads \cup {AnyThread}])
  /\ active \in 0..Cardinality(Threads) /\ idleCnt \in 0..Cardinality(Threads)
  /\ stopFlag \in BOOLEAN /\ pipe \in BOOLEAN /\ tickled \in BOOLEAN
  /\ timer \in [Fibers -> {"none", "armed", "due"}]
  /\ wpc \in [Threads -> {"off", "init", "loop", "fiber", "resumed", "cb",
                          "toidle", "idle0", "wait", "exit"}]
  /\ idleTerm \in [Threads -> BOOLEAN] /\ owner \in [Fibers -> Threads \cup {None}]
  /\ fpc \in [Fibers -> {"new", "ready", "running", "yielding", "term"}]
  /\ rpc \in {"start", "ctorwait", "sched", "insched", "join", "done"}
  /\ threadIds \subseteq Threads \cup {NoId}

\* Once start() has returned, m_threadIds holds the id of every thread of
\* the scheduler: each Thread constructor waits on the semaphore that
\* Thread::run signals only after it has set m_id.
ThreadIdsKnown == rpc \notin {"start", "ctorwait"} => threadIds = Threads

\* A coroutine is resumed only when it is suspended (READY): never while
\* another thread still runs it, e.g. when its sleep timer fired and its
\* callback rescheduled it before it yielded, and never after TERM.  The
\* fiber mutex and the TERM check in Scheduler::run guarantee it.
ResumeReadyOnly ==
  [][\A f \in Fibers :
       (owner'[f] # None /\ owner'[f] # owner[f]) => fpc[f] = "ready"]_vars

\* stop() returns, and by then every scheduled coroutine has run to its
\* end: its sleeps all woke it, tasks pinned to the root thread ran in the
\* scheduler coroutine, and no thread left run() while work remained.
AllDone == <>(rpc = "done" /\ \A f \in Fibers : fpc[f] = "term")

\* Refinement mapping: a suspended coroutine (READY, or still yielding) is
\* ready in CoroutineSpec once a task to resume it is in m_fibers or held by
\* a thread about to resume it, and asleep until then (its timer armed or
\* due, or its callback queued).
Woken(f) ==
  \/ \E i \in 1..Len(tasks) : tasks[i].fiber = f /\ ~tasks[i].cb
  \/ \E t \in Threads : wpc[t] = "fiber" /\ wtask[t].fiber = f

AbsState(f) ==
  IF fpc[f] \in {"ready", "yielding"}
    THEN IF Woken(f) THEN "ready" ELSE "asleep"
    ELSE fpc[f]

CS == INSTANCE CoroutineSpec
        WITH st <- [f \in Fibers |-> AbsState(f)],
             stopped <- stopFlag, returned <- (rpc = "done")

\* The scheduler implements CoroutineSpec: each sleep is answered by exactly
\* one wakeup (never two resume tasks for one suspension, never a task for
\* a coroutine that has not slept), a woken coroutine is eventually
\* resumed, a sleeping one eventually woken, and stop() returns only after
\* every coroutine has ended.  It rests on listExpiredCb removing the
\* timers it fires, the fiber mutex and the TERM check in Scheduler::run.
CoroutineSpecRefined == CS!Spec
====
