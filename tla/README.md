# TLA+ models of corlib

corlib (`src/corlib/`) is an M:N coroutine runtime for Linux. Application
code runs in coroutines ("fibers"). A pool of worker threads runs those
coroutines. Blocking socket calls are intercepted ("hooked") and turned into
epoll waits plus timers. This directory holds TLA+ models of the runtime and
TLC configurations that check them.

## 1. The system

| Part | Source | State | Operations |
|------|--------|-------|------------|
| Scheduler | `scheduler.cpp` | `m_tasks` (FIFO of fiber or callback tasks, optional thread affinity), `m_activeThreadCount`, `m_idleThreadCount`, `m_stopping` | `run()` worker loop (scan queue, resume fiber under its mutex, run callback in a fresh fiber, else run the idle fiber), `stop()`, `stopping()`, `tickle()` |
| IOManager | `ioscheduler.cpp` | epoll fd, self-pipe, `FdContext` per fd (`events` mask, read/write `EventContext` = fiber or callback, mutex), `m_pendingEventCount` | `addEvent`, `delEvent`, `cancelEvent`, `cancelAll`, `idle()` (epoll_wait ≤ 5 s, expired timers, per-event processing, yield), `tickle()` (pipe write), `stopping()` |
| TimerManager | `timer.cpp` | `std::set` of timers ordered by deadline, `m_tickled`, `m_previouseTime` | `addTimer`, `addConditionTimer`, `Timer::cancel/refresh/reset`, `getNextTimer`, `listExpiredCb` (with clock-rollover detection) |
| Hooks | `hook.cpp` | thread-local `t_hook_enable` | `do_io` (retry on EINTR; on EAGAIN arm a timeout from SO_RCVTIMEO/SO_SNDTIMEO, `addEvent`, yield, then retry or return ETIMEDOUT), `close` (`cancelAll` then `FdMgr::del`), `sleep` family (a timer + yield), `connect_with_timeout`, `accept`, `fcntl`/`ioctl` (user vs system O_NONBLOCK), `setsockopt` (timeouts) |
| FdManager | `fd_manager.cpp/.h` | vector of `FdCtx` (socket?, system/user nonblock, recv/send timeout) | `get(fd, auto_create)`, `del(fd)`, `FdCtx::init` |
| Thread | `thread.cpp` | pthread, semaphore for start-up | constructor waits for the thread to start, `join` |
| Primitives | `mutex.h` | Semaphore, mutex wrappers, FiberSemaphore | — |
| Clients | `src/client/` | example programs | — |

How the parts interact: a hooked `read` that would block calls
`IOManager::addEvent(fd, READ)`, which registers the current fiber in the
fd's `EventContext` and yields. A worker in `idle()` gets the readiness from
`epoll_wait`. It removes the direction from the mask (`epoll_ctl` MOD/DEL)
and calls `triggerEvent`, which pushes the fiber onto `m_tasks`. Some worker
then resumes the fiber, and `do_io` retries the raw call. A timeout is a
condition timer. Its callback sets `timer_info::cancelled` and calls
`cancelEvent`, which triggers the fiber in the same way. `close` calls
`cancelAll`, which wakes every waiter of the fd.

Fiber, ScheduleTask, Timer and Thread are declared in headers that are not
in `src/` (`fiber.h`, `scheduler.h`, `timer.h`, `thread.h`). Their behaviour
(resume/yield, the TERM state, the task record) is modelled from how the
sources use them. Those definitions are marked `spec_modelled` in
`PROJECT.json`.

## 2. Modules

### `IOManager.tla`: reactor, worker loop, I/O timeouts and hooked I/O

One module, because these parts interact in a single step of the code.
For example, the timeout callback runs as a scheduler task and calls
`cancelEvent`, which pushes to the scheduler queue.

- **Constants.** `Workers`, `Fibers` and `Fds` are small sets. `Dirs` is the
  set of directions in use. `Script[f]` is the sequence of hooked calls fiber
  `f` makes (`IoCall(fd, d)` or `CloseCall(fd)`). `TimeoutDirs` are the
  directions with SO_RCVTIMEO/SO_SNDTIMEO set. `MaxArrivals` bounds the
  readiness edges the peer produces.
- **Scheduler state.** `tasks` is `m_tasks`; `activeThreadCount` and
  `stopFlag` are the scheduler's counters and flag.
- **Worker state.** `wpc`, `wtask` and `wevents` record where each worker is
  in `run()`/`idle()` and the epoll_event buffer it still has to process.
- **FdContext.** `fdEvents` is `events`, `evFiber` is the fiber in each
  EventContext, and `pendingEventCount` is `m_pendingEventCount`.
- **Kernel.**
  - `ready[fd][d]` is the readiness level.
  - `edge[fd]` means the epitem is on the ready list.
  - EPOLLET semantics: an ADD/MOD re-polls the new mask, and `epoll_wait`
    takes the epitem off the list.
  - Two workers can each receive the same epitem if a new edge arrives in
    between.
- **Fibers.** `pc`, `opIdx`, `timer`, `cancelled` (`timer_info::cancelled`),
  `owner` (the worker holding the fiber mutex) and `lastRes`.

| Action | Code |
|---|---|
| `TakeTask` | `run()` queue scan, erase, `m_activeThreadCount++` |
| `ResumeTask` | fiber branch of `run()`: fiber mutex, TERM check, resume |
| `TimerCallback` | callback branch running the `do_io` timeout lambda |
| `CancelEvent` | the lambda's `cancelEvent` |
| `EnterIdle` / `IdleProcess` / `IdleYield` | idle branch of `run()`; one epoll_event of `IOManager::idle()`; its yield |
| `IdleWake` / `IdleStopPending` / `IdleStopSched` | the three reads of `IOManager::stopping()` in `idle()`: `getNextTimer()`, `m_pendingEventCount`, `Scheduler::stopping()`. They are separate steps because the code takes no common lock, and a fiber on another worker may run between them. The first read that fails goes on to `IdleWait` (epoll_wait of open fds and `listExpiredCb`). |
| `IoBegin` / `Attempt` / `ArmTimer` / `AddEvent` / `Yield` / `AfterWait` | `do_io` step by step |
| `CloseHook` | `close` with `cancelAll` |
| `Finish` | the fiber returns |
| `TimerExpires` / `PeerReady` / `Stop` | the environment: clock, peer, `Scheduler::stop` |

**Fault model.** `EpollCtlFails` says whether the kernel may refuse an
`epoll_ctl` MOD or DEL. A refusal is EBADF or ENOENT for an fd closed past
the hook, or ENOMEM. `IdleProcess`, `CancelEvent` and `CancelAll` then take the code's
failure path:
- `cancelAll` returns -1 before triggering, and `close` goes on regardless
  (`ioscheduler.cpp:323-328`);
- `idle()` logs and skips the event, which stays registered with its
  waiter (`ioscheduler.cpp:463-467`);
- `cancelEvent` returns -1 without triggering (`ioscheduler.cpp:277-282`).

The refusal is one outcome of the action, not an action of its own. Only
`read_close` turns it on.

`MCIOManager.tla` gives the constants their values and defines the scripts.

### `TimerManager.tla` and `TimerSpec.tla`: the timer set

`TimerSpec` is what a timer promises its user. A timer is armed with a
period and fires only once the wall clock has reached its deadline. A
one-shot timer is disarmed by firing. A recurring one is re-armed one period
after the expiry is processed. `cancel`, `refresh` and `reset` do what
`timer.h` says. `fired` flips on every firing, so that a firing is never
mistaken for a cancel.

`TimerManager` follows `timer.cpp`:
- **The set.** `timers` is the `std::set`, ordered by `m_next` only. Two
  timers with equal deadlines are one element: the second `insert` is
  dropped and `find` returns the other timer (`Equiv`, `SetInsert`).
- **Per timer.** `next`, `ms` and `cb` are `m_next`, `m_ms` and whether
  `m_cb` is set. `opc` and `rarg` split `reset` into its two locked steps
  (`ResetBegin` erases, `ResetEnd` re-adds through `addTimer`).
- **Manager.** `tickled` is `m_tickled` and `pipe` the self-pipe. `Tickle`
  writes the pipe only when an idle thread is counted.
- **Idle thread.** `ipc` walks `getNextTimer` (`waitLeft` = the epoll_wait
  timeout, capped by MAX_TIMEOUT), `epoll_wait`, and `listExpiredCb` one
  popped timer per step (`ListStart`, `ListPop`, `ListEnd`), with
  `detectClockRollover`, then resumes.
- **Clock.** `now` is the wall clock. `Tick` moves it forward and `StepBack`
  moves it back a bounded number of times (`MaxJumps`). `waitLeft` counts
  down only on `Tick`, because epoll_wait measures monotonic time.

`MCTimerManager_refine.cfg` checks `TimerSpecRefined`. It is
`INSTANCE TimerSpec WITH armed <- cb, dl <- next, period <- ms`, with the
abstract `Spec` as a PROPERTY.

### `FdHooks.tla`: FdManager and the descriptor hooks

Descriptor numbers (`kfile`) refer to open file descriptions. A description
holds O_NONBLOCK (`dnb`), whether it is a socket (`dsock`) and the kernel's
SO_RCVTIMEO/SO_SNDTIMEO (`dto`). `ctx` is `FdManager::m_datas`: per number,
an FdCtx with `isSocket`, `sysNb`, `userNb` and the timeouts. `intent` is a
history variable: the O_NONBLOCK setting the application last asked for.
A call is made from a thread with or without the hook (`t_hook_enable`).

| Action | Code |
|---|---|
| `Socket`, `Accept` | `socket`, `accept`, with `FdManager::get(fd, true)` (`GetOrCreate`) and `FdCtx::init` (`NewCtx`). `accept` registers the new fd even without the hook. |
| `Open` | `open` of a file: not hooked, no FdCtx |
| `Close` | `close`: with the hook, `cancelAll` and `FdManager::del` (`Del`), then `close_f` |
| `SetFl` | `fcntl(F_SETFL)`: a context socket records the user's flag and keeps the system's |
| `Ioctl` | `ioctl(FIONBIO)`: records the user's flag and passes the request through unchanged |
| `Setsockopt` | `setsockopt(SO_RCVTIMEO/SO_SNDTIMEO)`: stores `tv_sec*1000 + tv_usec/1000` (`HookMs`), then `setsockopt_f` (`KernelTo`: zero is no timeout, rounding up, EDOM) |

`GetFl` is what `fcntl(F_GETFL)` returns. `HookedPath` is do_io's test for
taking the wait path.

### `ConnectHook.tla`: connect_with_timeout

One fiber calls `connect` on one socket.
- `mode` is the FdCtx the call finds: no context, a file, a socket the user
  made non-blocking, or a blocking socket. `timerOn` says whether a timeout
  was given.
- The hook's steps are `RawOrBadf`, `Start` (connect_f), `Arm`,
  `Add` (addEvent and yield), `Resume`, `AfterWait` and `SockOpt`.
- The kernel moves `conn` from pending to established or failed, leaving an
  error in `soerr`.
- `Deliver` is `IOManager::idle` waking the fiber on readiness. EPOLLERR and
  EPOLLHUP wake both directions.
- `Expire` and `TimerCb` are the condition timer and its callback.
- `IdleLoop` is epoll_wait returning with nothing to do.

### `Scheduler.tla`: the scheduler's life, threads, tickles and sleep

An `IOManager` as its users drive it, with descriptors left out (that is
`IOManager.tla`'s part), so `m_pendingEventCount` stays 0.
- **Root thread** (`rpc`). The constructor (`Init`: with `use_caller` the
  root thread's id is in `m_threadIds`) and `start()`. `start()` holds
  `m_mutex` while `CreateThread` and `ThreadCreated` build each `Thread`.
  The Thread constructor waits on the start-up semaphore (`sem`), and
  `ThreadRun` (Thread::run) sets `m_id` (`tid`) and signals it.
  Then `Schedule(f)` calls `schedule(f, Affinity[f])`. `Stop` sets
  `m_stopping`, tickles, and with `use_caller` starts `Scheduler::run` in
  the root thread. `SchedFiberEnd` is the scheduler coroutine returning,
  and `Join` joins the workers.
- **Threads** (`wpc`). `Scan` is the locked scan of `m_tasks`. It takes the
  first task the thread may run, skips tasks pinned to other threads, and
  tickles if `tickle_me`. `TickleMe` gives the values `tickle_me` can take.
  The comparison of the erased iterator with `end()` at
  `scheduler.cpp:128` is undefined behaviour, so both outcomes are
  included. `ResumeFiber` takes the fiber mutex and skips a TERM fiber.
  `RunCb` runs a timer callback. `EnterIdle`, `IdleCheck` and `Wake` are
  `m_idleThreadCount++`, `IOManager::idle`'s stopping check with
  `getNextTimer`, and `epoll_wait` returning. `epoll_wait` returns on the
  pipe's edge or on its timeout; it then runs `listExpiredCb`, drains the
  pipe and yields.
- **Tickles.** `Tickle` writes the pipe only while `m_idleThreadCount > 0`.
  `ScheduleLock` tickles when the queue was empty.
- **Coroutines** (`fpc`). `Sleep` is the sleep hooks. It calls `addTimer`,
  which tickles when the new timer is at the front and `m_tickled` is
  clear, and `Yield` follows. The timer callback reschedules the
  coroutine with affinity -1. `Finish` is the coroutine's end.
  `Expire` is a deadline passing.
- **Abstract spec.** `CoroutineSpec.tla` states what the scheduler promises
  a coroutine, with no threads, queue or timers. A coroutine goes new,
  ready, running, then asleep and ready again, or ends. It is woken once
  per sleep. `stop()` returns only after every coroutine has ended. Weak
  fairness says a ready coroutine is run and a sleeping one woken.
  `Scheduler` refines it (`CS == INSTANCE CoroutineSpec`). A suspended
  coroutine maps to ready when a task to resume it is in `m_tasks` or
  held by a thread about to resume it, and to asleep otherwise (`Woken`,
  `AbsState`). `m_stopping` maps to `stopped`, and `rpc = "done"` to
  `returned`.

### Plan for the next sittings (in order)

1. **`IOManager` extensions.**
   - `delEvent`.
   - Callback event contexts.
   - The `epoll_ctl` failure of `addEvent`.
2. **`Scheduler` without `use_caller`.** Needs a run slot.

## 3. Runs

| Run | Config | Expect | What it shows |
|---|---|---|---|
| `read_close` | `MCIOManager_read_close.cfg` | pass | 2 workers. f1 reads with SO_RCVTIMEO and then closes the socket; f2 reads with SO_RCVTIMEO. `epoll_ctl` MOD/DEL may be refused in `idle()`, `cancelEvent` and `cancelAll`. Properties: `OneWaker` (a suspended fiber has exactly one pending wakeup), `FiberExclusive` (no fiber is resumed by two workers), `LastExitOnlyWhenDone` (once every worker has left `run()`, no fiber is left suspended), `WorkersExit` (after `stop()` all workers exit). The per-worker `ExitOnlyWhenDone` is false here: TLC finds a worker leaving between the other worker's `addEvent` and its yield, because the three reads of `stopping()` are separate. `AllCallsReturn` is false too: a reader whose timeout's `cancelEvent` is refused, with no further edge, stays suspended. |
| `duplex1` | `MCIOManager_duplex1.cfg` | pass | 1 worker, with a reader and a writer on one socket, then close. `OneWaker` as above. `ExitOnlyWhenDone`: with a single worker, nothing runs between the three reads of `stopping()`, so the worker leaves `run()` only when every fiber has finished. `ReadyEventDelivered`: a registered direction whose socket is ready is eventually delivered. `WorkersExit` as above. |
| `stale_trigger` | `MCIOManager_stale_trigger.cfg` | violation | `TriggerRegisteredOnly` fails: two idle workers fire the same READ (finding A). |
| `timeout_lost` | `MCIOManager_timeout_lost.cfg` | violation | `AllCallsReturn` fails: a timeout that fires before `addEvent` is lost (finding B). |
| `timers_refine` | `MCTimerManager_refine.cfg` | pass | A one-shot and a recurring timer, every owner call, and a clock that steps back once. `TimerSpecRefined`: the timer manager implements `TimerSpec`, so no timer fires before its deadline or after its cancel, and a recurring timer is re-armed one period on. `NoOversleep`: while the clock has not stepped back, an idle thread in epoll_wait with no tickle pending wakes no later than the earliest deadline. This is what the `m_tickled` single-tickle protocol and `getNextTimer` must guarantee. |
| `lost_timer` | `MCTimerManager_lost_timer.cfg` | violation | `TimerFires` fails: a timer whose deadline equals another's is dropped by `std::set::insert` and never fires (finding D). |
| `rollover_loop` | `MCTimerManager_rollover_loop.cfg` | violation | `ScanTerminates` fails: after the clock steps back past the rollover gap, a recurring timer is popped and re-inserted forever (finding E). |
| `fd_flags` | `MCFdHooks_flags.cfg` | pass | All calls come from hooked threads. `NoWorkerBlock`: do_io's wait path only runs on a kernel-non-blocking socket. `GetFlShowsIntent`: F_GETFL shows what the application set. |
| `ioctl_block` | `MCFdHooks_ioctl_block.cfg` | violation | `NoWorkerBlock` fails: `ioctl(FIONBIO, 0)` makes a hooked socket blocking in the kernel (finding F). |
| `connect_ok` | `MCConnectHook_ok.cfg` | pass | Every FdCtx case, with and without a timeout, racing the kernel. `ConnectTruthful`: connect returns 0 only when connected. `ConnectReturns`: every call returns. |
| `connect_refused` | `MCConnectHook_refused.cfg` | violation | `ConnectTruthful` fails: an immediate ECONNREFUSED is reported as success (finding G). |
| `scheduler_life` | `MCScheduler_run.cfg` | pass | IOManager(3, use_caller): two workers and the root thread. Three coroutines: one sleeps twice and may run anywhere, one is pinned to a worker, and one is pinned to the root thread and sleeps once. `ThreadIdsKnown`: after `start()`, `m_threadIds` holds every thread's id. `ResumeReadyOnly`: a coroutine is resumed only when suspended, even when its sleep timer reschedules it before it yields. `AllDone`: `stop()` returns, and every coroutine has finished by then. `CoroutineSpecRefined`: the scheduler implements `CoroutineSpec`, so each sleep gets exactly one wakeup, and `stop()` never returns while a coroutine sleeps. |

Each property of a passing run has a mutant in its module, a variant of a
mapped definition named `<Definition>_<change>`, that TLC finds violating
it. For example, `GetNextTimer_keepTickled`, `IdleStopPending_noCount` and `Add_read`.

**Bounds.**
- **IOManager.**
  - One fd, two fibers with scripts of at most two calls, and one or two
    workers. `MaxArrivals = 2`.
  - This reaches every interleaving the hazards need: two idle workers
    holding the same epitem, a timeout racing a wakeup, close racing a
    waiter, and re-registration after a consumed edge.
- **TimerManager.**
  - Two timers, one of them recurring. Periods {1, 2}, `MaxTime = 4`.
  - Two owner calls per timer, and `MaxTimeout` 1 or 2.
  - `MaxJumps = 1` step back of `BackStep = 1` in the refinement run.
  - Equal deadlines, a deadline at the epoll timeout, and a step back
    across a pending deadline all occur.
  - `NoOversleep` is stated for a clock that has not stepped back. Once the
    clock can step back, `refresh` can move a deadline earlier without a
    tickle, and the property fails.
- **FdHooks.**
  - Three numbers and three descriptions. A number is reused while another
    stays open, by a socket or by a file.
- **ConnectHook.**
  - One call. Every ordering of the kernel's completion, the readiness
    delivery and the timer is explored.
- **Scheduler.**
  - Two workers plus the root thread, and three coroutines, two of which
    sleep.
  - This is enough for the cases that matter: both workers in epoll_wait
    at once, a task pinned to a sleeping worker, and a task pinned to the
    root thread, which only `stop()` can run. It also covers a sleep timer
    expiring before its coroutine yields, and `stop()` while timers are
    armed.
  - One coroutine sleeps twice, so that a second wakeup for its first
    sleep would land in its second one, where `CoroutineSpecRefined`
    sees it.

**Fairness.**
- **Workers and the idle thread.** Weak fairness on workers, on the idle
  thread and on `Tick`: the idle thread wakes at least every MAX_TIMEOUT =
  5 s, and a deadline is eventually reached.
- **Timers.** Weak fairness on timer expiry and on running the timer
  callback.
- **Kernel connections.** Weak fairness on the kernel ending a pending
  connection. TCP gives up after a bounded number of SYN retries.
- **Scheduler threads and coroutines.** Weak fairness on each thread of
  `Scheduler` (epoll_wait returns by MAX_TIMEOUT at the latest) and on a
  running coroutine. In that module the root thread is also weakly fair:
  `AllDone` is about a program that goes on to call `stop()` after
  scheduling its work.
- **No fairness** on the peer, or on `stop()` and the application's calls
  in the other modules. Liveness properties that need them state them as
  premises.

## 4. Findings

- **A (`ioscheduler.cpp:470`).** `idle()` can call `triggerEvent` for a
  direction another idle worker already fired. This fails the
  `assert(events & event)` at line 44.
- **B (`hook.cpp:155`).** If the I/O timeout fires between arming the timer
  and `addEvent`, the cancel is lost and the call waits forever.
- **D (`timer.cpp:206`).** Timers with equal `m_next` are one element of
  the set. A second timer with the same deadline is never inserted and never
  fires.
- **E (`timer.cpp:172`).** After a clock rollover, `listExpiredCb` treats
  every timer as expired. A recurring timer is re-inserted and popped
  without end.
- **F (`hook.cpp:599`).** `ioctl(FIONBIO, 0)` passes the request to the
  kernel unchanged. The socket becomes blocking, and the next hooked read
  blocks the worker thread. `fcntl(F_SETFL)` keeps O_NONBLOCK, but `ioctl`
  does not.
- **G (`hook.cpp:314`).** The early return needs `n != -1`, so an
  immediate connect failure falls through to the wait. `SO_ERROR` was
  already consumed by `connect_f`, so the hook returns 0.

**Known issues without a run of their own.** These are listed as hazards
in `PROJECT.json`, with the property that states each one:
- Two readers of one socket get EAGAIN (`NoWouldBlockSurfaced`).
- After a clock step back, `refresh` moves a deadline earlier without a
  tickle (`NoOversleep`).
- A close from a thread without the hook leaves a stale FdCtx. The next
  socket that reuses the number stays blocking (`NoWorkerBlock`).
- A zero timeval becomes a 0 ms timeout, and a sub-millisecond one rounds down to 0 (`HookMs`, `hook.cpp:622`). No run checks it: with those inputs do_io's timeouts and the kernel's disagree at once.
- A number made with F_DUPFD shows O_NONBLOCK to the application.
- `tickle()` writes nothing while no thread is counted idle
  (`ioscheduler.cpp:351`). In `Scheduler`, TLC reaches both workers in
  epoll_wait with an empty pipe while a task they may run is queued: it
  was scheduled between a worker's empty scan and its
  `m_idleThreadCount++`. The task waits up to MAX_TIMEOUT (5 s).
- `addEvent` can shrink `m_fdContexts`. It tests the size under the
  read lock, then resizes to `fd * 1.5` under the write lock without
  testing again (`ioscheduler.cpp:147`). `FdManager::get` does test
  again. If two threads register fds 100 and 40 at once, the second
  resize cuts the table to 60. fd 100's waiter is then never woken by
  `close()` or its timeout, because `cancelEvent` and `cancelAll` find
  no context. No model has the table yet.
- `stop()` without `use_caller` from the constructing thread fails
  `assert(GetThis() != this)`, because the constructor always calls
  `SetThis()`.

## 5. Not modelled (yet)

- **Scheduler.** The base class's `tickle()` and `idle()`, which
  IOManager overrides. The base `idle()` would call the hooked `sleep`
  with a null IOManager.
- **IOManager.** `delEvent`, callback event contexts, and the
  `epoll_ctl` failure of `addEvent`, which only returns -1 to the caller.
  The refused DEL of `cancelAll` is modelled (fault model above).
- **Liveness of a waiter under refused `epoll_ctl`.** `read_close`
  checks that a refusal never makes a waiter resumable twice, not that
  the waiter returns: with refusals, it need not.
- **F_DUPFD and the other pass-through fcntl commands.**
- **Reads from threads without the hook.**
- **The sleep durations.** `Scheduler` abstracts each duration to the time
  at which its timer expires. The 32-bit wrap of `seconds * 1000` is beyond
  TLC's integers.
- **`FdManager::get` re-check race.** It is modelled as one atomic step.
- **`mutex.h`.** Mutex, RWMutex, Spinlock, CASLock, the scoped-lock
  wrappers and FiberSemaphore are used by no file in `src/`. The runtime
  locks with `std::mutex` and `std::shared_mutex`, and those are atomic
  steps of the models. The start-up `Semaphore` has only a declaration in
  `src/`; `Scheduler` models it as a counter.
- **Thread's destructor** (detach) and thread names.
- **The example clients.**
- **Stray characters.** The source as shipped does not compile:
  `ioscheduler.cpp:404`/`406` have stray characters. The models follow the
  evident intent of those lines.
