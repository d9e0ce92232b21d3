---------------------------- MODULE TimerManager ----------------------------
(***************************************************************************)
(* corlib's TimerManager (src/corlib/timer.cpp) and the part of           *)
(* IOManager::idle that drives it (src/corlib/ioscheduler.cpp):           *)
(* getNextTimer bounds the epoll_wait timeout, listExpiredCb collects the *)
(* expired callbacks, and addTimer tickles the idle thread through the    *)
(* self-pipe when a timer becomes the earliest one (m_tickled makes that  *)
(* a single tickle until the next getNextTimer).                          *)
(*                                                                         *)
(* m_timers is a std::set ordered by Timer::Comparator, which compares    *)
(* m_next only: two timers with the same deadline are equivalent, so an   *)
(* insert of the second is a no-op and find() returns the first.  Each    *)
(* timer is driven by one owner thread (its calls do not overlap); the    *)
(* idle thread runs concurrently with the owners.  Time is in ticks of   *)
(* the wall clock (system_clock), which may also be stepped back.         *)
(***************************************************************************)
EXTENDS Integers, FiniteSets

CONSTANTS
  Timers,       \* Timer objects (model values)
  Recurring,    \* the timers created with recurring = true
  Periods,      \* periods in ticks (m_ms) the owners use
  MaxTime,      \* the wall clock does not go past this tick
  MaxCalls,     \* bound on API calls per timer
  MaxTimeout,   \* MAX_TIMEOUT of IOManager::idle, in ticks
  RolloverGap,  \* the one hour of detectClockRollover, in ticks
  BackStep,     \* largest step back of the wall clock
  MaxJumps      \* bound on steps back of the wall clock

ASSUME /\ Recurring \subseteq Timers
       /\ Periods \subseteq Nat \ {0}
       /\ {MaxTime, MaxCalls, MaxTimeout, RolloverGap, BackStep, MaxJumps} \subseteq Nat

VARIABLES
  now,       \* system_clock::now()
  prevTime,  \* TimerManager::m_previouseTime
  jumps,     \* steps back the wall clock has taken
  next,      \* Timer::m_next
  ms,        \* Timer::m_ms
  cb,        \* Timer::m_cb is not null
  made,      \* the Timer has been created by addTimer
  calls,     \* API calls made on each timer
  opc,       \* owner inside reset(): "idle" or "readd" (between its two locks)
  rarg,      \* reset's arguments while in "readd"
  timers,    \* TimerManager::m_timers
  tickled,   \* TimerManager::m_tickled
  pipe,      \* an unread tickle edge on the self-pipe (m_tickleFds)
  ipc,       \* idle thread: "get", "wait", "list", "scan", "busy"
  waitLeft,  \* remaining epoll_wait timeout (monotonic ticks)
  lnow,      \* the `now` listExpiredCb read on entry
  roll,      \* listExpiredCb's rollover flag
  fired      \* flips each time a timer's m_cb is pushed into cbs

vars == <<now, prevTime, jumps, next, ms, cb, made, calls, opc, rarg, timers,
          tickled, pipe, ipc, waitLeft, lnow, roll, fired>>
ownerVars == <<next, ms, cb, made, calls, opc, rarg, fired>>
clockVars == <<now, prevTime, jumps>>
idleVars  == <<ipc, waitLeft, lnow, roll>>

-----------------------------------------------------------------------------
(* m_timers under Timer::Comparator (lhs->m_next < rhs->m_next).           *)

\* The elements find(t) can return: those equivalent to t.
Equiv(t) == {u \in timers : next[u] = next[t]}

\* *m_timers.begin(): keys are unique, so the earliest timer is unique.
Front == CHOOSE t \in timers : \A u \in timers : next[t] <= next[u]

\* m_timers.insert(t) with m_next = n into S (t \notin S): a no-op when an
\* element with the same deadline is already there.
SetInsert(S, t, n) ==
  IF \E u \in S : next[u] = n THEN S ELSE S \cup {t}

\* IOManager::tickle: the pipe is written only if a thread is in idle().
Tickle == IF ipc # "busy" THEN pipe' = TRUE ELSE UNCHANGED pipe

\* TimerManager::addTimer(timer) for t with deadline n: insert, and tickle
\* once if the element at t's key is begin() and no tickle is pending.
AddTimerAt(t, n) ==
  LET atFront == (\A u \in timers : n <= next[u]) /\ ~tickled IN
  /\ timers' = SetInsert(timers, t, n)
  /\ tickled' = (tickled \/ atFront)
  /\ IF atFront THEN Tickle ELSE UNCHANGED pipe

-----------------------------------------------------------------------------
(* The owners' calls.  They take m_mutex exclusively, so none runs while  *)
(* the idle thread is inside listExpiredCb.                               *)

Call(t) ==
  /\ made[t]
  /\ opc[t] = "idle"
  /\ calls[t] < MaxCalls
  /\ ipc # "scan"
  /\ calls' = [calls EXCEPT ![t] = @ + 1]

\* TimerManager::addTimer(ms, cb, recurring) and the Timer constructor.
AddTimer(t, p) ==
  /\ ~made[t]
  /\ ipc # "scan"
  /\ made' = [made EXCEPT ![t] = TRUE]
  /\ calls' = [calls EXCEPT ![t] = 1]
  /\ cb' = [cb EXCEPT ![t] = TRUE]
  /\ ms' = [ms EXCEPT ![t] = p]
  /\ next' = [next EXCEPT ![t] = now + p]
  /\ AddTimerAt(t, now + p)
  /\ UNCHANGED <<opc, rarg, fired, clockVars, idleVars>>

\* Timer::cancel: clear m_cb, erase what find(t) returns.
Cancel(t) ==
  /\ Call(t)
  /\ IF cb[t]
       THEN /\ cb' = [cb EXCEPT ![t] = FALSE]
            /\ timers' = timers \ Equiv(t)
       ELSE UNCHANGED <<cb, timers>>
  /\ UNCHANGED <<next, ms, made, fired, opc, rarg, tickled, pipe, clockVars, idleVars>>

\* Timer::refresh: erase what find(t) returns, m_next = now + m_ms, insert.
Refresh(t) ==
  /\ Call(t)
  /\ IF cb[t] /\ Equiv(t) # {}
       THEN /\ next' = [next EXCEPT ![t] = now + ms[t]]
            /\ timers' = SetInsert(timers \ Equiv(t), t, now + ms[t])
       ELSE UNCHANGED <<next, timers>>
  /\ UNCHANGED <<ms, cb, made, fired, opc, rarg, tickled, pipe, clockVars, idleVars>>

\* Timer::reset, first half: the early return, then under the lock the
\* checks and the erase.
ResetBegin(t, p, fromNow) ==
  /\ Call(t)
  /\ IF p = ms[t] /\ ~fromNow
       THEN UNCHANGED <<opc, rarg, timers>>
       ELSE IF cb[t] /\ Equiv(t) # {}
              THEN /\ timers' = timers \ Equiv(t)
                   /\ opc' = [opc EXCEPT ![t] = "readd"]
                   /\ rarg' = [rarg EXCEPT ![t] = [ms |-> p, fromNow |-> fromNow]]
              ELSE UNCHANGED <<opc, rarg, timers>>
  /\ UNCHANGED <<next, ms, cb, made, fired, tickled, pipe, clockVars, idleVars>>

\* Timer::reset, second half: new m_ms and m_next, then addTimer(this).
ResetEnd(t) ==
  LET start == IF rarg[t].fromNow THEN now ELSE next[t] - ms[t]
      n     == start + rarg[t].ms
  IN /\ opc[t] = "readd"
     /\ ipc # "scan"
     /\ ms' = [ms EXCEPT ![t] = rarg[t].ms]
     /\ next' = [next EXCEPT ![t] = n]
     /\ AddTimerAt(t, n)
     /\ opc' = [opc EXCEPT ![t] = "idle"]
     /\ UNCHANGED <<cb, made, fired, calls, rarg, clockVars, idleVars>>

-----------------------------------------------------------------------------
(* The idle thread.                                                        *)

\* Fault variant of GetNextTimer: m_tickled is not reset.
GetNextTimer_keepTickled ==
  /\ ipc = "get"
  /\ waitLeft' = IF timers = {} THEN MaxTimeout
                 ELSE IF next[Front] <= now THEN 0
                 ELSE IF next[Front] - now < MaxTimeout THEN next[Front] - now
                 ELSE MaxTimeout
  /\ ipc' = "wait"
  /\ UNCHANGED <<ownerVars, clockVars, timers, tickled, pipe, lnow, roll>>

\* Fault variant of GetNextTimer: the timeout is not capped at MAX_TIMEOUT.
GetNextTimer_noCap ==
  /\ ipc = "get"
  /\ tickled' = FALSE
  /\ waitLeft' = IF timers = {} THEN MaxTimeout
                 ELSE IF next[Front] <= now THEN 0
                 ELSE next[Front] - now
  /\ ipc' = "wait"
  /\ UNCHANGED <<ownerVars, clockVars, timers, pipe, lnow, roll>>

\* TimerManager::getNextTimer, capped at MAX_TIMEOUT by idle().
GetNextTimer ==
  /\ ipc = "get"
  /\ tickled' = FALSE
  /\ waitLeft' = IF timers = {} THEN MaxTimeout
                 ELSE IF next[Front] <= now THEN 0
                 ELSE IF next[Front] - now < MaxTimeout THEN next[Front] - now
                 ELSE MaxTimeout
  /\ ipc' = "wait"
  /\ UNCHANGED <<ownerVars, clockVars, timers, pipe, lnow, roll>>

\* epoll_wait returns on its timeout or on the self-pipe edge.
EpollWait ==
  /\ ipc = "wait"
  /\ waitLeft = 0 \/ pipe
  /\ pipe' = FALSE
  /\ ipc' = "list"
  /\ UNCHANGED <<ownerVars, clockVars, timers, tickled, waitLeft, lnow, roll>>

\* Fault variant of DetectClockRollover: any step back counts.
DetectClockRollover_anyBack == now < prevTime

\* TimerManager::detectClockRollover.
DetectClockRollover == now < prevTime - RolloverGap

\* listExpiredCb entry: read now, take the lock, detect a rollover.
ListStart ==
  /\ ipc = "list"
  /\ lnow' = now
  /\ roll' = DetectClockRollover
  /\ prevTime' = now
  /\ ipc' = "scan"
  /\ UNCHANGED <<ownerVars, now, jumps, timers, tickled, pipe, waitLeft>>

Expired == timers # {} /\ (roll \/ next[Front] <= lnow)

\* One turn of listExpiredCb's loop: take begin(), hand its callback over;
\* a recurring timer is re-inserted at now + m_ms, a one-shot one loses m_cb.
ListPop ==
  LET t == Front IN
  /\ ipc = "scan"
  /\ Expired
  /\ IF t \in Recurring
       THEN /\ next' = [next EXCEPT ![t] = lnow + ms[t]]
            /\ timers' = SetInsert(timers \ {t}, t, lnow + ms[t])
            /\ UNCHANGED cb
       ELSE /\ cb' = [cb EXCEPT ![t] = FALSE]
            /\ timers' = timers \ {t}
            /\ UNCHANGED next
  /\ fired' = [fired EXCEPT ![t] = ~@]
  /\ UNCHANGED <<ms, made, calls, opc, rarg, clockVars, idleVars, tickled, pipe>>

\* The loop ends; idle() schedules the callbacks, handles the events and
\* yields to the scheduler, which runs the tasks.
ListEnd ==
  /\ ipc = "scan"
  /\ ~Expired
  /\ ipc' = "busy"
  /\ UNCHANGED <<ownerVars, clockVars, timers, tickled, pipe, waitLeft, lnow, roll>>

\* The scheduler has no more tasks and resumes the idle fiber.
Resume ==
  /\ ipc = "busy"
  /\ ipc' = "get"
  /\ UNCHANGED <<ownerVars, clockVars, timers, tickled, pipe, waitLeft, lnow, roll>>

-----------------------------------------------------------------------------
(* The clocks.  listExpiredCb runs in microseconds; the clock is taken to *)
(* move before or after it.                                                *)

Tick ==
  /\ now < MaxTime
  /\ ipc # "scan"
  /\ now' = now + 1
  /\ waitLeft' = IF waitLeft > 0 THEN waitLeft - 1 ELSE 0
  /\ UNCHANGED <<prevTime, jumps, ownerVars, timers, tickled, pipe, ipc, lnow, roll>>

\* The wall clock is stepped back (epoll_wait's timeout is monotonic).
StepBack(d) ==
  /\ jumps < MaxJumps
  /\ ipc # "scan"
  /\ now >= d
  /\ now' = now - d
  /\ jumps' = jumps + 1
  /\ UNCHANGED <<prevTime, ownerVars, timers, tickled, pipe, idleVars>>

\* The modelled stretch of time is over.
Horizon == now = MaxTime /\ UNCHANGED vars

-----------------------------------------------------------------------------
Init ==
  /\ now = 0
  /\ prevTime = now
  /\ jumps = 0
  /\ next = [t \in Timers |-> 0]
  /\ ms = [t \in Timers |-> 0]
  /\ cb = [t \in Timers |-> FALSE]
  /\ made = [t \in Timers |-> FALSE]
  /\ calls = [t \in Timers |-> 0]
  /\ opc = [t \in Timers |-> "idle"]
  /\ rarg = [t \in Timers |-> [ms |-> 0, fromNow |-> FALSE]]
  /\ timers = {}
  /\ tickled = FALSE
  /\ pipe = FALSE
  /\ ipc = "get"
  /\ waitLeft = 0
  /\ lnow = 0
  /\ roll = FALSE
  /\ fired = [t \in Timers |-> FALSE]

IdleStep == GetNextTimer \/ EpollWait \/ ListStart \/ ListPop \/ ListEnd \/ Resume

OwnerStep(t) ==
  \/ \E p \in Periods : AddTimer(t, p)
  \/ Cancel(t) \/ Refresh(t) \/ ResetEnd(t)
  \/ \E p \in Periods, b \in BOOLEAN : ResetBegin(t, p, b)

Next ==
  \/ \E t \in Timers : OwnerStep(t)
  \/ IdleStep
  \/ Tick
  \/ \E d \in 1..BackStep : StepBack(d)
  \/ Horizon

\* The idle thread keeps running; real time keeps passing.  Owners need not
\* call anything.
Fairness == WF_vars(IdleStep) /\ WF_vars(Tick)

Spec == Init /\ [][Next]_vars /\ Fairness

-----------------------------------------------------------------------------
Deadlines == 0..(MaxTime + MaxTimeout + 2 * MaxTime)

TypeOK ==
  /\ now \in 0..MaxTime /\ prevTime \in 0..MaxTime /\ jumps \in 0..MaxJumps
  /\ next \in [Timers -> Int] /\ ms \in [Timers -> Periods \cup {0}]
  /\ cb \in [Timers -> BOOLEAN] /\ made \in [Timers -> BOOLEAN]
  /\ calls \in [Timers -> 0..MaxCalls]
  /\ opc \in [Timers -> {"idle", "readd"}]
  /\ timers \subseteq {t \in Timers : made[t]}
  /\ tickled \in BOOLEAN /\ pipe \in BOOLEAN
  /\ ipc \in {"get", "wait", "list", "scan", "busy"}
  /\ waitLeft \in 0..MaxTimeout
  /\ lnow \in 0..MaxTime /\ roll \in BOOLEAN /\ fired \in [Timers -> BOOLEAN]

\* The m_tickled protocol never lets the idle thread oversleep: while it
\* sits in epoll_wait with no tickle pending, its timeout ends no later than
\* the earliest deadline in m_timers (addTimer tickles whenever it inserts
\* at begin(), unless a tickle is still unconsumed by getNextTimer).  Stated
\* for a wall clock that has not stepped back: after a step back, refresh
\* moves a deadline earlier without a tickle (timer.cpp:47).
NoOversleep ==
  (jumps = 0 /\ ipc = "wait" /\ ~pipe /\ timers # {})
    => waitLeft <= IF next[Front] > now THEN next[Front] - now ELSE 0

\* The timer manager implements TimerSpec: m_cb is the armed flag, m_next
\* the deadline and m_ms the period; in particular no callback is handed
\* over before its deadline, nor for a cancelled or fired one-shot timer.
TS == INSTANCE TimerSpec WITH armed <- cb, dl <- next, period <- ms
TimerSpecRefined == TS!Spec

\* A live timer whose deadline has passed is eventually fired, cancelled,
\* or moved (listExpiredCb on every idle wake-up).
TimerFires ==
  \A t \in Timers, d \in Deadlines :
    (cb[t] /\ opc[t] = "idle" /\ next[t] = d /\ d <= now)
      ~> (~cb[t] \/ next[t] # d)

\* listExpiredCb returns: its loop, run under m_mutex, terminates.
ScanTerminates == (ipc = "scan") ~> (ipc # "scan")
=============================================================================
