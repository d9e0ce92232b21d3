----------------------------- MODULE ConnectHook -----------------------------
(***************************************************************************)
(* The hooked connect (src/corlib/hook.cpp, connect_with_timeout) of a    *)
(* fiber on a socket that the application keeps in blocking mode: the     *)
(* raw connect_f on the (system non-blocking) socket, the optional        *)
(* condition timer, addEvent(WRITE), the yield, the timer cancel and the  *)
(* SO_ERROR check.  Around it: the kernel's connection state, the idle    *)
(* thread that delivers the socket's readiness (IOManager::idle,          *)
(* triggerEvent) and the worker that runs the timer callback.             *)
(*                                                                         *)
(* Readiness is modelled as a level: a socket leaves "pending" once, and  *)
(* epoll_ctl(ADD) re-polls it, so one registration sees the one edge.     *)
(***************************************************************************)
EXTENDS Naturals

CONSTANTS
  Immediate,  \* what connect_f can return at once: "ok", "inprogress", "refused"
  Outcomes,   \* how a pending connection ends: "established", or the
              \* error left in SO_ERROR: "ECONNREFUSED", "ETIMEDOUT"
  TimerModes, \* TRUE: a timeout (timeout_ms != -1); FALSE: plain connect()
  CtxModes    \* the fd's FdCtx: "none", "file", "userNb" or "blocking" socket

ASSUME /\ Immediate \subseteq {"ok", "inprogress", "refused"}
       /\ Outcomes \subseteq {"established", "ECONNREFUSED", "ETIMEDOUT"}
       /\ TimerModes \subseteq BOOLEAN
       /\ CtxModes \subseteq {"none", "file", "userNb", "blocking"}

VARIABLES
  mode,       \* the FdCtx the call finds (fixed for the call)
  timerOn,    \* the call has a timeout
  pc,         \* where the hooked call is
  conn,       \* kernel: "closed", "pending", "established", "failed"
  soerr,      \* kernel: the error pending in SO_ERROR, or "none"
  reg,        \* the direction registered in the FdContext: "none", "READ", "WRITE"
  queued,     \* the fiber is in the scheduler's task queue
  timer,      \* the condition timer: "none", "armed", "expired", "ran", "cancelled"
  cancelled,  \* timer_info::cancelled = ETIMEDOUT
  ret         \* what the call returned

vars == <<mode, timerOn, pc, conn, soerr, reg, queued, timer, cancelled, ret>>

\* The socket is ready for a direction: a connected socket is writable; a
\* failed one reports EPOLLERR, which idle() turns into both directions.
Ready(dir) == IF dir = "WRITE" THEN conn \in {"established", "failed"}
                               ELSE conn = "failed"

Init ==
  /\ mode \in CtxModes /\ timerOn \in TimerModes
  /\ pc = "start" /\ conn = "closed" /\ soerr = "none"
  /\ reg = "none" /\ queued = FALSE /\ timer = "none"
  /\ cancelled = FALSE /\ ret = "none"

\* hook.cpp:286-305: no context is EBADF; a file or a socket the user made
\* non-blocking gets the raw connect_f, whose EINPROGRESS the caller sees.
RawOrBadf ==
  /\ pc = "start" /\ mode # "blocking"
  /\ IF mode = "none"
       THEN ret' = "EBADF" /\ UNCHANGED conn
       ELSE \E r \in Immediate :
              CASE r = "ok" -> conn' = "established" /\ ret' = "0"
                [] r = "inprogress" -> conn' = "pending" /\ ret' = "EINPROGRESS"
                [] r = "refused" -> conn' = "failed" /\ ret' = "ECONNREFUSED"
  /\ pc' = "done"
  /\ UNCHANGED <<mode, timerOn, soerr, reg, queued, timer, cancelled>>

\* hook.cpp:307-318: connect_f on the non-blocking socket.  0 returns at
\* once; every -1 (EINPROGRESS or not) goes on to wait, since the early
\* return is taken only for n != -1.  An error reported by connect_f is
\* consumed: SO_ERROR no longer holds it.
Start ==
  /\ pc = "start" /\ mode = "blocking"
  /\ \E r \in Immediate :
       CASE r = "ok" -> conn' = "established" /\ ret' = "0" /\ pc' = "done"
         [] r = "inprogress" -> conn' = "pending" /\ ret' = ret /\ pc' = "arm"
         [] r = "refused" -> conn' = "failed" /\ ret' = ret /\ pc' = "arm"
  /\ UNCHANGED <<mode, timerOn, soerr, reg, queued, timer, cancelled>>

\* hook.cpp:321-337: the condition timer, if a timeout is set.
Arm ==
  /\ pc = "arm"
  /\ timer' = IF timerOn THEN "armed" ELSE "none"
  /\ pc' = "add"
  /\ UNCHANGED <<mode, timerOn, conn, soerr, reg, queued, cancelled, ret>>

\* Mutant: addEvent for READ instead of WRITE.
Add_read ==
  /\ pc = "add"
  /\ reg' = "READ"
  /\ pc' = "wait"
  /\ UNCHANGED <<mode, timerOn, conn, soerr, queued, timer, cancelled, ret>>

\* hook.cpp:340-344: addEvent(fd, WRITE) succeeds (the fiber is the only
\* waiter of the fd), and the fiber yields.
Add ==
  /\ pc = "add"
  /\ reg' = "WRITE"
  /\ pc' = "wait"
  /\ UNCHANGED <<mode, timerOn, conn, soerr, queued, timer, cancelled, ret>>

\* The kernel finishes a pending connection: the peer accepts, refuses,
\* or the SYN retries run out; a failure leaves its error in SO_ERROR.
Complete ==
  /\ conn = "pending"
  /\ \E o \in Outcomes :
       IF o = "established" THEN conn' = "established" /\ soerr' = soerr
                            ELSE conn' = "failed" /\ soerr' = o
  /\ UNCHANGED <<mode, timerOn, pc, reg, queued, timer, cancelled, ret>>

\* IOManager::idle: the registered direction is ready (EPOLLERR/HUP make
\* both ready); the direction is removed and the fiber scheduled.
Deliver ==
  /\ reg # "none" /\ Ready(reg)
  /\ reg' = "none" /\ queued' = TRUE
  /\ UNCHANGED <<mode, timerOn, pc, conn, soerr, timer, cancelled, ret>>

\* listExpiredCb hands the timer's callback to the scheduler.
Expire ==
  /\ timer = "armed"
  /\ timer' = "expired"
  /\ UNCHANGED <<mode, timerOn, pc, conn, soerr, reg, queued, cancelled, ret>>

\* hook.cpp:329-336, run by a worker: if timer_info is still alive and not
\* cancelled, mark ETIMEDOUT and cancelEvent(fd, WRITE), which schedules
\* the fiber only if WRITE is still registered.
TimerCb ==
  /\ timer = "expired"
  /\ timer' = "ran"
  /\ IF pc # "done" /\ ~cancelled
       THEN /\ cancelled' = TRUE
            /\ IF reg = "WRITE" THEN reg' = "none" /\ queued' = TRUE
                                ELSE UNCHANGED <<reg, queued>>
       ELSE UNCHANGED <<cancelled, reg, queued>>
  /\ UNCHANGED <<mode, timerOn, pc, conn, soerr, ret>>

\* A worker resumes the fiber.
Resume ==
  /\ pc = "wait" /\ queued
  /\ queued' = FALSE /\ pc' = "resumed"
  /\ UNCHANGED <<mode, timerOn, conn, soerr, reg, timer, cancelled, ret>>

\* hook.cpp:347-357: cancel the timer (a no-op once it has expired) and
\* return ETIMEDOUT if the callback marked the call.
AfterWait ==
  /\ pc = "resumed"
  /\ timer' = IF timer = "armed" THEN "cancelled" ELSE timer
  /\ IF cancelled THEN ret' = "ETIMEDOUT" /\ pc' = "done"
                  ELSE ret' = ret /\ pc' = "sockopt"
  /\ UNCHANGED <<mode, timerOn, conn, soerr, reg, queued, cancelled>>

\* Mutant: the result of connect taken as success without SO_ERROR.
SockOpt_noErr ==
  /\ pc = "sockopt"
  /\ ret' = "0" /\ pc' = "done"
  /\ UNCHANGED <<mode, timerOn, conn, soerr, reg, queued, timer, cancelled>>

\* hook.cpp:370-384: getsockopt(SO_ERROR) reads and clears the pending
\* error; none means connected.
SockOpt ==
  /\ pc = "sockopt"
  /\ ret' = IF soerr = "none" THEN "0" ELSE soerr
  /\ soerr' = "none"
  /\ pc' = "done"
  /\ UNCHANGED <<mode, timerOn, conn, reg, queued, timer, cancelled>>

\* IOManager::idle: epoll_wait returns with nothing to do (it wakes at
\* least every MAX_TIMEOUT) and the idle fiber loops.
IdleLoop == UNCHANGED vars

FiberStep == RawOrBadf \/ Start \/ Arm \/ Add \/ Resume \/ AfterWait \/ SockOpt

Next == FiberStep \/ Complete \/ Deliver \/ Expire \/ TimerCb \/ IdleLoop

\* Workers and the idle thread keep running (the idle thread wakes at
\* least every MAX_TIMEOUT); a timer's deadline is eventually reached; the
\* kernel ends every pending connection (SYN retries are bounded).
Fairness ==
  /\ WF_vars(FiberStep) /\ WF_vars(Deliver)
  /\ WF_vars(Expire) /\ WF_vars(TimerCb) /\ WF_vars(Complete)

Spec == Init /\ [][Next]_vars /\ Fairness

-----------------------------------------------------------------------------
\* connect() reports success only for a connected socket: a return of 0
\* means the kernel has established the connection.  Depends on the early
\* return at hook.cpp:314 and the SO_ERROR check at 372-383.
ConnectTruthful == pc = "done" /\ ret = "0" => conn = "established"

\* Every hooked connect returns: the fiber, once suspended, is woken by
\* the socket's readiness or by the timeout, and finishes the call.
ConnectReturns == <>(pc = "done")
====
