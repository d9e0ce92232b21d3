------------------------------ MODULE TimerSpec ------------------------------
(***************************************************************************)
(* What corlib's timer manager promises its users (src/corlib/timer.h,    *)
(* timer.cpp): a timer, once armed with a period, fires only when the      *)
(* wall clock has reached its deadline; a one-shot timer is disarmed by    *)
(* firing, a recurring one is re-armed one period after the expiry was     *)
(* processed; cancel disarms, refresh restarts the period from now, reset  *)
(* changes the period and restarts it from now or from the last start.    *)
(* The wall clock (system_clock) moves forward and may be stepped back.    *)
(***************************************************************************)
EXTENDS Integers

CONSTANTS
  Timers,     \* timer objects
  Recurring,  \* the recurring ones
  Periods     \* the periods (ms) timers are armed with

VARIABLES
  now,     \* the wall clock
  armed,   \* the timer has a live callback
  dl,      \* its deadline
  period,  \* its period
  fired    \* flips each time its callback is handed over

vars == <<now, armed, dl, period, fired>>

Init ==
  /\ now \in Nat
  /\ armed = [t \in Timers |-> FALSE]
  /\ dl = [t \in Timers |-> 0]
  /\ period = [t \in Timers |-> 0]
  /\ fired = [t \in Timers |-> FALSE]

Arm(t, p) ==
  /\ ~armed[t]
  /\ armed' = [armed EXCEPT ![t] = TRUE]
  /\ dl' = [dl EXCEPT ![t] = now + p]
  /\ period' = [period EXCEPT ![t] = p]
  /\ UNCHANGED <<now, fired>>

Cancel(t) ==
  /\ armed[t]
  /\ armed' = [armed EXCEPT ![t] = FALSE]
  /\ UNCHANGED <<now, dl, period, fired>>

Refresh(t) ==
  /\ armed[t]
  /\ dl' = [dl EXCEPT ![t] = now + period[t]]
  /\ UNCHANGED <<now, armed, period, fired>>

Reset(t, p, fromNow) ==
  /\ armed[t]
  /\ period' = [period EXCEPT ![t] = p]
  /\ dl' = [dl EXCEPT ![t] = (IF fromNow THEN now ELSE dl[t] - period[t]) + p]
  /\ UNCHANGED <<now, armed, fired>>

\* The only way a callback is handed to the scheduler.
Fire(t) ==
  /\ armed[t]
  /\ dl[t] <= now
  /\ IF t \in Recurring
       THEN /\ dl' = [dl EXCEPT ![t] = now + period[t]]
            /\ UNCHANGED armed
       ELSE /\ armed' = [armed EXCEPT ![t] = FALSE]
            /\ UNCHANGED dl
  /\ fired' = [fired EXCEPT ![t] = ~@]
  /\ UNCHANGED <<now, period>>

ClockMoves ==
  /\ now' \in Nat \ {now}
  /\ UNCHANGED <<armed, dl, period, fired>>

Next ==
  \/ \E t \in Timers, p \in Periods : Arm(t, p)
  \/ \E t \in Timers : Cancel(t) \/ Refresh(t) \/ Fire(t)
  \/ \E t \in Timers, p \in Periods, b \in BOOLEAN : Reset(t, p, b)
  \/ ClockMoves

Spec == Init /\ [][Next]_vars
=============================================================================
