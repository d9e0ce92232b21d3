--------------------------- MODULE MCTimerManager ---------------------------
(* Model-checking instances of TimerManager: two timers, periods of one   *)
(* and two ticks, a few ticks of wall-clock time.                          *)
EXTENDS TimerManager

CONSTANTS t1, t2

MCTimers  == {t1, t2}
OnlyT2    == {t2}
BothTimers == {t1, t2}
OnlyT1    == {t1}
=============================================================================
