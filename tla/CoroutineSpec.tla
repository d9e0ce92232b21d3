---------------------------- MODULE CoroutineSpec ----------------------------
(***************************************************************************)
(* What the scheduler promises the coroutines scheduled on it, with no    *)
(* threads, queue or timers: a scheduled coroutine runs, a running one    *)
(* sleeps or ends, a sleeping one is woken once and runs again, and       *)
(* stop() returns only when every coroutine has ended.                    *)
(***************************************************************************)
CONSTANTS Fibers

VARIABLES
  st,       \* each coroutine: "new", "ready", "running", "asleep", "term"
  stopped,  \* stop() has been called
  returned  \* stop() has returned

vars == <<st, stopped, returned>>

Init ==
  /\ st = [f \in Fibers |-> "new"]
  /\ stopped = FALSE /\ returned = FALSE

Move(f, from, to) ==
  /\ st[f] = from
  /\ st' = [st EXCEPT ![f] = to]
  /\ UNCHANGED <<stopped, returned>>

Schedule(f) == ~stopped /\ Move(f, "new", "ready")
Run(f)      == Move(f, "ready", "running")
Sleep(f)    == Move(f, "running", "asleep")
Wake(f)     == Move(f, "asleep", "ready")
End(f)      == Move(f, "running", "term")

Stop ==
  /\ ~stopped /\ \A f \in Fibers : st[f] # "new"
  /\ stopped' = TRUE
  /\ UNCHANGED <<st, returned>>

Return ==
  /\ stopped /\ ~returned /\ \A f \in Fibers : st[f] = "term"
  /\ returned' = TRUE
  /\ UNCHANGED <<st, stopped>>

Next ==
  \/ \E f \in Fibers : Schedule(f) \/ Run(f) \/ Sleep(f) \/ Wake(f) \/ End(f)
  \/ Stop \/ Return

\* A ready coroutine is eventually run and a sleeping one eventually woken.
Spec == Init /\ [][Next]_vars
        /\ \A f \in Fibers : WF_vars(Run(f)) /\ WF_vars(Wake(f))

TypeOK ==
  /\ st \in [Fibers -> {"new", "ready", "running", "asleep", "term"}]
  /\ stopped \in BOOLEAN /\ returned \in BOOLEAN
=============================================================================
