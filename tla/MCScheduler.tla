---------------------------- MODULE MCScheduler ----------------------------
(* Model-checking instance of Scheduler: IOManager(3, true), i.e. two     *)
(* worker threads and the root thread, and three coroutines: one sleeps  *)
(* twice and may run anywhere, one is pinned to a worker, one is pinned *)
(* to the root thread and sleeps once.                                    *)
EXTENDS Scheduler

CONSTANTS w1, w2, f1, f2, f3

MCWorkers == {w1, w2}
MCFibers  == {f1, f2, f3}
MCAffinity == f1 :> AnyThread @@ f2 :> w1 @@ f3 :> Root
MCNaps     == f1 :> 2 @@ f2 :> 0 @@ f3 :> 1
=============================================================================
