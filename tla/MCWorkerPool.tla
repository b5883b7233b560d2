----------------------------- MODULE MCWorkerPool -----------------------------
(* Instances of WorkerPool for TLC.                                          *)
EXTENDS WorkerPool, TLC

CONSTANTS f1, f2, b1, b2   \* two sequences, and two BACKGROUND sequences

\* Two sequences for one worker; one of each priority; two BACKGROUND ones of
\* which one may run at a time, although there are two workers.  In the first
\* a thread may fail to start.
SmallWorkloads ==
    {[tasks |-> (f1 :> 2) @@ (f2 :> 1) @@ (b1 :> 0) @@ (b2 :> 0),
      max_tasks |-> 1, max_background |-> 1, max_failures |-> 1],
     [tasks |-> (f1 :> 1) @@ (f2 :> 0) @@ (b1 :> 1) @@ (b2 :> 0),
      max_tasks |-> 1, max_background |-> 1, max_failures |-> 0],
     [tasks |-> (f1 :> 0) @@ (f2 :> 0) @@ (b1 :> 1) @@ (b2 :> 1),
      max_tasks |-> 2, max_background |-> 1, max_failures |-> 0]}

\* Two BACKGROUND sequences of which one may run at a time, and more workers
\* allowed than there are tasks.
SpareWorkload ==
    {[tasks |-> (b1 :> 1) @@ (b2 :> 1), max_tasks |-> 3, max_background |-> 1,
      max_failures |-> 0]}
==============================================================================
