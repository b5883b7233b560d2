------------------------------ MODULE WorkerPool ------------------------------
(***************************************************************************)
(* base::internal::SchedulerWorkerPoolImpl with its workers, the stack of  *)
(* idle workers, the shared priority queue and the blocking scopes of the  *)
(* tasks (base/task_scheduler/scheduler_worker_pool_impl.cc,               *)
(* scheduler_worker.cc, scheduler_worker_stack.cc, priority_queue.cc,      *)
(* base/threading/scoped_blocking_call.cc).                                *)
(*                                                                         *)
(* Two locks order the steps: lock_, whose critical sections are one step  *)
(* each, and the priority queue's, which GetWork keeps in a Transaction    *)
(* over several steps.  Each sequence is posted once, by a thread of its   *)
(* own; its traits say whether it is BACKGROUND and may block.             *)
(* Creating a thread may fail.  Shutdown (TaskTracker) and JoinForTesting  *)
(* are left out: the pool serves as long as the model runs.                *)
(***************************************************************************)
EXTENDS Integers, Sequences, SequencesExt, FiniteSetsExt

CONSTANTS
    Seqs,                 \* the sequences posted to the pool
    Background,           \* those with TaskPriority::BACKGROUND
    MayBlock,             \* those with the MayBlock() trait
    Scopes,               \* BlockingTypes that their tasks use: "may", "will"
    Workloads,            \* how many tasks of which sequences are posted, the
                          \* arguments of Start, and a bound on the number of
                          \* threads that cannot be created
    kMaxNumberOfWorkers,
    None

ASSUME SeqsAssumption ==
    /\ Background \subseteq Seqs
    /\ MayBlock \subseteq Seqs
    /\ None \notin Seqs
    /\ None \notin 1 .. kMaxNumberOfWorkers
    /\ IsFiniteSet(Seqs)

ASSUME PoolAssumption ==
    /\ Scopes \subseteq {"may", "will"}
    /\ kMaxNumberOfWorkers \in Nat
    /\ Workloads \subseteq [tasks : [Seqs -> Nat],
                             max_tasks : 1 .. kMaxNumberOfWorkers,
                             max_background : Nat \ {0},
                             max_failures : Nat]

VARIABLES
    workers,        \* workers_
    idle,           \* idle_workers_stack_, the top last
    unused,         \* workers whose last_used_time_ is not null
    event,          \* workers whose wake_up_event_ is signaled
    failures,       \* number of threads that could not be created so far
    queue,          \* the sequences in shared_priority_queue_
    transaction,    \* the worker whose Transaction is alive, or None
    max_tasks,      \* max_tasks_; 0 before Start
    max_background, \* max_background_tasks_
    num_background, \* num_running_background_tasks_
    num_pending,    \* num_pending_may_block_workers_
    num_pending_background, \* num_pending_background_may_block_workers_
    num_wake_ups,   \* num_wake_ups_before_start_
    polling,        \* polling_max_tasks_
    service,        \* where the service thread is in AdjustMaxTasksFunction
    worker,         \* each worker's thread and delegate
    poster,         \* pc of the thread that posts each sequence
    workload,       \* the program's tasks and arguments; never changes
    left            \* number of tasks each sequence still holds

pool == <<workers, idle, unused, event, failures>>
counts == <<max_tasks, max_background, num_background, num_pending,
            num_pending_background>>
adjusting == <<polling, service>>
program == <<workload, left>>
vars == <<pool, queue, transaction, counts, num_wake_ups, adjusting, worker,
          poster, program>>

Ids == 1 .. kMaxNumberOfWorkers

\* A worker's place in SchedulerWorker::RunWorker, the sequence it runs, the
\* outermost blocking scope of the task ("over" once it is left: a task has one
\* at most) and the delegate's fields.  may_block_start_time_ is null, recent,
\* or for certain MayBlockThreshold ago.
Worker == [pc : {"wait", "get_work", "begin", "become_idle", "background", "run",
                 "will_block", "adjust", "re_enqueue", "reset"},
           seq : Seqs \cup {None},
           scope : {"none", "may", "will", "over"},
           may_block : {"null", "recent", "old"},
           incremented : BOOLEAN,
           background : BOOLEAN]

FreshWorker == [pc |-> "wait", seq |-> None, scope |-> "none", may_block |-> "null",
                incremented |-> FALSE, background |-> FALSE]

Init ==
    /\ workers = {}
    /\ idle = <<>>
    /\ unused = {}
    /\ event = {}
    /\ failures = 0
    /\ queue = {}
    /\ transaction = None
    /\ max_tasks = 0
    /\ max_background = 0
    /\ num_background = 0
    /\ num_pending = 0
    /\ num_pending_background = 0
    /\ num_wake_ups = 0
    /\ polling = FALSE
    /\ service = "idle"
    /\ worker = [w \in Ids |-> FreshWorker]
    /\ workload \in Workloads
    /\ poster = [s \in Seqs |-> IF workload.tasks[s] > 0 THEN "post" ELSE "done"]
    /\ left = workload.tasks

Goto(w, pc) == worker' = [worker EXCEPT ![w].pc = pc]

------------------------------------------------------------------------------
(* What a critical section of lock_ does to the workers: functions of a      *)
(* record of the variables in "pool", as several are applied in one section. *)

Pool == [workers |-> workers, idle |-> idle, unused |-> unused, event |-> event,
         failures |-> failures]

PoolBecomes(p) ==
    /\ workers' = p.workers
    /\ idle' = p.idle
    /\ unused' = p.unused
    /\ event' = p.event
    /\ failures' = p.failures

\* Mutant: the worker below the top keeps a null last_used_time_.
StackPush_SkipsBeginUnused(p, w) == [p EXCEPT !.idle = Append(@, w)]

\* SchedulerWorkerStack::Push: the former top begins an unused period.
StackPush(p, w) ==
    [p EXCEPT !.idle = Append(@, w),
              !.unused = IF p.idle = <<>> THEN @ ELSE @ \cup {Last(p.idle)}]

\* SchedulerWorkerStack::Pop of a stack that is not empty.
StackPop(p) ==
    LET rest == Front(p.idle)
    IN [p EXCEPT !.idle = rest,
                 !.unused = IF rest = <<>> THEN @ ELSE @ \ {Last(rest)}]

\* CreateRegisterAndStartSchedulerWorkerLockRequired: the pool with the new
\* worker on top of the stack, or as it was if the thread cannot be created.
\* A worker's number is free again once it has been cleaned up.
CreateIdleWorker(p) ==
    {StackPush([p EXCEPT !.workers = @ \cup {w}], w) : w \in {Min(Ids \ p.workers)}}
    \cup (IF p.failures < workload.max_failures THEN {[p EXCEPT !.failures = @ + 1]} ELSE {})

\* MaintainAtLeastOneIdleWorkerLockRequired, when max_tasks_ is max.
MaintainAtLeastOneIdleWorker(p, max) ==
    IF /\ Cardinality(p.workers) # kMaxNumberOfWorkers
       /\ p.idle = <<>>
       /\ Cardinality(p.workers) < max
    THEN CreateIdleWorker(p)
    ELSE {p}

NumberOfExcessWorkers(p, max) == Max({0, Cardinality(p.workers) - max})

\* Mutant: the worker leaves the stack but is not signaled.
WakeTop_ForgetsSignal(p) == StackPop(p)

\* The worker on top of the idle stack is taken off it and its event signaled.
WakeTop(p) == [StackPop(p) EXCEPT !.event = @ \cup {Last(p.idle)}]

\* WakeUpOneWorkerLockRequired of a pool that has started.
WakeUpOneWorkerLockRequired(p, max) ==
    LET maintained == MaintainAtLeastOneIdleWorker(p, max)
        woken == {IF NumberOfExcessWorkers(q, max) < Len(q.idle)
                  THEN WakeTop(q)
                  ELSE q : q \in maintained}
    IN UNION {MaintainAtLeastOneIdleWorker(q, max) : q \in woken}

------------------------------------------------------------------------------
(* Posting a sequence, and starting the pool                                 *)

\* OnCanScheduleSequence pushes the sequence in a transaction of its own.
PushSequence(s) ==
    /\ poster[s] = "post"
    /\ transaction = None
    /\ queue' = queue \cup {s}
    /\ poster' = [poster EXCEPT ![s] = "wake"]
    /\ UNCHANGED <<pool, transaction, counts, num_wake_ups, adjusting, worker, program>>

\* WakeUpOneWorker before Start only counts.
WakeUpBeforeStart(s) ==
    /\ poster[s] = "wake"
    /\ workers = {}
    /\ num_wake_ups' = num_wake_ups + 1
    /\ poster' = [poster EXCEPT ![s] = "done"]
    /\ UNCHANGED <<pool, queue, transaction, counts, adjusting, worker, program>>

\* WakeUpOneWorker after Start.
WakeUpOneWorker(s) ==
    /\ poster[s] = "wake"
    /\ workers # {}
    /\ \E p \in WakeUpOneWorkerLockRequired(Pool, max_tasks) : PoolBecomes(p)
    /\ poster' = [poster EXCEPT ![s] = "adjust"]
    /\ UNCHANGED <<queue, transaction, counts, num_wake_ups, adjusting, worker, program>>

\* Of the first n workers Start creates, those it wakes up.
WokenAtStart(n, failed) ==
    1 .. Min({n, num_wake_ups}) - Cardinality(failed \cap 1 .. num_wake_ups)

\* Start: a worker for each wake-up counted so far and one to stand by, within
\* max_tasks; all but the first may fail to start, and are skipped.
Start ==
    LET n == Min({num_wake_ups + 1, workload.max_tasks}) IN
    /\ workers = {}
    /\ max_tasks' = workload.max_tasks
    /\ max_background' = workload.max_background
    /\ \E failed \in SUBSET (2 .. n) :
        /\ failures + Cardinality(failed) <= workload.max_failures
        /\ failures' = failures + Cardinality(failed)
        /\ workers' = 1 .. n - Cardinality(failed)
        /\ event' = WokenAtStart(n, failed)
        /\ idle' = IF n > num_wake_ups /\ n \notin failed
                   THEN <<Cardinality(workers')>> ELSE <<>>
    /\ UNCHANGED <<unused, queue, transaction, num_background, num_pending,
                   num_pending_background, num_wake_ups, adjusting, worker, poster,
                   program>>

------------------------------------------------------------------------------
(* A worker's loop: SchedulerWorker::RunWorker and GetWork                   *)

\* WaitForWork returns: the event was signaled, and is reset, ...
WakesUp(w) ==
    /\ w \in workers
    /\ worker[w].pc = "wait"
    /\ w \in event
    /\ event' = event \ {w}
    /\ Goto(w, "get_work")
    /\ UNCHANGED <<workers, idle, unused, failures, queue, transaction, counts,
                   num_wake_ups, adjusting, poster, program>>

\* ... or the sleep timed out.
TimesOut(w) ==
    /\ w \in workers
    /\ worker[w].pc = "wait"
    /\ w \notin event
    /\ Goto(w, "get_work")
    /\ UNCHANGED <<pool, queue, transaction, counts, num_wake_ups, adjusting, poster,
                   program>>

\* GetWork's proxy for being on the idle stack.
IsOnIdleStack(w) == (idle # <<>> /\ Last(idle) = w) \/ w \in unused

\* GetWork of a worker on the idle stack that stays in the pool.
StaysIdle(w) ==
    /\ worker[w].pc = "get_work"
    /\ IsOnIdleStack(w)
    /\ Goto(w, "wait")
    /\ UNCHANGED <<pool, queue, transaction, counts, num_wake_ups, adjusting, poster,
                   program>>

\* Mutant: the worker on top of the stack may go too.
CanCleanup_TopToo(w) == w \in unused \/ idle = <<w>>

\* CanCleanupLockRequired, suggested_reclaim_time_ having passed.
CanCleanup(w) == w \in unused

\* GetWork of a worker on the idle stack that has been unused for long: it
\* leaves the stack and the pool, and its thread exits.
CleansUp(w) ==
    /\ worker[w].pc = "get_work"
    /\ IsOnIdleStack(w)
    /\ CanCleanup(w)
    /\ workers' = workers \ {w}
    /\ idle' = RemoveFirst(idle, w)
    /\ unused' = unused \ {w}
    /\ event' = event \ {w}
    /\ worker' = [worker EXCEPT ![w] = FreshWorker]
    /\ UNCHANGED <<failures, queue, transaction, counts, num_wake_ups, adjusting,
                   poster, program>>

IsExcess == NumberOfExcessWorkers(Pool, max_tasks) > Len(idle)

\* OnWorkerBecomesIdleLockRequired, after which GetWork returns no sequence.
BecomesIdle(w) ==
    /\ PoolBecomes(StackPush(Pool, w))
    /\ Goto(w, "wait")

\* An excess worker gets no work.
ExcessBecomesIdle(w) ==
    /\ worker[w].pc = "get_work"
    /\ ~IsOnIdleStack(w)
    /\ IsExcess
    /\ BecomesIdle(w)
    /\ UNCHANGED <<queue, transaction, counts, num_wake_ups, adjusting, poster, program>>

\* The first critical section of GetWork lets the worker look for work.
MayGetWork(w) ==
    /\ worker[w].pc = "get_work"
    /\ ~IsOnIdleStack(w)
    /\ ~IsExcess
    /\ Goto(w, "begin")
    /\ UNCHANGED <<pool, queue, transaction, counts, num_wake_ups, adjusting, poster,
                   program>>

\* The worker runs a sequence that it has popped.
Runs(w, s) ==
    /\ queue' = queue \ {s}
    /\ worker' = [worker EXCEPT ![w].pc = "run", ![w].seq = s,
                                ![w].background = s \in Background]

\* The transaction finds a sequence that is not BACKGROUND: of those with the
\* highest priority, any.
PopsForeground(w) ==
    /\ worker[w].pc = "begin"
    /\ transaction = None
    /\ \E s \in queue \ Background : Runs(w, s)
    /\ UNCHANGED <<pool, transaction, counts, num_wake_ups, adjusting, poster, program>>

\* Mutant: the transaction ends before the worker takes lock_.
Looks_EndsTransaction(w, pc) ==
    /\ Goto(w, pc)
    /\ UNCHANGED transaction

\* The transaction, begun by looking at the queue, is kept for what follows.
Looks(w, pc) ==
    /\ Goto(w, pc)
    /\ transaction' = w

FindsNothing(w) ==
    /\ worker[w].pc = "begin"
    /\ transaction = None
    /\ queue = {}
    /\ Looks(w, "become_idle")
    /\ UNCHANGED <<pool, queue, counts, num_wake_ups, adjusting, poster, program>>

FindsBackground(w) ==
    /\ worker[w].pc = "begin"
    /\ transaction = None
    /\ queue # {} /\ queue \subseteq Background
    /\ Looks(w, "background")
    /\ UNCHANGED <<pool, queue, counts, num_wake_ups, adjusting, poster, program>>

BackgroundAllowed == num_background < max_background

\* Nothing to do, or only BACKGROUND sequences that may not run now.
GoesIdle(w) ==
    /\ \/ worker[w].pc = "become_idle"
       \/ worker[w].pc = "background" /\ ~BackgroundAllowed
    /\ transaction' = None
    /\ BecomesIdle(w)
    /\ UNCHANGED <<queue, counts, num_wake_ups, adjusting, poster, program>>

PopsBackground(w) ==
    /\ worker[w].pc = "background"
    /\ BackgroundAllowed
    /\ num_background' = num_background + 1
    /\ transaction' = None
    /\ \E s \in queue : Runs(w, s)
    /\ UNCHANGED <<pool, max_tasks, max_background, num_pending,
                   num_pending_background, num_wake_ups, adjusting, poster, program>>

\* Mutant: the background task stays counted.
DidRunTask_KeepsCount(w) ==
    /\ worker[w].pc = "run"
    /\ worker[w].scope \in {"none", "over"}
    /\ left' = [left EXCEPT ![worker[w].seq] = @ - 1]
    /\ worker' = [worker EXCEPT ![w].pc = "re_enqueue", ![w].scope = "none",
                                ![w].background = FALSE]
    /\ UNCHANGED <<pool, queue, transaction, counts, num_wake_ups, adjusting, poster,
                   workload>>

\* RunAndPopNextTask returns, the task being in no blocking scope any more, and
\* DidRunTask is called.
DidRunTask(w) ==
    /\ worker[w].pc = "run"
    /\ worker[w].scope \in {"none", "over"}
    /\ left' = [left EXCEPT ![worker[w].seq] = @ - 1]
    /\ num_background' = IF worker[w].background THEN num_background - 1
                         ELSE num_background
    /\ worker' = [worker EXCEPT ![w].pc = "re_enqueue", ![w].scope = "none",
                                ![w].background = FALSE]
    /\ UNCHANGED <<pool, queue, transaction, max_tasks, max_background, num_pending,
                   num_pending_background, num_wake_ups, adjusting, poster, workload>>

\* The sequence goes back to the queue if it holds more tasks.  No worker is
\* woken up: this one will soon call GetWork.
ReEnqueueSequence(w) ==
    LET s == worker[w].seq IN
    /\ worker[w].pc = "re_enqueue"
    /\ left[s] > 0 => transaction = None
    /\ queue' = IF left[s] > 0 THEN queue \cup {s} ELSE queue
    /\ worker' = [worker EXCEPT ![w].pc = "reset", ![w].seq = None]
    /\ UNCHANGED <<pool, transaction, counts, num_wake_ups, adjusting, poster, program>>

\* wake_up_event_.Reset() at the end of the loop.
ResetEvent(w) ==
    /\ worker[w].pc = "reset"
    /\ event' = event \ {w}
    /\ Goto(w, "get_work")
    /\ UNCHANGED <<workers, idle, unused, failures, queue, transaction, counts,
                   num_wake_ups, adjusting, poster, program>>

------------------------------------------------------------------------------
(* Blocking scopes of the running task                                       *)

\* IncrementMaxTasksLockRequired, for the workers in set ws.
IncrementMaxTasks(ws) ==
    /\ max_tasks' = max_tasks + Cardinality(ws)
    /\ max_background' =
         max_background + Cardinality({w \in ws : worker[w].background})

\* num_pending_may_block_workers_ and its background part change by d.
AddPending(w, d) ==
    /\ num_pending' = num_pending + d
    /\ num_pending_background' =
         IF worker[w].background THEN num_pending_background + d
         ELSE num_pending_background

MayEnter(w, type) == type \in Scopes /\ worker[w].seq \in MayBlock

\* BlockingStarted with MAY_BLOCK: MayBlockEntered.
MayBlockEntered(w) ==
    /\ worker[w].pc = "run"
    /\ MayEnter(w, "may")
    /\ worker[w].scope = "none"
    /\ AddPending(w, 1)
    /\ worker' = [worker EXCEPT ![w].pc = "adjust", ![w].scope = "may",
                                ![w].may_block = "recent"]
    /\ UNCHANGED <<pool, queue, transaction, max_tasks, max_background,
                   num_background, num_wake_ups, adjusting, poster, program>>

\* BlockingTypeUpgraded cancels a MAY_BLOCK scope that did not count yet.
Upgrade(w) ==
    /\ AddPending(w, -1)
    /\ worker' = [worker EXCEPT ![w].pc = "will_block", ![w].scope = "will",
                                ![w].may_block = "null"]
    /\ UNCHANGED <<max_tasks, max_background, num_background>>

\* Mutant: a MAY_BLOCK scope that counted already is cancelled too.
BlockingTypeUpgraded_AlwaysCancels(w) ==
    /\ worker[w].pc = "run"
    /\ MayEnter(w, "will")
    /\ worker[w].scope = "may"
    /\ Upgrade(w)
    /\ UNCHANGED <<pool, queue, transaction, num_wake_ups, adjusting, poster, program>>

\* A WILL_BLOCK scope within a MAY_BLOCK one: BlockingTypeUpgraded.
BlockingTypeUpgraded(w) ==
    /\ worker[w].pc = "run"
    /\ MayEnter(w, "will")
    /\ worker[w].scope = "may"
    /\ IF worker[w].incremented
       THEN worker' = [worker EXCEPT ![w].scope = "will"] /\ UNCHANGED counts
       ELSE Upgrade(w)
    /\ UNCHANGED <<pool, queue, transaction, num_wake_ups, adjusting, poster, program>>

\* WillBlockEntered returns early when there were fewer workers than the old
\* max_tasks_: WakeUpOneWorker "would've handled creating extra workers".
TooFewWorkers == Cardinality(workers) < max_tasks

\* WillBlockEntered, called from BlockingStarted or from BlockingTypeUpgraded.
WillBlockEntered(w) ==
    /\ \/ /\ worker[w].pc = "run"
          /\ worker[w].scope = "none"
          /\ MayEnter(w, "will")
       \/ worker[w].pc = "will_block"
    /\ transaction = None
    /\ IncrementMaxTasks({w})
    /\ worker' = [worker EXCEPT ![w].scope = "will", ![w].incremented = TRUE,
                    ![w].pc = IF TooFewWorkers \/ queue = {} THEN "run" ELSE "adjust"]
    /\ \/ TooFewWorkers /\ UNCHANGED pool
       \/ /\ ~TooFewWorkers
          /\ \E p \in IF queue = {}
                      THEN MaintainAtLeastOneIdleWorker(Pool, max_tasks + 1)
                      ELSE WakeUpOneWorkerLockRequired(Pool, max_tasks + 1) :
               PoolBecomes(p)
    /\ UNCHANGED <<queue, transaction, num_background, num_pending,
                   num_pending_background, num_wake_ups, adjusting, poster, program>>

\* The outermost scope ends: BlockingEnded.
BlockingEnded(w) ==
    /\ worker[w].pc = "run"
    /\ worker[w].scope \in {"may", "will"}
    /\ IF worker[w].incremented
       THEN /\ max_tasks' = max_tasks - 1
            /\ max_background' = IF worker[w].background THEN max_background - 1
                                 ELSE max_background
            /\ UNCHANGED <<num_pending, num_pending_background>>
       ELSE /\ AddPending(w, -1)
            /\ UNCHANGED <<max_tasks, max_background>>
    /\ worker' = [worker EXCEPT ![w].scope = "over", ![w].incremented = FALSE,
                                ![w].may_block = "null"]
    /\ UNCHANGED <<pool, queue, transaction, num_background, num_wake_ups, adjusting,
                   poster, program>>

------------------------------------------------------------------------------
(* The periodic adjustment of max_tasks_ on the service thread               *)

\* ShouldPeriodicallyAdjustMaxTasksLockRequired.
ShouldPeriodicallyAdjust ==
    \/ num_background >= max_background /\ num_pending_background > 0
    \/ Len(idle) <= NumberOfExcessWorkers(Pool, max_tasks) /\ num_pending > 0

\* ScheduleAdjustMaxTasksIfNeeded: the delayed task that the caller then posts
\* is pending whenever polling holds and the service thread is idle.
ScheduleAdjustMaxTasksIfNeeded ==
    /\ polling' = (polling \/ ShouldPeriodicallyAdjust)
    /\ UNCHANGED <<pool, queue, transaction, counts, num_wake_ups, service, program>>

PosterSchedulesAdjust(s) ==
    /\ poster[s] = "adjust"
    /\ poster' = [poster EXCEPT ![s] = "done"]
    /\ ScheduleAdjustMaxTasksIfNeeded
    /\ UNCHANGED worker

WorkerSchedulesAdjust(w) ==
    /\ worker[w].pc = "adjust"
    /\ Goto(w, "run")
    /\ ScheduleAdjustMaxTasksIfNeeded
    /\ UNCHANGED poster

\* WakeUpOneWorkerLockRequired, n times.
WakeUpWorkers(p, max, n) ==
    LET after[i \in 0 .. n] ==
            IF i = 0 THEN {p}
            ELSE UNION {WakeUpOneWorkerLockRequired(q, max) : q \in after[i - 1]}
    IN after[n]

\* AdjustMaxTasks: the workers in a MAY_BLOCK scope for longer than the
\* threshold count.  All that do not count this time will the next time, as the
\* threshold is shorter than the poll period.
AdjustMaxTasks ==
    LET pending == {w \in workers : worker[w].may_block # "null"}
        old == {w \in pending : worker[w].may_block = "old"}
    IN
    /\ polling
    /\ service = "idle"
    /\ transaction = None
    /\ \E counted \in {c \in SUBSET pending : old \subseteq c} :
        LET max == max_tasks + Cardinality(counted)
            wake_ups == Min({Cardinality(counted), Cardinality(queue)})
        IN
        /\ IncrementMaxTasks(counted)
        /\ num_pending' = num_pending - Cardinality(counted)
        /\ num_pending_background' = num_pending_background
             - Cardinality({w \in counted : worker[w].background})
        /\ worker' = [w \in Ids |->
             CASE w \in counted ->
                    [worker[w] EXCEPT !.incremented = TRUE, !.may_block = "null"]
               [] w \in pending \ counted -> [worker[w] EXCEPT !.may_block = "old"]
               [] OTHER -> worker[w]]
        /\ \E p \in WakeUpWorkers(Pool, max, wake_ups) :
             \E q \in MaintainAtLeastOneIdleWorker(p, max) : PoolBecomes(q)
    /\ service' = "check"
    /\ UNCHANGED <<queue, transaction, num_background, num_wake_ups, polling, poster,
                   program>>

\* The end of AdjustMaxTasksFunction.
KeepPolling ==
    /\ service = "check"
    /\ polling' = ShouldPeriodicallyAdjust
    /\ service' = "idle"
    /\ UNCHANGED <<pool, queue, transaction, counts, num_wake_ups, worker, poster,
                   program>>

------------------------------------------------------------------------------

\* Steps a worker takes of its own accord ...
WorkerStep(w) ==
    \/ WakesUp(w) \/ StaysIdle(w) \/ ExcessBecomesIdle(w)
    \/ MayGetWork(w) \/ PopsForeground(w) \/ FindsNothing(w) \/ FindsBackground(w)
    \/ GoesIdle(w) \/ PopsBackground(w)
    \/ DidRunTask(w) \/ ReEnqueueSequence(w) \/ ResetEvent(w)
    \/ worker[w].pc = "will_block" /\ WillBlockEntered(w)
    \/ WorkerSchedulesAdjust(w)

\* ... and what may happen to it, or not.
MayHappen(w) ==
    \/ TimesOut(w) \/ CleansUp(w)
    \/ MayBlockEntered(w) \/ BlockingTypeUpgraded(w)
    \/ worker[w].pc = "run" /\ WillBlockEntered(w)
    \/ BlockingEnded(w)

PosterStep(s) ==
    \/ PushSequence(s) \/ WakeUpBeforeStart(s) \/ WakeUpOneWorker(s)
    \/ PosterSchedulesAdjust(s)

ServiceStep == AdjustMaxTasks \/ KeepPolling

Next ==
    \/ \E w \in Ids : WorkerStep(w) \/ MayHappen(w)
    \/ \E s \in Seqs : PosterStep(s)
    \/ Start
    \/ ServiceStep

\* Threads run; the pool is started; the delayed task of the service thread is
\* run.  No fairness for the end of a blocking scope, nor for time-outs.
Fairness ==
    /\ \A w \in Ids : WF_vars(WorkerStep(w))
    /\ \A s \in Seqs : WF_vars(PosterStep(s))
    /\ WF_vars(Start)
    /\ WF_vars(ServiceStep)

Spec == Init /\ [][Next]_vars /\ Fairness

------------------------------------------------------------------------------

TypeOK ==
    /\ workers \subseteq Ids
    /\ idle \in Seq(Ids)
    /\ unused \subseteq Ids
    /\ event \subseteq Ids
    /\ failures \in 0 .. workload.max_failures
    /\ queue \subseteq Seqs
    /\ transaction \in Ids \cup {None}
    /\ \A n \in {max_tasks, max_background, num_background, num_pending,
                 num_pending_background, num_wake_ups} : n \in Nat
    /\ polling \in BOOLEAN
    /\ service \in {"idle", "check"}
    /\ worker \in [Ids -> Worker]
    /\ poster \in [Seqs -> {"post", "wake", "adjust", "done"}]
    /\ workload \in Workloads
    /\ left \in [Seqs -> Nat]

IsRunning(w) == worker[w].seq # None

\* GetWork (DCHECK_EQ, scheduler_worker_pool_impl.cc:444) takes "on top of the
\* stack or with a last used time" for "on the idle stack": exact for every
\* worker at all times, since each member but the top has one and nobody else.
\* A worker is on the stack once at most, and only if it is asleep or about to
\* look whether it is.
IdleStackExact ==
    /\ unused = IF idle = <<>> THEN {} ELSE ToSet(Front(idle))
    /\ IsInjective(idle)
    /\ ToSet(idle) \subseteq workers
    /\ \A w \in ToSet(idle) : worker[w].pc \in {"wait", "get_work"}

\* A worker that sleeps can be woken up: it is on the idle stack or its event
\* has been signaled already.  And a started pool never cleans up its last
\* worker: WakeUpOneWorkerLockRequired takes an empty workers_ for a pool that
\* has not started, and would only count from then on.
NoWorkerLost ==
    /\ \A w \in workers :
        worker[w].pc = "wait" => w \in ToSet(idle) \cup event
    /\ max_tasks > 0 => workers # {}

\* The counters of the pool, changed one by one in separate critical sections
\* of different threads, agree with what the workers are doing.
CountsExact ==
    LET Count(P(_)) == Cardinality({w \in workers : P(w)})
        Incremented(w) == worker[w].incremented
        BackgroundOnly(w) == worker[w].background
        Pending(w) == worker[w].may_block # "null"
    IN
    /\ max_tasks > 0 =>
        /\ max_tasks = workload.max_tasks + Count(Incremented)
        /\ max_background = workload.max_background
             + Count(LAMBDA w : Incremented(w) /\ BackgroundOnly(w))
    /\ num_background = Count(BackgroundOnly)
    /\ num_pending = Count(Pending)
    /\ num_pending_background = Count(LAMBDA w : Pending(w) /\ BackgroundOnly(w))

\* Work is not taken: threads cannot be created, or all there may be are busy.
PoolExhausted ==
    \/ failures > 0
    \/ \A w \in Ids : IsRunning(w)

\* A BACKGROUND task has declared that it will block.
BackgroundWillBlock ==
    \E w \in workers : worker[w].background /\ worker[w].scope = "will"

\* Every sequence that has been pushed is in the end taken by a worker, however
\* long other tasks block (ScopedBlockingCall: "the thread pool size is
\* incremented to compensate for the blocked thread"): no wake-up is lost
\* between the threads that push, those about to sleep, and the service thread.
\* BACKGROUND sequences may wait while one of them is in a WILL_BLOCK scope.
QueueDrains ==
    <>[](\A s \in queue : \/ PoolExhausted
                          \/ s \in Background /\ BackgroundWillBlock)

\* What BlockingCallAndMaxBackgroundTasksTest says of BACKGROUND sequences
\* (scheduler_worker_pool_impl_unittest.cc:1618): "They should be able to run,
\* because the existing TaskPriority::BACKGROUND tasks are blocked within a
\* ScopedBlockingCall."
BackgroundDrains == <>[](queue \cap Background # {} => PoolExhausted)
==============================================================================
