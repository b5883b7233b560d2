----------------------------- MODULE TaskTracker -----------------------------
(***************************************************************************)
(* base::internal::TaskTracker with the sequences it tracks                *)
(* (base/task_scheduler/task_tracker.cc, sequence.cc, the posting          *)
(* functions of scheduler_worker_pool.cc, and the loop of                  *)
(* scheduler_worker.cc that a worker leaves once shutdown is complete).    *)
(*                                                                         *)
(* Posters post tasks to sequences, workers run them, one thread may shut  *)
(* the scheduler down and others may flush it.  All run concurrently; the  *)
(* code uses atomic counters and four locks that are never held across     *)
(* each other's work, so a step is one atomic read-modify-write or one     *)
(* critical section.  The pool that hands scheduled sequences to workers   *)
(* is the set "scheduled"; the delayed task manager is the set "delayed".  *)
(* All tasks of a sequence have the traits of its task runner.  The number *)
(* of posts so far serves as a clock: coarse, so that times may be equal.  *)
(***************************************************************************)
EXTENDS Naturals, FiniteSets, Sequences

CONSTANTS
    Seqs,            \* the sequences
    BlockShutdown,   \* those with TaskShutdownBehavior::BLOCK_SHUTDOWN
    SkipOnShutdown,  \* those with SKIP_ON_SHUTDOWN; the rest CONTINUE_...
    Background,      \* those with TaskPriority::BACKGROUND
    MaxBackgrounds,  \* what max_num_scheduled_background_sequences may be
    Posters,         \* threads that post, among them the service thread
    Workers,         \* threads of the pool
    Flushers,        \* threads that call FlushForTesting
    Calls,           \* the calls the program makes apart from posting
    MaxPosts,        \* bound: the number of calls to PostTaskWithSequence
    None

ASSUME TraitsAssumption ==
    /\ BlockShutdown \subseteq Seqs
    /\ SkipOnShutdown \subseteq Seqs
    /\ BlockShutdown \cap SkipOnShutdown = {}
    /\ Background \subseteq Seqs
    /\ None \notin Seqs

ASSUME CallsAssumption ==
    Calls \subseteq {"Shutdown", "SetHasShutdownStartedForTesting",
                     "FlushAsyncForTesting"}

ASSUME BoundsAssumption ==
    /\ IsFiniteSet(Seqs)
    /\ IsFiniteSet(Posters)
    /\ IsFiniteSet(Workers)
    /\ MaxBackgrounds \subseteq Nat
    /\ MaxPosts \in Nat

VARIABLES
    started,        \* state_: the "shutdown has started" bit of bits_
    num_blocking,   \* state_: the number of tasks blocking shutdown in bits_
    event,          \* shutdown_event_: null, not signaled or signaled
    num_undelayed,  \* num_incomplete_undelayed_tasks_
    callback,       \* flush_callback_for_testing_ is set
    num_background, \* num_scheduled_background_sequences_
    max_background, \* max_num_scheduled_background_sequences_
    preempted,      \* preempted_background_sequences_: <<sequence, time>>
    queue,          \* Sequence::queue_; the front task stays in until Pop
    scheduled,      \* sequences the pool may hand to a worker
    delayed,        \* tasks that wait in the DelayedTaskManager
    poster,         \* each poster's pc, sequence and task
    worker,         \* each worker's pc and sequence
    shutter,        \* pc of the thread that calls Shutdown
    flusher,        \* pc of each thread in FlushForTesting
    async,          \* pc of the thread that calls FlushAsyncForTesting
    posts           \* number of posts so far; orders the tasks in time

tracker == <<started, num_blocking, event>>
flush == <<num_undelayed, callback>>
background == <<num_background, max_background, preempted>>
threads == <<poster, worker, shutter, flusher, async>>
vars == <<tracker, flush, background, queue, scheduled, delayed, threads, posts>>

Unbounded == Cardinality(Seqs) + Cardinality(Workers)   \* int's max()

\* "time" is the sequenced_time that PushTask sets; "early" is a history field:
\* the post began before shutdown did.
Task == [id : 1 .. MaxPosts, seq : Seqs, is_delayed : BOOLEAN,
         time : 0 .. MaxPosts, early : BOOLEAN]
NoTask == [id |-> 0, seq |-> None, is_delayed |-> FALSE, time |-> 0, early |-> FALSE]

\* The shutdown behavior of a task: Task's constructor makes a delayed
\* BLOCK_SHUTDOWN task a SKIP_ON_SHUTDOWN task.
Blocks(task) == task.seq \in BlockShutdown /\ ~task.is_delayed
Skips(task) == \/ task.seq \in SkipOnShutdown
               \/ task.seq \in BlockShutdown /\ task.is_delayed

Init ==
    /\ started = FALSE
    /\ num_blocking = 0
    /\ event = "null"
    /\ num_undelayed = 0
    /\ callback = FALSE
    /\ num_background = 0
    /\ max_background \in MaxBackgrounds
    /\ preempted = {}
    /\ queue = [s \in Seqs |-> <<>>]
    /\ scheduled = {}
    /\ delayed = {}
    /\ poster = [p \in Posters |-> [pc |-> "idle", task |-> NoTask]]
    /\ worker = [w \in Workers |-> [pc |-> "idle", seq |-> None]]
    /\ shutter = "idle"
    /\ flusher = [f \in Flushers |-> "idle"]
    /\ async = "idle"
    /\ posts = 0

IsShutdownComplete == event = "signaled"

\* Mutant: any decrement after shutdown has started reports completion.
LastBlocker_IgnoresCount == started

\* DecrementNumTasksBlockingShutdown() returns true.
LastBlocker == started /\ num_blocking = 1

------------------------------------------------------------------------------
(* Posting a task: WillPostTask, PostTaskWithSequence[Now]                  *)

Goto(p, pc) == poster' = [poster EXCEPT ![p].pc = pc]

\* BeforePostTask: a BLOCK_SHUTDOWN task counts from here on; any other is
\* refused once shutdown has started (a refused post leaves no trace).
BeforePostTask(p, s, is_delayed) ==
    LET task == [id |-> posts + 1, seq |-> s, is_delayed |-> is_delayed,
                 time |-> 0, early |-> ~started]
    IN
    /\ poster[p].pc = "idle"
    /\ posts < MaxPosts
    /\ ~Blocks(task) => ~started
    /\ posts' = posts + 1
    /\ num_blocking' = IF Blocks(task) THEN num_blocking + 1 ELSE num_blocking
    /\ poster' = [poster EXCEPT ![p] =
                    [pc |-> IF started THEN "check" ELSE "count", task |-> task]]
    /\ UNCHANGED <<started, event, flush, background, queue, scheduled, delayed,
                   worker, shutter, flusher, async>>

\* Mutant: a refused post stays counted.
PostDuringShutdown_KeepsCount(p) ==
    /\ poster[p].pc = "check"
    /\ IF event = "signaled"
       THEN poster' = [poster EXCEPT ![p] = [pc |-> "idle", task |-> NoTask]]
       ELSE Goto(p, "count")
    /\ UNCHANGED <<tracker, flush, background, queue, scheduled, delayed, worker,
                   shutter, flusher, async, posts>>

\* BeforePostTask, shutdown has started: under shutdown_lock_ the task is
\* refused if shutdown is complete.
PostDuringShutdown(p) ==
    /\ poster[p].pc = "check"
    /\ IF event = "signaled"
       THEN /\ num_blocking' = num_blocking - 1
            /\ poster' = [poster EXCEPT ![p] = [pc |-> "idle", task |-> NoTask]]
       ELSE /\ Goto(p, "count")
            /\ UNCHANGED num_blocking
    /\ UNCHANGED <<started, event, flush, background, queue, scheduled, delayed,
                   worker, shutter, flusher, async, posts>>

\* The end of WillPostTask counts an undelayed task; PostTaskWithSequence
\* hands a delayed one to the DelayedTaskManager.
WillPostTask(p) ==
    LET task == poster[p].task IN
    /\ poster[p].pc = "count"
    /\ IF task.is_delayed
       THEN /\ delayed' = delayed \cup {task}
            /\ poster' = [poster EXCEPT ![p] = [pc |-> "idle", task |-> NoTask]]
            /\ UNCHANGED num_undelayed
       ELSE /\ num_undelayed' = num_undelayed + 1
            /\ Goto(p, "push")
            /\ UNCHANGED delayed
    /\ UNCHANGED <<tracker, callback, background, queue, scheduled, worker,
                   shutter, flusher, async, posts>>

\* A delayed task is ripe: the service thread, one of the posters, runs the
\* callback that AddDelayedTask was given.
DelayedTaskRipe(p) ==
    /\ poster[p].pc = "idle"
    /\ \E task \in delayed :
        /\ delayed' = delayed \ {task}
        /\ poster' = [poster EXCEPT ![p] = [pc |-> "push", task |-> task]]
    /\ UNCHANGED <<tracker, flush, background, queue, scheduled, worker, shutter,
                   flusher, async, posts>>

\* Mutant: every poster believes that it must schedule the sequence.
SequenceWasEmpty_Always(s) == TRUE

\* What PushTask returns.
SequenceWasEmpty(s) == queue[s] = <<>>

\* PushTask; only the poster that finds the sequence empty schedules it.
PushTask(p) ==
    LET task == poster[p].task IN
    /\ poster[p].pc = "push"
    /\ queue' = [queue EXCEPT ![task.seq] = Append(@, [task EXCEPT !.time = posts])]
    /\ poster' = [poster EXCEPT ![p] =
        IF SequenceWasEmpty(task.seq)
        THEN [pc |-> "schedule", task |-> task]
        ELSE [pc |-> "idle", task |-> NoTask]]
    /\ UNCHANGED <<tracker, flush, background, scheduled, delayed, worker, shutter,
                   flusher, async, posts>>

\* next_task_sequenced_time of a sequence that is not empty
SequencedTime(s) == Head(queue[s]).time

\* Mutant: the cap is off by one.
CanSchedule_OffByOne(s) == s \notin Background \/ num_background <= max_background

CanSchedule(s) == s \notin Background \/ num_background < max_background

\* WillScheduleSequence, and OnCanScheduleSequence when it allows it.
WillScheduleSequence(p) ==
    LET s == poster[p].task.seq IN
    /\ poster[p].pc = "schedule"
    /\ IF CanSchedule(s)
       THEN /\ scheduled' = scheduled \cup {s}
            /\ num_background' = IF s \in Background THEN num_background + 1
                                                     ELSE num_background
            /\ UNCHANGED preempted
       ELSE /\ preempted' = preempted \cup {<<s, SequencedTime(s)>>}
            /\ UNCHANGED <<scheduled, num_background>>
    /\ poster' = [poster EXCEPT ![p] = [pc |-> "idle", task |-> NoTask]]
    /\ UNCHANGED <<tracker, flush, max_background, queue, delayed, worker, shutter,
                   flusher, async, posts>>

------------------------------------------------------------------------------
(* Running a task: RunAndPopNextTask                                        *)

WorkerGoes(w, pc) == worker' = [worker EXCEPT ![w].pc = pc]

\* What ends the loop of RunWorker; cleanup and joining are left out.
ShouldExit == IsShutdownComplete

\* The loop of RunWorker begins a round.  An idle worker is between two rounds or in
\* WaitForWork, which a wake-up or a time-out may end at any time.  It has left the
\* loop for good when it finds that it should: shutdown stays complete.
BeginRound(w) ==
    /\ worker[w].pc = "idle"
    /\ ~ShouldExit
    /\ WorkerGoes(w, "get")
    /\ UNCHANGED <<tracker, flush, background, queue, scheduled, delayed, poster,
                   shutter, flusher, async, posts>>

\* GetWork returns a sequence of the pool, and the worker takes its first task ...
TakeTask(w) ==
    /\ worker[w].pc = "get"
    /\ \E s \in scheduled :
        /\ scheduled' = scheduled \ {s}
        /\ worker' = [worker EXCEPT ![w] = [pc |-> "before", seq |-> s]]
    /\ UNCHANGED <<tracker, flush, background, queue, delayed, poster, shutter,
                   flusher, async, posts>>

\* ... or it returns null.
GetsNoWork(w) ==
    /\ worker[w].pc = "get"
    /\ scheduled = {}
    /\ WorkerGoes(w, "idle")
    /\ UNCHANGED <<tracker, flush, background, queue, scheduled, delayed, poster,
                   shutter, flusher, async, posts>>

\* The task a worker runs: its sequence's first, until Pop removes it.
CurrentTask(w) == Head(queue[worker[w].seq])

\* BeforeRunTask up to its first access to the state.
BeforeRunTask(w) ==
    LET task == CurrentTask(w) IN
    /\ worker[w].pc = "before"
    /\ num_blocking' = IF Skips(task) THEN num_blocking + 1 ELSE num_blocking
    /\ WorkerGoes(w, IF Blocks(task) \/ ~started THEN "running"
                     ELSE IF Skips(task) THEN "unblock" ELSE "count")
    /\ UNCHANGED <<started, event, flush, background, queue, scheduled, delayed,
                   poster, shutter, flusher, async, posts>>

\* Mutant: AfterRunTask ignores the task's shutdown behavior.
DecrementNumTasksBlockingShutdown_ForAnyTask(w) ==
    /\ worker[w].pc \in {"unblock", "running"}
    /\ num_blocking' = num_blocking - 1
    /\ WorkerGoes(w, IF LastBlocker THEN "complete" ELSE "count")
    /\ UNCHANGED <<started, event, flush, background, queue, scheduled, delayed,
                   poster, shutter, flusher, async, posts>>

\* BeforeRunTask takes back the increment for a SKIP_ON_SHUTDOWN task that may
\* not run; AfterRunTask takes back the one for a task that ran.
DecrementNumTasksBlockingShutdown(w) ==
    LET counted == Blocks(CurrentTask(w)) \/ Skips(CurrentTask(w)) IN
    /\ worker[w].pc \in {"unblock", "running"}
    /\ num_blocking' = IF counted THEN num_blocking - 1 ELSE num_blocking
    /\ WorkerGoes(w, IF counted /\ LastBlocker THEN "complete" ELSE "count")
    /\ UNCHANGED <<started, event, flush, background, queue, scheduled, delayed,
                   poster, shutter, flusher, async, posts>>

OnBlockingShutdownTasksComplete(w) ==
    /\ worker[w].pc = "complete"
    /\ event' = "signaled"
    /\ WorkerGoes(w, "count")
    /\ UNCHANGED <<started, num_blocking, flush, background, queue, scheduled,
                   delayed, poster, shutter, flusher, async, posts>>

\* Mutant: delayed tasks, which are never counted, are taken off the count.
DecrementNumIncompleteUndelayedTasks_DelayedToo(w) ==
    /\ worker[w].pc = "count"
    /\ num_undelayed' = num_undelayed - 1
    /\ WorkerGoes(w, IF num_undelayed = 1 THEN "signal" ELSE "pop")
    /\ UNCHANGED <<tracker, callback, background, queue, scheduled, delayed, poster,
                   shutter, flusher, async, posts>>

DecrementNumIncompleteUndelayedTasks(w) ==
    LET is_delayed == CurrentTask(w).is_delayed IN
    /\ worker[w].pc = "count"
    /\ num_undelayed' = IF is_delayed THEN num_undelayed ELSE num_undelayed - 1
    /\ WorkerGoes(w, IF ~is_delayed /\ num_undelayed = 1 THEN "signal" ELSE "pop")
    /\ UNCHANGED <<tracker, callback, background, queue, scheduled, delayed, poster,
                   shutter, flusher, async, posts>>

\* FlushForTesting holds flush_lock_ while it evaluates its loop's condition.
FlushLockFree == \A f \in Flushers : flusher[f] # "holding"

WakeOneFlusher ==
    \/ \E f \in Flushers : /\ flusher[f] = "waiting"
                           /\ flusher' = [flusher EXCEPT ![f] = "check"]
    \/ /\ \A f \in Flushers : flusher[f] # "waiting"
       /\ UNCHANGED flusher

\* Mutant: the condition variable is signaled without the lock.
SignalFlushCv_WithoutLock == WakeOneFlusher

\* flush_cv_->Signal(), with flush_lock_ held, wakes one waiter if there is one.
SignalFlushCv == FlushLockFree /\ WakeOneFlusher

WorkerSignalsFlush(w) ==
    /\ worker[w].pc = "signal"
    /\ SignalFlushCv
    /\ WorkerGoes(w, "callback")
    /\ UNCHANGED <<tracker, flush, background, queue, scheduled, delayed, poster,
                   shutter, async, posts>>

\* CallFlushCallbackForTesting
WorkerCallsFlushCallback(w) ==
    /\ worker[w].pc = "callback"
    /\ FlushLockFree
    /\ callback' = FALSE
    /\ WorkerGoes(w, "pop")
    /\ UNCHANGED <<tracker, num_undelayed, background, queue, scheduled, delayed,
                   poster, shutter, flusher, async, posts>>

\* Pop.  A foreground sequence that has more tasks goes back to the pool; a
\* sequence that is empty is left to the next poster.
Pop(w) ==
    LET s == worker[w].seq IN
    /\ worker[w].pc = "pop"
    /\ queue' = [queue EXCEPT ![s] = Tail(@)]
    /\ IF s \in Background
       THEN /\ WorkerGoes(w, IF Tail(queue[s]) = <<>> THEN "manage_empty" ELSE "manage")
            /\ UNCHANGED scheduled
       ELSE /\ worker' = [worker EXCEPT ![w] = [pc |-> "idle", seq |-> None]]
            /\ scheduled' = IF Tail(queue[s]) = <<>> THEN scheduled
                                                     ELSE scheduled \cup {s}
    /\ UNCHANGED <<tracker, flush, background, delayed, poster, shutter, flusher,
                   async, posts>>

\* The preempted sequences whose next task is the earliest.
Earliest(P) == {x \in P : \A y \in P : x[2] <= y[2]}

\* Mutant: nobody is scheduled in place of a sequence that is empty.
SequencesWaiting_NoneIfEmpty(just_ran) ==
    IF just_ran = {} THEN {} ELSE preempted \cup just_ran

SequencesWaiting(just_ran) == preempted \cup just_ran

\* The sequence that just ran has more tasks, the next of them earlier than any
\* preempted sequence's.
KeepsItsSlot(w) ==
    /\ worker[w].pc = "manage"
    /\ \A x \in preempted : x[2] > SequencedTime(worker[w].seq)

\* ManageBackgroundSequencesAfterRunningTask: the slot stays with the sequence
\* that just ran, goes to the earliest that waits, or becomes free.
ManageBackgroundSequences(w) ==
    LET s == worker[w].seq
        just_ran == IF worker[w].pc = "manage" THEN {<<s, SequencedTime(s)>>} ELSE {}
        waiting == SequencesWaiting(just_ran)
    IN
    /\ worker[w].pc \in {"manage", "manage_empty"}
    /\ \/ /\ KeepsItsSlot(w)
          /\ scheduled' = scheduled \cup {s}
          /\ UNCHANGED <<preempted, num_background>>
       \/ /\ ~KeepsItsSlot(w)
          /\ \E x \in Earliest(waiting) :
                /\ preempted' = waiting \ {x}
                /\ scheduled' = scheduled \cup {x[1]}
          /\ UNCHANGED num_background
       \/ /\ waiting = {}
          /\ num_background' = num_background - 1
          /\ UNCHANGED <<preempted, scheduled>>
    /\ worker' = [worker EXCEPT ![w] = [pc |-> "idle", seq |-> None]]
    /\ UNCHANGED <<tracker, flush, max_background, queue, delayed, poster, shutter,
                   flusher, async, posts>>

------------------------------------------------------------------------------
(* Shutdown                                                                 *)

\* PerformShutdown: its first critical section.
StartShutdown ==
    /\ shutter = "idle"
    /\ "Shutdown" \in Calls
    /\ started' = TRUE
    /\ event' = IF num_blocking = 0 THEN "signaled" ELSE "unsignaled"
    /\ shutter' = IF num_blocking = 0 THEN "signal" ELSE "uncap"
    /\ UNCHANGED <<num_blocking, flush, background, queue, scheduled, delayed, poster,
                   worker, flusher, async, posts>>

\* Mutant: raising the cap schedules nothing.
PreemptedToSchedule_None == {}

\* What the loop of SetMaxNumScheduledBackgroundSequences(max()) pops.
PreemptedToSchedule == preempted

SetMaxNumScheduledBackgroundSequences ==
    /\ shutter = "uncap"
    /\ max_background' = Unbounded
    /\ num_background' = num_background + Cardinality(PreemptedToSchedule)
    /\ scheduled' = scheduled \cup {x[1] : x \in PreemptedToSchedule}
    /\ preempted' = preempted \ PreemptedToSchedule
    /\ shutter' = "wait"
    /\ UNCHANGED <<tracker, flush, queue, delayed, poster, worker, flusher, async,
                   posts>>

\* shutdown_event_->Wait() returns.
ShutdownWaits ==
    /\ shutter = "wait"
    /\ event = "signaled"
    /\ shutter' = "signal"
    /\ UNCHANGED <<tracker, flush, background, queue, scheduled, delayed, poster,
                   worker, flusher, async, posts>>

ShutdownSignalsFlush ==
    /\ shutter = "signal"
    /\ SignalFlushCv
    /\ shutter' = "callback"
    /\ UNCHANGED <<tracker, flush, background, queue, scheduled, delayed, poster,
                   worker, async, posts>>

ShutdownCallsFlushCallback ==
    /\ shutter = "callback"
    /\ FlushLockFree
    /\ callback' = FALSE
    /\ shutter' = "done"
    /\ UNCHANGED <<tracker, num_undelayed, background, queue, scheduled, delayed,
                   poster, worker, flusher, async, posts>>

SetHasShutdownStartedForTesting ==
    /\ shutter = "idle"
    /\ "SetHasShutdownStartedForTesting" \in Calls
    /\ started' = TRUE
    /\ event' = "unsignaled"
    /\ shutter' = "testing"
    /\ UNCHANGED <<num_blocking, flush, background, queue, scheduled, delayed, poster,
                   worker, flusher, async, posts>>

------------------------------------------------------------------------------
(* Flushing                                                                 *)

FlushForTesting(f) ==
    /\ flusher[f] = "idle"
    /\ flusher' = [flusher EXCEPT ![f] = "check"]
    /\ UNCHANGED <<tracker, flush, background, queue, scheduled, delayed, poster,
                   worker, shutter, async, posts>>

\* With flush_lock_ held, the loop's condition is evaluated in two reads ...
FlushReadsCount(f) ==
    /\ flusher[f] = "check"
    /\ FlushLockFree
    /\ flusher' = [flusher EXCEPT ![f] = IF num_undelayed # 0 THEN "holding" ELSE "done"]
    /\ UNCHANGED <<tracker, flush, background, queue, scheduled, delayed, poster,
                   worker, shutter, async, posts>>

\* ... and flush_cv_->Wait() releases the lock.
FlushReadsShutdown(f) ==
    /\ flusher[f] = "holding"
    /\ flusher' = [flusher EXCEPT ![f] = IF IsShutdownComplete THEN "done" ELSE "waiting"]
    /\ UNCHANGED <<tracker, flush, background, queue, scheduled, delayed, poster,
                   worker, shutter, async, posts>>

\* FlushAsyncForTesting stores the callback ...
FlushAsyncForTesting ==
    /\ async = "idle"
    /\ "FlushAsyncForTesting" \in Calls
    /\ FlushLockFree
    /\ callback' = TRUE
    /\ async' = "check"
    /\ UNCHANGED <<tracker, num_undelayed, background, queue, scheduled, delayed,
                   poster, worker, shutter, flusher, posts>>

\* Mutant: the callback is left to a worker even if there is no task.
FlushAsyncReadsCount_LeavesIt ==
    /\ async = "check"
    /\ async' = "check_shutdown"
    /\ UNCHANGED <<tracker, flush, background, queue, scheduled, delayed, poster,
                   worker, shutter, flusher, posts>>

\* ... then reads the count and, if it is not zero, whether shutdown is complete,
\* and runs the callback at once if either is so.
FlushAsyncReadsCount ==
    /\ async = "check"
    /\ async' = IF num_undelayed = 0 THEN "callback" ELSE "check_shutdown"
    /\ UNCHANGED <<tracker, flush, background, queue, scheduled, delayed, poster,
                   worker, shutter, flusher, posts>>

FlushAsyncReadsShutdown ==
    /\ async = "check_shutdown"
    /\ async' = IF IsShutdownComplete THEN "callback" ELSE "done"
    /\ UNCHANGED <<tracker, flush, background, queue, scheduled, delayed, poster,
                   worker, shutter, flusher, posts>>

FlushAsyncCallsCallback ==
    /\ async = "callback"
    /\ FlushLockFree
    /\ callback' = FALSE
    /\ async' = "done"
    /\ UNCHANGED <<tracker, num_undelayed, background, queue, scheduled, delayed,
                   poster, worker, shutter, flusher, posts>>

------------------------------------------------------------------------------
PosterStep(p) ==
    \/ PostDuringShutdown(p)
    \/ WillPostTask(p)
    \/ DelayedTaskRipe(p)
    \/ PushTask(p)
    \/ WillScheduleSequence(p)

WorkerStep(w) ==
    \/ BeginRound(w)
    \/ TakeTask(w)
    \/ GetsNoWork(w)
    \/ BeforeRunTask(w)
    \/ DecrementNumTasksBlockingShutdown(w)
    \/ OnBlockingShutdownTasksComplete(w)
    \/ DecrementNumIncompleteUndelayedTasks(w)
    \/ WorkerSignalsFlush(w)
    \/ WorkerCallsFlushCallback(w)
    \/ Pop(w)
    \/ ManageBackgroundSequences(w)

ShutterStep ==
    \/ SetMaxNumScheduledBackgroundSequences
    \/ ShutdownWaits
    \/ ShutdownSignalsFlush
    \/ ShutdownCallsFlushCallback

FlusherStep(f) == FlushReadsCount(f) \/ FlushReadsShutdown(f)

AsyncStep ==
    \/ FlushAsyncReadsCount
    \/ FlushAsyncReadsShutdown
    \/ FlushAsyncCallsCallback

\* Calls that nothing obliges anybody to make.
Request ==
    \/ \E p \in Posters, s \in Seqs, d \in BOOLEAN : BeforePostTask(p, s, d)
    \/ StartShutdown
    \/ SetHasShutdownStartedForTesting
    \/ \E f \in Flushers : FlushForTesting(f)
    \/ FlushAsyncForTesting

Next ==
    \/ Request
    \/ \E p \in Posters : PosterStep(p)
    \/ \E w \in Workers : WorkerStep(w)
    \/ ShutterStep
    \/ \E f \in Flushers : FlusherStep(f)
    \/ AsyncStep

\* Threads inside a call are not stopped for ever, tasks end, the pool's workers
\* keep taking sequences until shutdown is complete, and the clock reaches the
\* delayed tasks.
Fairness ==
    /\ \A p \in Posters : WF_vars(PosterStep(p))
    /\ \A w \in Workers : WF_vars(WorkerStep(w))
    /\ WF_vars(ShutterStep)
    /\ \A f \in Flushers : WF_vars(FlusherStep(f))
    /\ WF_vars(AsyncStep)

Spec == Init /\ [][Next]_vars /\ Fairness

------------------------------------------------------------------------------
(* Properties                                                               *)

PosterPcs == {"idle", "check", "count", "push", "schedule"}
WorkerPcs == {"idle", "get", "before", "unblock", "running", "complete", "count",
              "signal", "callback", "pop", "manage", "manage_empty"}
ShutterPcs == {"idle", "uncap", "wait", "signal", "callback", "done", "testing"}
FlusherPcs == {"idle", "check", "holding", "waiting", "done"}
AsyncPcs == {"idle", "check", "check_shutdown", "callback", "done"}

\* Type correctness; in particular no counter goes below zero, which is what the
\* DCHECK_GEs of the decrements say.
TypeOK ==
    /\ started \in BOOLEAN
    /\ num_blocking \in Nat
    /\ event \in {"null", "unsignaled", "signaled"}
    /\ num_undelayed \in Nat
    /\ callback \in BOOLEAN
    /\ num_background \in Nat
    /\ max_background \in Nat
    /\ preempted \subseteq Seqs \X (0 .. MaxPosts)
    /\ queue \in [Seqs -> Seq(Task)]
    /\ scheduled \subseteq Seqs
    /\ delayed \subseteq Task
    /\ poster \in [Posters -> [pc : PosterPcs, task : Task \cup {NoTask}]]
    /\ worker \in [Workers -> [pc : WorkerPcs, seq : Seqs \cup {None}]]
    /\ shutter \in ShutterPcs
    /\ flusher \in [Flushers -> FlusherPcs]
    /\ async \in AsyncPcs
    /\ posts \in 0 .. MaxPosts

\* The tasks in the hands of a poster at one of these pcs.
Posting(pcs) == {poster[p].task : p \in {q \in Posters : poster[q].pc \in pcs}}

\* The tasks in the queues, except the first of a sequence whose worker is at
\* one of these pcs.
InQueues(pcs) ==
    UNION {{queue[s][i] : i \in {j \in DOMAIN queue[s] :
                j = 1 => \A w \in Workers : worker[w].seq = s => worker[w].pc \notin pcs}}
           : s \in Seqs}

\* Accepted BLOCK_SHUTDOWN tasks that have not completed their execution.
BlockingTasks ==
    {task \in Posting({"count", "push"})
              \cup InQueues({"complete", "count", "signal", "callback", "pop"}) :
        Blocks(task)}

\* The undelayed tasks that WillPostTask counted and that are not complete.
UndelayedTasks ==
    {task \in Posting({"push"}) \cup InQueues({"signal", "callback", "pop"}) :
        ~task.is_delayed}

RunsSkipTask(w) == worker[w].pc = "running" /\ Skips(CurrentTask(w))

\* The count in State::bits_ is what shutdown must wait for, nothing more and
\* nothing less: every accepted BLOCK_SHUTDOWN task until it completes, every
\* SKIP_ON_SHUTDOWN task while it runs, and the increments about to be undone.
BlockingCountExact ==
    num_blocking = Cardinality(BlockingTasks)
                   + Cardinality({p \in Posters : poster[p].pc = "check"})
                   + Cardinality({w \in Workers : RunsSkipTask(w) \/ worker[w].pc = "unblock"})

\* What Shutdown() promises, for what precedes it: it is complete only when every
\* BLOCK_SHUTDOWN task whose post began before shutdown has completed, and no
\* SKIP_ON_SHUTDOWN task is running.
ShutdownWaitsForPriorTasks ==
    IsShutdownComplete =>
        /\ \A task \in BlockingTasks : ~task.early
        /\ \A w \in Workers : ~RunsSkipTask(w)

\* A worker that has the right to run sequence s, or to reschedule it.
Owns(w, s) == worker[w].seq = s /\ worker[w].pc # "manage_empty"

\* A sequence with tasks is in exactly one place: with the poster that found it
\* empty, preempted, in the pool or with one worker; an empty one is nowhere.  So
\* its tasks never run in parallel and it is never forgotten.
SequenceInOnePlace ==
    \A s \in Seqs :
        Cardinality({p \in Posters : poster[p].pc = "schedule" /\ poster[p].task.seq = s})
        + Cardinality({x \in preempted : x[1] = s})
        + Cardinality({s} \cap scheduled)
        + Cardinality({w \in Workers : Owns(w, s)})
            = IF queue[s] = <<>> THEN 0 ELSE 1

\* num_scheduled_background_sequences_ counts the background sequences in the pool
\* or with a worker and never exceeds the cap; a sequence is preempted only while
\* the cap is reached (the DCHECKs of GetPreempted... and ManageBackground...).
BackgroundCapKept ==
    /\ num_background = Cardinality(scheduled \cap Background)
                        + Cardinality({w \in Workers : worker[w].seq \in Background})
    /\ num_background <= max_background
    /\ preempted # {} => num_background = max_background

\* FlushForTesting returns only when every undelayed task whose WillPostTask has
\* returned is complete, or shutdown is.
FlushMeansIdle ==
    [][\A f \in Flushers : flusher[f] # "done" /\ flusher'[f] = "done" =>
            IsShutdownComplete \/ UndelayedTasks = {}]_vars

\* Whenever Shutdown() is called it returns, background sequences that were
\* preempted, even with a cap of zero, included.
ShutdownReturns == <>[](shutter \in {"idle", "done", "testing"})

\* A blocking task that ended after SetHasShutdownStartedForTesting completed
\* shutdown: the workers leave with undelayed tasks still queued, and no thread is
\* in PerformShutdown to signal flush_cv_.
LeftWithoutSignal == shutter = "testing" /\ IsShutdownComplete /\ num_undelayed > 0

\* FlushForTesting returns, and the callback of FlushAsyncForTesting is run, once
\* posting ends, unless a cap of zero keeps tasks from running or the workers left
\* after SetHasShutdownStartedForTesting, and if one thread at a time calls
\* FlushForTesting: flush_cv_->Signal() wakes one waiter only.  After Shutdown()
\* the flush ends although the workers leave queued tasks behind.
FlushesEnd ==
    <>[](max_background > 0 /\ ~LeftWithoutSignal =>
            /\ \A f \in Flushers : flusher[f] \in {"idle", "done"}
            /\ ~callback)

\* Every sequence gets its tasks run or skipped once the cap is above zero, unless
\* shutdown is complete, when the workers leave: a preempted sequence is not left
\* behind when a slot becomes free or the cap is lifted.
EverySequenceDrains ==
    <>[](max_background > 0 /\ ~IsShutdownComplete => \A s \in Seqs : queue[s] = <<>>)

------------------------------------------------------------------------------
(* What an assertion of the code says, and the code does not do.            *)

\* BeforeRunTask: DCHECK(!state_->HasShutdownStarted() || !IsShutdownComplete()).
\* A worker that began its round before shutdown was complete takes a task whose
\* post had passed its own check by then.
NoBlockingTaskRunsAfterShutdown ==
    \A w \in Workers : worker[w].pc = "before" /\ Blocks(CurrentTask(w)) =>
        ~(started /\ IsShutdownComplete)
==============================================================================
