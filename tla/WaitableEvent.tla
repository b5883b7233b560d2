---------------------------- MODULE WaitableEvent ----------------------------
(***************************************************************************)
(* base::WaitableEvent, the POSIX implementation                           *)
(* (base/synchronization/waitable_event_posix.cc).                         *)
(*                                                                         *)
(* Each event has a kernel: a lock_, the flag signaled_ and the list       *)
(* waiters_.  A thread that must block enqueues a SyncWaiter that lives on *)
(* its own stack; a thread has at most one, so the waiter is named by its  *)
(* thread.  An event is named by its address, a natural number, because    *)
(* WaitMany orders the locks it takes by address.                          *)
(*                                                                         *)
(* Code that runs with a kernel's lock_ held from beginning to end and     *)
(* touches nothing else is one step.  Three parts are finer, because other *)
(* threads can see the middle of them: Signal fires its waiters one by one *)
(* (a waiter may be queued on several events), EnqueueMany takes its locks *)
(* one by one, and a waiter that was woken, or timed out, takes the locks  *)
(* again one by one to leave the lists.                                    *)
(***************************************************************************)
EXTENDS Naturals, Sequences, FiniteSets, SequencesExt

CONSTANTS
    Threads,           \* the threads that use the events
    Events,            \* the addresses of the events
    ManualReset,       \* the events built with ResetPolicy::MANUAL
    InitiallySignaled, \* the events built with InitialState::SIGNALED
    WaitManyArgs,      \* the arrays of events that callers pass to WaitMany
    None

AutoReset == Events \ ManualReset

ASSUME EventsAssumption ==
    /\ Events \subseteq Nat
    /\ ManualReset \subseteq Events
    /\ InitiallySignaled \subseteq Events

\* There are finitely many addresses.
ASSUME AddressesAssumption == IsFiniteSet(Events)

\* WaitMany DCHECKs that there is an event and that the events are distinct.
ASSUME WaitManyAssumption ==
    \A raw \in WaitManyArgs :
        /\ raw \in Seq(Events)
        /\ raw # <<>>
        /\ \A i, j \in DOMAIN raw : raw[i] = raw[j] => i = j

ASSUME NoneAssumption == None \notin Threads /\ None \notin Events

VARIABLES
    signaled,         \* kernel_->signaled_
    waiters,          \* kernel_->waiters_
    lock,             \* the holder of kernel_->lock_ across steps, or None
    fired,            \* SyncWaiter::fired_ of the thread's waiter
    signaling_event,  \* SyncWaiter::signaling_event_
    pc,               \* where each thread is in its current call
    call,             \* its current call: the operation, and its events
    next,             \* the loop index of SignalAll, or of WaitMany's last loop
    result,           \* index of the event the wait returned for, 0 for false
    consumed,         \* history: events whose signal this wait used up
    woke              \* history: waiters that accepted Fire in this Signal

vars == <<signaled, waiters, lock, fired, signaling_event, pc, call, next,
          result, consumed, woke>>
kernel == <<signaled, waiters, lock>>
waiter == <<fired, signaling_event>>
history == <<consumed, woke>>

WaitOps == {"Wait", "TimedWait", "WaitMany"}

Call == [op : WaitOps \cup {"Signal", "none"}, on : Seq(Events)]

NoCall == [op |-> "none", on |-> <<>>]

Init ==
    /\ signaled = [e \in Events |-> e \in InitiallySignaled]
    /\ waiters = [e \in Events |-> <<>>]
    /\ lock = [e \in Events |-> None]
    /\ fired = [t \in Threads |-> FALSE]
    /\ signaling_event = [t \in Threads |-> None]
    /\ pc = [t \in Threads |-> "idle"]
    /\ call = [t \in Threads |-> NoCall]
    /\ next = [t \in Threads |-> 1]
    /\ result = [t \in Threads |-> 0]
    /\ consumed = [t \in Threads |-> {}]
    /\ woke = [t \in Threads |-> {}]

------------------------------------------------------------------------------
(* Reset and IsSignaled hold the lock for all they do.                     *)

Reset(t, e) ==
    /\ pc[t] = "idle"
    /\ lock[e] = None
    /\ signaled' = [signaled EXCEPT ![e] = FALSE]
    /\ UNCHANGED <<waiters, lock, waiter, pc, call, next, result, history>>

IsSignaled(t, e) ==
    /\ pc[t] = "idle"
    /\ lock[e] = None
    /\ signaled' = [signaled EXCEPT ![e] = @ /\ e \in ManualReset]
    /\ UNCHANGED <<waiters, lock, waiter, pc, call, next, result, history>>

------------------------------------------------------------------------------
(* Signal                                                                  *)

\* Signal of an event that is signaled returns at once and changes nothing;
\* of any other event it keeps the lock and goes on to the waiters.
SignalBegin(t, e) ==
    /\ pc[t] = "idle"
    /\ lock[e] = None
    /\ ~signaled[e]
    /\ lock' = [lock EXCEPT ![e] = t]
    /\ pc' = [pc EXCEPT ![t] = "signal"]
    /\ call' = [call EXCEPT ![t] = [op |-> "Signal", on |-> <<e>>]]
    /\ UNCHANGED <<signaled, waiters, waiter, next, result, history>>

\* SyncWaiter::Fire, called by the thread t for the event e on the waiter w:
\* a waiter that has fired rejects the wake.
Accepts(w) == ~fired[w]

Fire(t, e, w) ==
    IF Accepts(w)
    THEN /\ fired' = [fired EXCEPT ![w] = TRUE]
         /\ signaling_event' = [signaling_event EXCEPT ![w] = e]
         /\ consumed' = [consumed EXCEPT ![w] = @ \cup {e}]
         /\ woke' = [woke EXCEPT ![t] = @ \cup {w}]
    ELSE UNCHANGED <<waiter, history>>

\* The end of Signal; nothing of the call is left.
SignalReturns(t) ==
    /\ pc' = [pc EXCEPT ![t] = "idle"]
    /\ call' = [call EXCEPT ![t] = NoCall]
    /\ next' = [next EXCEPT ![t] = 1]
    /\ woke' = [woke EXCEPT ![t] = {}]

\* Mutant: SignalAll's iterator is advanced twice in a turn.
SignalAllFire_SkipsOne(t) ==
    LET e == call[t].on[1] IN
    /\ pc[t] = "signal"
    /\ e \in ManualReset
    /\ next[t] <= Len(waiters[e])
    /\ Fire(t, e, waiters[e][next[t]])
    /\ next' = [next EXCEPT ![t] = @ + 2]
    /\ UNCHANGED <<kernel, pc, call, result>>

\* SignalAll: one turn of the loop over waiters_.
SignalAllFire(t) ==
    LET e == call[t].on[1] IN
    /\ pc[t] = "signal"
    /\ e \in ManualReset
    /\ next[t] <= Len(waiters[e])
    /\ Fire(t, e, waiters[e][next[t]])
    /\ next' = [next EXCEPT ![t] = @ + 1]
    /\ UNCHANGED <<kernel, pc, call, result>>

\* The end of SignalAll clears the list; Signal sets signaled_ and unlocks.
SignalAllEnd(t) ==
    LET e == call[t].on[1] IN
    /\ pc[t] = "signal"
    /\ e \in ManualReset
    /\ next[t] > Len(waiters[e])
    /\ waiters' = [waiters EXCEPT ![e] = <<>>]
    /\ signaled' = [signaled EXCEPT ![e] = TRUE]
    /\ lock' = [lock EXCEPT ![e] = None]
    /\ SignalReturns(t)
    /\ UNCHANGED <<waiter, result, consumed>>

\* Mutant: SignalOne offers the wake to the first waiter only.
SignalOneFire_TriesOne(t) ==
    LET e == call[t].on[1] IN
    /\ pc[t] = "signal"
    /\ e \in AutoReset
    /\ waiters[e] # <<>>
    /\ Fire(t, e, Head(waiters[e]))
    /\ waiters' = [waiters EXCEPT ![e] = Tail(@)]
    /\ signaled' = [signaled EXCEPT ![e] = ~Accepts(Head(waiters[e]))]
    /\ pc' = [pc EXCEPT ![t] = "unlock"]
    /\ UNCHANGED <<lock, call, next, result>>

\* SignalOne: fire the first waiter and pop it; only an accepted wake ends
\* the loop.
SignalOneFire(t) ==
    LET e == call[t].on[1] IN
    /\ pc[t] = "signal"
    /\ e \in AutoReset
    /\ waiters[e] # <<>>
    /\ Fire(t, e, Head(waiters[e]))
    /\ waiters' = [waiters EXCEPT ![e] = Tail(@)]
    /\ pc' = [pc EXCEPT ![t] = IF Accepts(Head(waiters[e])) THEN "unlock" ELSE @]
    /\ UNCHANGED <<signaled, lock, call, next, result>>

\* SignalOne found nobody to wake: the event remains signaled.
SignalOneNobody(t) ==
    LET e == call[t].on[1] IN
    /\ pc[t] = "signal"
    /\ e \in AutoReset
    /\ waiters[e] = <<>>
    /\ signaled' = [signaled EXCEPT ![e] = TRUE]
    /\ lock' = [lock EXCEPT ![e] = None]
    /\ SignalReturns(t)
    /\ UNCHANGED <<waiters, waiter, result, consumed>>

SignalOneEnd(t) ==
    /\ pc[t] = "unlock"
    /\ lock' = [lock EXCEPT ![call[t].on[1]] = None]
    /\ SignalReturns(t)
    /\ UNCHANGED <<signaled, waiters, waiter, result, consumed>>

------------------------------------------------------------------------------
(* Wait and TimedWait, both TimedWaitUntil                                 *)

\* The event is signaled: the wait returns true without blocking, and an
\* automatic event is reset.
WaitTakesSignal(t, e, op) ==
    /\ pc[t] = "idle"
    /\ lock[e] = None
    /\ signaled[e]
    /\ signaled' = [signaled EXCEPT ![e] = e \in ManualReset]
    /\ call' = [call EXCEPT ![t] = [op |-> op, on |-> <<e>>]]
    /\ result' = [result EXCEPT ![t] = 1]
    /\ consumed' = [consumed EXCEPT ![t] = {e}]
    /\ pc' = [pc EXCEPT ![t] = "return"]
    /\ UNCHANGED <<waiters, lock, waiter, next, woke>>

\* Otherwise a new SyncWaiter goes to the end of the list.
WaitEnqueues(t, e, op) ==
    /\ pc[t] = "idle"
    /\ lock[e] = None
    /\ ~signaled[e]
    /\ waiters' = [waiters EXCEPT ![e] = Append(@, t)]
    /\ pc' = [pc EXCEPT ![t] = "blocked"]
    /\ call' = [call EXCEPT ![t] = [op |-> op, on |-> <<e>>]]
    /\ UNCHANGED <<signaled, lock, waiter, next, result, history>>

\* Mutant: the SyncWaiter is not disabled when the wait times out.
TimedWaitLeavesLoop_NoDisable(t) ==
    /\ pc[t] = "blocked"
    /\ call[t].op \in {"Wait", "TimedWait"}
    /\ fired[t] \/ call[t].op = "TimedWait"
    /\ result' = [result EXCEPT ![t] = IF fired[t] THEN 1 ELSE 0]
    /\ pc' = [pc EXCEPT ![t] = "dequeue"]
    /\ UNCHANGED <<kernel, waiter, call, next, history>>

\* The loop on the condition variable ends because the waiter fired or, in a
\* TimedWait, because the time is up; Disable() makes later Fires be rejected.
TimedWaitLeavesLoop(t) ==
    /\ pc[t] = "blocked"
    /\ call[t].op \in {"Wait", "TimedWait"}
    /\ fired[t] \/ call[t].op = "TimedWait"
    /\ result' = [result EXCEPT ![t] = IF fired[t] THEN 1 ELSE 0]
    /\ fired' = [fired EXCEPT ![t] = TRUE]
    /\ pc' = [pc EXCEPT ![t] = "dequeue"]
    /\ UNCHANGED <<kernel, signaling_event, call, next, history>>

\* Mutant: Dequeue erases the first waiter of the list.
Dequeue_PopsFront(list, w) == IF Contains(list, w) THEN Tail(list) ELSE list

\* WaitableEventKernel::Dequeue
Dequeue(list, w) == RemoveFirst(list, w)

\* Mutant: a wait that was signaled is in no list and returns without the lock.
TimedWaitDequeues_OnlyIfTimedOut(t) ==
    LET e == call[t].on[1] IN
    /\ pc[t] = "dequeue"
    /\ call[t].op \in {"Wait", "TimedWait"}
    /\ result[t] = 0 => lock[e] = None
    /\ waiters' = [waiters EXCEPT ![e] = IF result[t] = 0 THEN Dequeue(@, t) ELSE @]
    /\ pc' = [pc EXCEPT ![t] = "return"]
    /\ UNCHANGED <<signaled, lock, waiter, call, next, result, history>>

\* The kernel's Dequeue under its lock; then the wait returns.
TimedWaitDequeues(t) ==
    LET e == call[t].on[1] IN
    /\ pc[t] = "dequeue"
    /\ call[t].op \in {"Wait", "TimedWait"}
    /\ lock[e] = None
    /\ waiters' = [waiters EXCEPT ![e] = Dequeue(@, t)]
    /\ pc' = [pc EXCEPT ![t] = "return"]
    /\ UNCHANGED <<signaled, lock, waiter, call, next, result, history>>

------------------------------------------------------------------------------
(* WaitMany                                                                *)

WaitManyBegin(t, raw) ==
    /\ pc[t] = "idle"
    /\ call' = [call EXCEPT ![t] = [op |-> "WaitMany", on |-> raw]]
    /\ pc' = [pc EXCEPT ![t] = "lockall"]
    /\ UNCHANGED <<kernel, waiter, next, result, history>>

\* The events of the call whose lock t does not hold yet.
Unlocked(t) == {e \in ToSet(call[t].on) : lock[e] # t}

\* Mutant: the locks are taken in the caller's order.
NextToLock_CallersOrder(t, e) ==
    LET raw == call[t].on IN
    \E i \in DOMAIN raw :
        /\ e = raw[i]
        /\ e \in Unlocked(t)
        /\ \A j \in DOMAIN raw : raw[j] \in Unlocked(t) => i <= j

\* waitables is sorted by address, so the next lock is the one of the lowest
\* address.
NextToLock(t, e) == e \in Unlocked(t) /\ \A f \in Unlocked(t) : e <= f

EnqueueManyLocks(t) ==
    /\ pc[t] = "lockall"
    /\ \E e \in Events :
        /\ NextToLock(t, e)
        /\ lock[e] = None
        /\ lock' = [lock EXCEPT ![e] = t]
    /\ UNCHANGED <<signaled, waiters, waiter, pc, call, next, result, history>>

ReleaseAll(t) == [e \in Events |-> IF lock[e] = t THEN None ELSE lock[e]]

\* winner: the lowest index, in the caller's order, of a signaled event.
IsWinner(t, i) ==
    /\ i \in DOMAIN call[t].on
    /\ signaled[call[t].on[i]]
    /\ \A j \in DOMAIN call[t].on : signaled[call[t].on[j]] => i <= j

EnqueueManyTakesSignal(t) ==
    /\ pc[t] = "lockall"
    /\ Unlocked(t) = {}
    /\ \E i \in DOMAIN call[t].on :
        LET e == call[t].on[i] IN
        /\ IsWinner(t, i)
        /\ signaled' = [signaled EXCEPT ![e] = e \in ManualReset]
        /\ result' = [result EXCEPT ![t] = i]
        /\ consumed' = [consumed EXCEPT ![t] = {e}]
    /\ lock' = ReleaseAll(t)
    /\ pc' = [pc EXCEPT ![t] = "return"]
    /\ UNCHANGED <<waiters, waiter, call, next, woke>>

\* No event is signaled: enqueue on all of them, then release the locks.
EnqueueManyEnqueues(t) ==
    /\ pc[t] = "lockall"
    /\ Unlocked(t) = {}
    /\ \A e \in ToSet(call[t].on) : ~signaled[e]
    /\ waiters' = [e \in Events |-> IF e \in ToSet(call[t].on)
                                    THEN Append(waiters[e], t)
                                    ELSE waiters[e]]
    /\ lock' = ReleaseAll(t)
    /\ pc' = [pc EXCEPT ![t] = "blocked"]
    /\ UNCHANGED <<signaled, waiter, call, next, result, history>>

WaitManyLeavesLoop(t) ==
    /\ pc[t] = "blocked"
    /\ call[t].op = "WaitMany"
    /\ fired[t]
    /\ pc' = [pc EXCEPT ![t] = "dequeue"]
    /\ result' = [result EXCEPT ![t] = 1]    \* signaled_index = 0 in the code
    /\ UNCHANGED <<kernel, waiter, call, next, history>>

\* Mutant: the loop runs one index too far.
WaitManyDequeues_OneTooFar(t) ==
    LET i == next[t]
        e == call[t].on[i]
    IN
    /\ pc[t] = "dequeue"
    /\ call[t].op = "WaitMany"
    /\ lock[e] = None
    /\ waiters' = [waiters EXCEPT ![e] = Dequeue(@, t)]
    /\ result' = [result EXCEPT ![t] = IF e = signaling_event[t] THEN i ELSE @]
    /\ next' = [next EXCEPT ![t] = i + 1]
    /\ pc' = [pc EXCEPT ![t] = IF i <= Len(call[t].on) THEN @ ELSE "return"]
    /\ UNCHANGED <<signaled, lock, waiter, call, history>>

\* Mutant: the loop ends at the event that fired.
WaitManyDequeues_StopsAtSignaled(t) ==
    LET i == next[t]
        e == call[t].on[i]
    IN
    /\ pc[t] = "dequeue"
    /\ call[t].op = "WaitMany"
    /\ lock[e] = None
    /\ waiters' = [waiters EXCEPT ![e] = Dequeue(@, t)]
    /\ result' = [result EXCEPT ![t] = IF e = signaling_event[t] THEN i ELSE @]
    /\ next' = [next EXCEPT ![t] = i + 1]
    /\ pc' = [pc EXCEPT ![t] = IF e # signaling_event[t] /\ i < Len(call[t].on)
                               THEN @ ELSE "return"]
    /\ UNCHANGED <<signaled, lock, waiter, call, history>>

\* One turn of the last loop, in the caller's order: the lock of the event
\* that fired is taken and released; from any other the waiter is dequeued.
WaitManyDequeues(t) ==
    LET i == next[t]
        e == call[t].on[i]
    IN
    /\ pc[t] = "dequeue"
    /\ call[t].op = "WaitMany"
    /\ lock[e] = None
    /\ IF e = signaling_event[t]
       THEN /\ result' = [result EXCEPT ![t] = i]
            /\ UNCHANGED waiters
       ELSE /\ waiters' = [waiters EXCEPT ![e] = Dequeue(@, t)]
            /\ UNCHANGED result
    /\ next' = [next EXCEPT ![t] = i + 1]
    /\ pc' = [pc EXCEPT ![t] = IF i < Len(call[t].on) THEN @ ELSE "return"]
    /\ UNCHANGED <<signaled, lock, waiter, call, history>>

\* A wait of either kind returns its result and its SyncWaiter, a local
\* variable, is gone.
WaitReturns(t) ==
    /\ pc[t] = "return"
    /\ pc' = [pc EXCEPT ![t] = "idle"]
    /\ call' = [call EXCEPT ![t] = NoCall]
    /\ fired' = [fired EXCEPT ![t] = FALSE]
    /\ signaling_event' = [signaling_event EXCEPT ![t] = None]
    /\ next' = [next EXCEPT ![t] = 1]
    /\ result' = [result EXCEPT ![t] = 0]
    /\ consumed' = [consumed EXCEPT ![t] = {}]
    /\ UNCHANGED <<kernel, woke>>

------------------------------------------------------------------------------
\* What a thread does by calling an operation ...
Calls(t) ==
    \/ \E e \in Events :
        \/ Reset(t, e)
        \/ IsSignaled(t, e)
        \/ SignalBegin(t, e)
        \/ \E op \in {"Wait", "TimedWait"} :
            WaitTakesSignal(t, e, op) \/ WaitEnqueues(t, e, op)
    \/ \E raw \in WaitManyArgs : WaitManyBegin(t, raw)

\* ... and what it does inside one.
Continues(t) ==
    \/ SignalAllFire(t)
    \/ SignalAllEnd(t)
    \/ SignalOneFire(t)
    \/ SignalOneNobody(t)
    \/ SignalOneEnd(t)
    \/ TimedWaitLeavesLoop(t)
    \/ TimedWaitDequeues(t)
    \/ EnqueueManyLocks(t)
    \/ EnqueueManyTakesSignal(t)
    \/ EnqueueManyEnqueues(t)
    \/ WaitManyLeavesLoop(t)
    \/ WaitManyDequeues(t)
    \/ WaitReturns(t)

NewCall == \E t \in Threads : Calls(t)

Next == \E t \in Threads : Calls(t) \/ Continues(t)

\* A thread inside a call is not stopped by the scheduler for ever, and the
\* clock passes the end time of a TimedWait.  Nothing makes a thread call, and
\* no lock is assumed to be granted to a thread while others keep taking it.
Fairness == \A t \in Threads : WF_vars(Continues(t))

Spec == Init /\ [][Next]_vars /\ Fairness

------------------------------------------------------------------------------
(* Properties                                                              *)

PC == {"idle", "signal", "unlock", "lockall", "blocked", "dequeue",
       "return"}

TypeOK ==
    /\ signaled \in [Events -> BOOLEAN]
    /\ waiters \in [Events -> Seq(Threads)]
    /\ lock \in [Events -> Threads \cup {None}]
    /\ fired \in [Threads -> BOOLEAN]
    /\ signaling_event \in [Threads -> Events \cup {None}]
    /\ pc \in [Threads -> PC]
    /\ call \in [Threads -> Call]
    /\ next \in [Threads -> Nat]
    /\ result \in [Threads -> Nat]
    /\ consumed \in [Threads -> SUBSET Events]
    /\ woke \in [Threads -> SUBSET Threads]
    /\ \A t \in Threads :
        /\ pc[t] \in {"signal", "unlock", "blocked", "dequeue"} => call[t].on # <<>>
        /\ pc[t] = "dequeue" => next[t] \in DOMAIN call[t].on

\* A wait that returns used up one signal and returned the index of its
\* event, or it timed out and used up none: no signal is lost to a waiter that
\* gave up (SyncWaiter::Disable), and two events never spend their signals on
\* the same waiter (the fired_ test of SyncWaiter::Fire).
NoLostSignal ==
    \A t \in Threads :
        pc[t] = "return" =>
            \/ /\ result[t] \in DOMAIN call[t].on
               /\ consumed[t] = {call[t].on[result[t]]}
            \/ /\ call[t].op = "TimedWait"
               /\ result[t] = 0
               /\ consumed[t] = {}

\* An event in the signaled state has no waiter that still waits to be fired:
\* Signal sets signaled_ only once every waiter was offered the wake, and
\* TimedWaitUntil and EnqueueMany enqueue only after looking at signaled_.
NoSleeperOnSignaled ==
    \A e \in Events :
        signaled[e] => \A t \in ToSet(waiters[e]) : fired[t]

\* A waiter that has not fired is in the list of each event it waits for, so
\* that any of them can still wake it.
SleeperIsQueued ==
    \A t \in Threads :
        pc[t] = "blocked" /\ ~fired[t] =>
            \A e \in ToSet(call[t].on) : t \in ToSet(waiters[e])

\* No wakeup is missed, whatever Signals race for a WaitMany and whoever times
\* out: nobody sleeps on a signaled event, and every Signal to come finds him.
NoMissedWakeup == NoSleeperOnSignaled /\ SleeperIsQueued

\* The lists hold no pointer to a SyncWaiter whose stack frame is gone: a
\* queued waiter's thread is inside the wait that queued it on that event.
NoDanglingWaiter ==
    \A e \in Events : \A t \in ToSet(waiters[e]) :
        /\ pc[t] \in {"blocked", "dequeue"}
        /\ e \in ToSet(call[t].on)

\* "Wait's return happens after Signal has completed": while a Signal is still
\* at work on an event, none of the waiters it woke has returned, so the
\* thread that returns may delete the event.
SignalOutlivesNoWait ==
    \A s \in Threads :
        pc[s] \in {"signal", "unlock"} =>
            \A t \in woke[s] : pc[t] \in {"blocked", "dequeue"}

\* t needs, for its next step inside a call, a lock that u holds.
WaitsForLock(t, u) ==
    \/ /\ pc[t] = "lockall"
       /\ \E e \in Events : NextToLock(t, e) /\ lock[e] = u
    \/ /\ pc[t] = "dequeue"
       /\ lock[call[t].on[next[t]]] = u

\* The threads never wait for each other's event locks in a circle: WaitMany
\* takes its locks in the order of the addresses.
NoLockCycle ==
    \A S \in SUBSET Threads :
        S # {} => \E t \in S : \A u \in S : ~WaitsForLock(t, u)

\* When the threads stop making calls, every one of them gets out of its call,
\* unless it waits without a timeout, was not woken, and none of its events is
\* signaled: no thread hangs on a lock, misses its wake or outsleeps its timeout.
CallsReturn ==
    \/ <>[](\A t \in Threads :
              \/ pc[t] = "idle"
              \/ /\ pc[t] = "blocked"
                 /\ call[t].op # "TimedWait"
                 /\ ~fired[t]
                 /\ \A e \in ToSet(call[t].on) : ~signaled[e])
    \/ []<><<NewCall>>_vars
==============================================================================
