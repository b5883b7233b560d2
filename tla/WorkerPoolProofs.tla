--------------------------- MODULE WorkerPoolProofs ---------------------------
(***************************************************************************)
(* What TLAPS proves of SchedulerWorkerPoolImpl for every number of        *)
(* workers, every set of sequences and every workload.                     *)
(*                                                                         *)
(* IdleStackExact, NoWorkerLost and CountsExact are not inductive: that the*)
(* stack's proxy stays exact depends on no worker with a sequence being on *)
(* the stack, the counters on what a blocking scope has left in the        *)
(* delegate's fields at each place of RunWorker, and the background count  *)
(* on the transaction's worker still seeing the queue it looked at.        *)
(* PoolInv states all of these; PollsOnceStarted is kept apart, as it needs*)
(* PoolInv in the next state.                                              *)
(***************************************************************************)
EXTENDS WorkerPool, DataFacts, TLAPS

------------------------------------------------------------------------------
(* The inductive invariant                                                   *)

\* Where a worker has a sequence.
Running == {"run", "will_block", "adjust", "re_enqueue"}

\* Where the priority queue's transaction is alive.
Looking == {"become_idle", "background"}

\* The delegate's fields agree: a blocking scope has raised max_tasks_, is
\* pending, or is about to raise it, and never two of these.
Scoped(r) ==
    /\ r.scope \in {"none", "over"} => ~r.incremented /\ r.may_block = "null"
    /\ r.scope = "may" => (r.incremented <=> r.may_block = "null")
    /\ r.scope = "will" => r.may_block = "null" /\ (r.incremented <=> r.pc # "will_block")
    /\ r.pc = "will_block" => r.scope = "will"
    /\ r.pc = "adjust" => r.scope \in {"may", "will"}

\* A worker's fields fit its place in RunWorker.
Shaped(r) ==
    /\ r.seq # None <=> r.pc \in Running
    /\ r.pc \notin {"run", "will_block", "adjust"} => r.scope = "none" /\ ~r.background
    /\ Scoped(r)

Delegates == \A w \in Ids : Shaped(worker[w])

\* The transaction belongs to the worker that looks at the queue, and while it
\* is alive the queue holds what that worker saw.
Transactions ==
    /\ \A w \in Ids : worker[w].pc \in Looking <=> transaction = w
    /\ \A w \in Ids : worker[w].pc = "background" => queue \subseteq Background

\* A sequence that is about to be posted, queued or run is so once.
SequencesApart ==
    /\ \A w, v \in Ids : worker[w].seq # None /\ worker[w].seq = worker[v].seq => w = v
    /\ \A w \in Ids : worker[w].seq # None =>
          worker[w].seq \notin queue /\ poster[worker[w].seq] # "post"
    /\ \A s \in queue : poster[s] # "post"

\* It has tasks, until its worker has run the last of them.
TasksLeft ==
    /\ \A s \in queue : left[s] > 0
    /\ \A s \in Seqs : poster[s] = "post" => left[s] > 0
    /\ \A w \in Ids : worker[w].pc \in {"run", "will_block", "adjust"} =>
          left[worker[w].seq] > 0

\* The variables of the pool, and what holds of them and of the workers wk: the
\* stack and its proxy agree, no sleeping worker is lost, and a worker that does
\* not exist is fresh.
PoolRecord == [workers : SUBSET Ids, idle : Seq(Ids), unused : SUBSET Ids,
               event : SUBSET Ids, failures : Nat]

OnStack(p, w) == \E i \in 1 .. Len(p.idle) : p.idle[i] = w

GoodPool(p, wk) ==
    /\ p \in PoolRecord
    /\ p.failures <= workload.max_failures
    /\ p.unused = {p.idle[i] : i \in 1 .. Len(p.idle) - 1}
    /\ \A i, j \in 1 .. Len(p.idle) : p.idle[i] = p.idle[j] => i = j
    /\ \A w \in Ids : OnStack(p, w) => w \in p.workers /\ wk[w].pc \in {"wait", "get_work"}
    /\ \A w \in p.workers : wk[w].pc = "wait" => w \in p.event \/ OnStack(p, w)
    /\ \A w \in Ids \ p.workers : wk[w] = FreshWorker

PoolIsGood == GoodPool(Pool, worker)

\* The workers that the counters count; those that do not exist do not count.
Incremented == {w \in Ids : worker[w].incremented}
InBackground == {w \in Ids : worker[w].background}
Pending == {w \in Ids : worker[w].may_block # "null"}

\* max_tasks_ and max_background_tasks_ are set by Start, which creates the
\* first worker; from then on there is always one.
MaxCounted ==
    IF workers = {}
    THEN max_tasks = 0 /\ max_background = 0
    ELSE /\ max_tasks = workload.max_tasks + Cardinality(Incremented)
         /\ max_background = workload.max_background
              + Cardinality(Incremented \cap InBackground)

TasksCounted ==
    /\ num_background = Cardinality(InBackground)
    /\ num_pending = Cardinality(Pending)
    /\ num_pending_background = Cardinality(Pending \cap InBackground)

\* The variables that no other conjunct types.
Typed ==
    /\ queue \subseteq Seqs
    /\ transaction \in Ids \cup {None}
    /\ num_wake_ups \in Nat
    /\ polling \in BOOLEAN
    /\ service \in {"idle", "check"}
    /\ worker \in [Ids -> Worker]
    /\ poster \in [Seqs -> {"post", "wake", "adjust", "done"}]
    /\ workload \in Workloads
    /\ left \in [Seqs -> Nat]

Work == Transactions /\ SequencesApart /\ TasksLeft

PoolInv ==
    /\ Typed
    /\ Delegates
    /\ Work
    /\ PoolIsGood
    /\ MaxCounted
    /\ TasksCounted

\* The service thread adjusts max_tasks_ only once the pool has started.
PollsOnceStarted == polling => workers # {}

IndInv == PoolInv /\ PollsOnceStarted

------------------------------------------------------------------------------
(* How a worker's record changes                                             *)

Pcs == {"wait", "get_work", "begin", "become_idle", "background", "run",
        "will_block", "adjust", "re_enqueue", "reset"}

\* A worker's record has its fields.
LEMMA WorkerFields ==
    \A r \in Worker :
        /\ r.pc \in Pcs /\ r.seq \in Seqs \cup {None}
        /\ r.scope \in {"none", "may", "will", "over"}
        /\ r.may_block \in {"null", "recent", "old"}
        /\ r.incremented \in BOOLEAN /\ r.background \in BOOLEAN
  BY DEF Worker, Pcs

\* A fresh worker is asleep, with nothing to do and nothing counted.
LEMMA FreshFields ==
    /\ FreshWorker \in Worker
    /\ FreshWorker.pc = "wait" /\ FreshWorker.seq = None /\ FreshWorker.scope = "none"
    /\ FreshWorker.may_block = "null"
    /\ FreshWorker.incremented = FALSE /\ FreshWorker.background = FALSE
  BY DEF FreshWorker, Worker

\* What is left of the workers when one of them changes.
LEMMA Moved ==
    ASSUME worker \in [Ids -> Worker], NEW w \in Ids, NEW r \in Worker,
           worker' = [worker EXCEPT ![w] = r]
    PROVE  /\ worker' \in [Ids -> Worker]
           /\ worker'[w] = r
           /\ \A v \in Ids \ {w} : worker'[v] = worker[v]
  OBVIOUS

\* Goto changes one worker's pc and nothing else.
LEMMA GotoMoves ==
    ASSUME worker \in [Ids -> Worker], NEW w \in Ids, NEW pc \in Pcs, Goto(w, pc)
    PROVE  \E r \in Worker :
             /\ worker' = [worker EXCEPT ![w] = r]
             /\ r.pc = pc /\ r.seq = worker[w].seq /\ r.scope = worker[w].scope
             /\ r.may_block = worker[w].may_block
             /\ r.incremented = worker[w].incremented
             /\ r.background = worker[w].background
  <1> DEFINE r == [worker[w] EXCEPT !.pc = pc]
  <1>1. worker[w] \in Worker
    OBVIOUS
  <1>2. /\ r \in Worker
        /\ r.pc = pc /\ r.seq = worker[w].seq /\ r.scope = worker[w].scope
        /\ r.may_block = worker[w].may_block
        /\ r.incremented = worker[w].incremented
        /\ r.background = worker[w].background
    BY <1>1 DEF Worker, Pcs
  <1>3. worker' = [worker EXCEPT ![w] = r]
    BY DEF Goto
  <1> HIDE DEF r
  <1> QED BY <1>2, <1>3

\* So do the steps that change several fields of one worker.
LEMMA RunMoves ==
    ASSUME worker \in [Ids -> Worker], NEW w \in Ids, NEW s \in Seqs, Runs(w, s)
    PROVE  \E r \in Worker :
             /\ worker' = [worker EXCEPT ![w] = r]
             /\ r.pc = "run" /\ r.seq = s /\ r.scope = worker[w].scope
             /\ r.may_block = worker[w].may_block
             /\ r.incremented = worker[w].incremented
             /\ r.background = (s \in Background)
  <1> DEFINE b == s \in Background
  <1>0. b \in BOOLEAN
    OBVIOUS
  <1> HIDE DEF b
  <1> DEFINE r == [worker[w] EXCEPT !.pc = "run", !.seq = s, !.background = b]
  <1>1. worker[w] \in Worker
    OBVIOUS
  <1>2. /\ r \in Worker
        /\ r.pc = "run" /\ r.seq = s /\ r.scope = worker[w].scope
        /\ r.may_block = worker[w].may_block
        /\ r.incremented = worker[w].incremented
        /\ r.background = b
    BY <1>0, <1>1 DEF Worker
  <1>3. worker' = [worker EXCEPT ![w] = r]
    BY DEF Runs, b
  <1> HIDE DEF r
  <1> QED BY <1>2, <1>3, Zenon DEF b

\* After DidRunTask the worker's task counts as background no more.
LEMMA DidRunMoves ==
    ASSUME worker \in [Ids -> Worker], NEW w \in Ids, DidRunTask(w)
    PROVE  \E r \in Worker :
             /\ worker' = [worker EXCEPT ![w] = r]
             /\ r.pc = "re_enqueue" /\ r.seq = worker[w].seq /\ r.scope = "none"
             /\ r.may_block = worker[w].may_block
             /\ r.incremented = worker[w].incremented
             /\ r.background = FALSE
  <1> DEFINE r == [worker[w] EXCEPT !.pc = "re_enqueue", !.scope = "none", !.background = FALSE]
  <1>1. worker[w] \in Worker
    OBVIOUS
  <1>2. /\ r \in Worker
        /\ r.pc = "re_enqueue" /\ r.seq = worker[w].seq /\ r.scope = "none"
        /\ r.may_block = worker[w].may_block
        /\ r.incremented = worker[w].incremented
        /\ r.background = FALSE
    BY <1>1 DEF Worker
  <1>3. worker' = [worker EXCEPT ![w] = r]
    BY DEF DidRunTask
  <1> HIDE DEF r
  <1> QED BY <1>2, <1>3

\* After the re-enqueuing it has no sequence.
LEMMA ReEnqueueMoves ==
    ASSUME worker \in [Ids -> Worker], NEW w \in Ids, ReEnqueueSequence(w)
    PROVE  \E r \in Worker :
             /\ worker' = [worker EXCEPT ![w] = r]
             /\ r.pc = "reset" /\ r.seq = None /\ r.scope = worker[w].scope
             /\ r.may_block = worker[w].may_block
             /\ r.incremented = worker[w].incremented
             /\ r.background = worker[w].background
  <1> DEFINE r == [worker[w] EXCEPT !.pc = "reset", !.seq = None]
  <1>1. worker[w] \in Worker
    OBVIOUS
  <1>2. /\ r \in Worker
        /\ r.pc = "reset" /\ r.seq = None /\ r.scope = worker[w].scope
        /\ r.may_block = worker[w].may_block
        /\ r.incremented = worker[w].incremented
        /\ r.background = worker[w].background
    BY <1>1 DEF Worker
  <1>3. worker' = [worker EXCEPT ![w] = r]
    BY DEF ReEnqueueSequence
  <1> HIDE DEF r
  <1> QED BY <1>2, <1>3

\* A task that enters or leaves a blocking scope keeps its sequence.
Blocks(w, pc, scope, may_block, incremented) ==
    \E r \in Worker :
        /\ worker' = [worker EXCEPT ![w] = r]
        /\ r.pc = pc /\ r.seq = worker[w].seq /\ r.scope = scope
        /\ r.may_block = may_block /\ r.incremented = incremented
        /\ r.background = worker[w].background

\* Each step of a blocking scope is of this kind.
LEMMA BlockMoves ==
    ASSUME worker \in [Ids -> Worker], NEW w \in Ids
    PROVE  /\ MayBlockEntered(w) => Blocks(w, "adjust", "may", "recent", worker[w].incremented)
           /\ Upgrade(w) => Blocks(w, "will_block", "will", "null", worker[w].incremented)
           /\ BlockingTypeUpgraded(w) /\ worker[w].incremented =>
                Blocks(w, worker[w].pc, "will", worker[w].may_block, worker[w].incremented)
           /\ WillBlockEntered(w) =>
                \E pc \in {"run", "adjust"} : Blocks(w, pc, "will", worker[w].may_block, TRUE)
           /\ BlockingEnded(w) => Blocks(w, worker[w].pc, "over", "null", FALSE)
  <1>0. worker[w] \in Worker
    OBVIOUS
  <1>1. ASSUME NEW pc \in Pcs, NEW sc \in {"none", "may", "will", "over"},
               NEW m \in {"null", "recent", "old"}, NEW inc \in BOOLEAN,
               worker' = [worker EXCEPT ![w] = [worker[w] EXCEPT !.pc = pc, !.scope = sc,
                                                  !.may_block = m, !.incremented = inc]]
        PROVE  Blocks(w, pc, sc, m, inc)
    <2> DEFINE r == [worker[w] EXCEPT !.pc = pc, !.scope = sc,
                                      !.may_block = m, !.incremented = inc]
    <2>1. /\ r \in Worker
          /\ r.pc = pc /\ r.seq = worker[w].seq /\ r.scope = sc
          /\ r.may_block = m /\ r.incremented = inc
          /\ r.background = worker[w].background
      BY <1>0, ZenonT(60) DEF Worker, Pcs
    <2>2. worker' = [worker EXCEPT ![w] = r]
      BY <1>1
    <2> HIDE DEF r
    <2> QED BY <2>1, <2>2 DEF Blocks
  <1>2. ASSUME MayBlockEntered(w)
        PROVE  Blocks(w, "adjust", "may", "recent", worker[w].incremented)
    <2>1. worker' = [worker EXCEPT ![w] = [worker[w] EXCEPT !.pc = "adjust", !.scope = "may",
                                    !.may_block = "recent", !.incremented = worker[w].incremented]]
      BY <1>0, <1>2 DEF MayBlockEntered, Worker
    <2> QED BY <1>0, <1>1, <2>1, WorkerFields DEF Pcs
  <1>3. ASSUME Upgrade(w)
        PROVE  Blocks(w, "will_block", "will", "null", worker[w].incremented)
    <2>1. worker' = [worker EXCEPT ![w] = [worker[w] EXCEPT !.pc = "will_block", !.scope = "will",
                                    !.may_block = "null", !.incremented = worker[w].incremented]]
      BY <1>0, <1>3 DEF Upgrade, Worker
    <2> QED BY <1>0, <1>1, <2>1, WorkerFields DEF Pcs
  <1>4. ASSUME BlockingTypeUpgraded(w), worker[w].incremented
        PROVE  Blocks(w, worker[w].pc, "will", worker[w].may_block, worker[w].incremented)
    <2>1. worker' = [worker EXCEPT ![w] = [worker[w] EXCEPT !.pc = worker[w].pc, !.scope = "will",
                         !.may_block = worker[w].may_block, !.incremented = worker[w].incremented]]
      BY <1>0, <1>4 DEF BlockingTypeUpgraded, Worker
    <2>2. worker[w].pc \in Pcs /\ worker[w].may_block \in {"null", "recent", "old"}
          /\ worker[w].incremented \in BOOLEAN
      BY <1>0, WorkerFields
    <2> QED BY <1>1, <2>1, <2>2
  <1>5. ASSUME WillBlockEntered(w)
        PROVE  \E pc \in {"run", "adjust"} : Blocks(w, pc, "will", worker[w].may_block, TRUE)
    <2>1. PICK pc \in {"run", "adjust"} :
            worker' = [worker EXCEPT ![w].scope = "will", ![w].incremented = TRUE, ![w].pc = pc]
      BY <1>5 DEF WillBlockEntered
    <2>2. worker' = [worker EXCEPT ![w] = [worker[w] EXCEPT !.pc = pc, !.scope = "will",
                         !.may_block = worker[w].may_block, !.incremented = TRUE]]
      BY <1>0, <2>1 DEF Worker
    <2> QED BY <1>0, <1>1, <2>2, WorkerFields DEF Pcs
  <1>6. ASSUME BlockingEnded(w)
        PROVE  Blocks(w, worker[w].pc, "over", "null", FALSE)
    <2>1. worker' = [worker EXCEPT ![w] = [worker[w] EXCEPT !.pc = worker[w].pc, !.scope = "over",
                         !.may_block = "null", !.incremented = FALSE]]
      BY <1>0, <1>6 DEF BlockingEnded, Worker
    <2>2. worker[w].pc \in Pcs /\ worker[w].may_block \in {"null", "recent", "old"}
          /\ worker[w].incremented \in BOOLEAN
      BY <1>0, WorkerFields
    <2> QED BY <1>1, <2>1, <2>2
  <1> QED BY <1>2, <1>3, <1>4, <1>5, <1>6

------------------------------------------------------------------------------
(* What the critical sections of lock_ do to a good pool                     *)

\* The fields of a record of the pool.
LEMMA PoolFields ==
    ASSUME NEW p \in PoolRecord
    PROVE  /\ p.workers \subseteq Ids /\ p.idle \in Seq(Ids) /\ p.unused \subseteq Ids
           /\ p.event \subseteq Ids /\ p.failures \in Nat
           /\ Len(p.idle) \in Nat
           /\ \A i \in 1 .. Len(p.idle) : p.idle[i] \in Ids
  BY DEF PoolRecord

\* A pool stays good when workers move, if none of those that sleep or may sleep
\* is taken for another.
LEMMA GoodFrame ==
    ASSUME NEW p, NEW wk, GoodPool(p, wk), NEW wk2,
           \A v \in Ids \ p.workers : wk2[v] = wk[v],
           \A v \in p.workers : wk2[v].pc = "wait" => wk[v].pc = "wait" \/ OnStack(p, v),
           \A v \in Ids : OnStack(p, v) => wk2[v].pc \in {"wait", "get_work"}
    PROVE  GoodPool(p, wk2)
  <1>1. p.workers \subseteq Ids
    BY PoolFields DEF GoodPool
  <1> QED BY <1>1 DEF GoodPool

\* The variables become a good pool.
LEMMA GoodBecomes ==
    ASSUME NEW p, GoodPool(p, worker'), PoolBecomes(p), workload' = workload
    PROVE  PoolIsGood'
  <1>1. p \in PoolRecord
    BY DEF GoodPool
  <1>2. p = [workers |-> p.workers, idle |-> p.idle, unused |-> p.unused,
             event |-> p.event, failures |-> p.failures]
    BY <1>1 DEF PoolRecord
  <1>3. Pool' = p
    BY <1>2 DEF Pool, PoolBecomes
  <1>4. GoodPool(Pool', worker')
    BY <1>3
  <1> QED BY <1>4 DEF PoolIsGood, GoodPool

\* The variables make up a record, and their being good is about its fields.
LEMMA PoolVariables ==
    ASSUME PoolIsGood
    PROVE  /\ Pool \in PoolRecord /\ GoodPool(Pool, worker)
           /\ Pool.workers = workers /\ Pool.idle = idle /\ Pool.unused = unused
           /\ Pool.event = event /\ Pool.failures = failures
           /\ workers \subseteq Ids /\ idle \in Seq(Ids) /\ unused \subseteq Ids
           /\ event \subseteq Ids /\ failures \in Nat /\ failures <= workload.max_failures
  <1>1. /\ Pool.workers = workers /\ Pool.idle = idle /\ Pool.unused = unused
        /\ Pool.event = event /\ Pool.failures = failures
    BY DEF Pool
  <1>2. Pool \in PoolRecord /\ GoodPool(Pool, worker) /\ Pool.failures <= workload.max_failures
    BY DEF PoolIsGood, GoodPool
  <1> QED BY <1>1, <1>2, PoolFields

\* SchedulerWorkerStack::Push of a worker, new or not, that is not on the stack
\* and goes to sleep.
LEMMA PushGood ==
    ASSUME NEW p, NEW wk, GoodPool(p, wk), NEW w \in Ids, ~OnStack(p, w),
           NEW wk2, \A v \in Ids \ {w} : wk2[v] = wk[v],
           wk2[w].pc \in {"wait", "get_work"}
    PROVE  /\ GoodPool(StackPush([p EXCEPT !.workers = @ \cup {w}], w), wk2)
           /\ StackPush([p EXCEPT !.workers = @ \cup {w}], w).workers = p.workers \cup {w}
  <1> DEFINE q == StackPush([p EXCEPT !.workers = @ \cup {w}], w)
             u == IF p.idle = <<>> THEN p.unused ELSE p.unused \cup {Last(p.idle)}
             n == Len(p.idle)
  <1>1. /\ p \in PoolRecord
        /\ p.workers \subseteq Ids /\ p.idle \in Seq(Ids) /\ p.unused \subseteq Ids
        /\ p.event \subseteq Ids /\ p.failures \in Nat /\ n \in Nat
        /\ \A i \in 1 .. n : p.idle[i] \in Ids
    BY PoolFields DEF GoodPool
  <1>2. /\ Append(p.idle, w) \in Seq(Ids) /\ Len(Append(p.idle, w)) = n + 1
        /\ Append(p.idle, w)[n + 1] = w
        /\ \A i \in 1 .. n : Append(p.idle, w)[i] = p.idle[i]
    BY <1>1
  <1>3. u = {p.idle[i] : i \in 1 .. n} /\ u \subseteq Ids
    <2>1. CASE p.idle = <<>>
      BY <1>1, <2>1 DEF GoodPool
    <2>2. CASE p.idle # <<>>
      <3>1. n > 0 /\ Last(p.idle) = p.idle[n] /\ u = p.unused \cup {p.idle[n]}
        BY <1>1, <2>2 DEF Last
      <3>2. p.unused = {p.idle[i] : i \in 1 .. n - 1}
        BY DEF GoodPool
      <3>3. 1 .. n = (1 .. n - 1) \cup {n}
        BY <1>1, <3>1
      <3> HIDE DEF u
      <3> QED BY <1>1, <3>1, <3>2, <3>3
    <2> QED BY <2>1, <2>2
  <1>4. /\ q \in PoolRecord
        /\ q.workers = p.workers \cup {w} /\ q.idle = Append(p.idle, w)
        /\ q.unused = u /\ q.event = p.event /\ q.failures = p.failures
    BY <1>1, <1>2, <1>3 DEF PoolRecord, StackPush
  <1> HIDE DEF q, u
  <1>5. \A v \in Ids : OnStack(q, v) <=> OnStack(p, v) \/ v = w
    <2> HIDE DEF n
    <2>1. Len(q.idle) = n + 1
      BY <1>2, <1>4
    <2>2. \A i \in 1 .. n + 1 : i \in 1 .. n \/ i = n + 1
      BY <1>1
    <2>3. 1 .. n \subseteq 1 .. n + 1 /\ n + 1 \in 1 .. n + 1
      BY <1>1
    <2> QED BY <1>2, <1>4, <2>1, <2>2, <2>3 DEF OnStack, n
  <1>6. q.unused = {q.idle[i] : i \in 1 .. Len(q.idle) - 1}
    <2>1. Len(q.idle) - 1 = n
      BY <1>1, <1>2, <1>4
    <2> QED BY <1>2, <1>3, <1>4, <2>1
  <1>7. \A i, j \in 1 .. Len(q.idle) : q.idle[i] = q.idle[j] => i = j
    <2>1. \A i, j \in 1 .. n : p.idle[i] = p.idle[j] => i = j
      BY DEF GoodPool
    <2>2. \A i \in 1 .. n : p.idle[i] # w
      BY DEF OnStack
    <2> QED BY <1>1, <1>2, <1>4, <2>1, <2>2
  <1>8. q.failures <= workload.max_failures
    BY <1>4 DEF GoodPool
  <1>9. \A v \in Ids : OnStack(q, v) => v \in q.workers /\ wk2[v].pc \in {"wait", "get_work"}
    BY <1>4, <1>5 DEF GoodPool
  <1>10. \A v \in q.workers : wk2[v].pc = "wait" => v \in q.event \/ OnStack(q, v)
    BY <1>1, <1>4, <1>5 DEF GoodPool
  <1>11. \A v \in Ids \ q.workers : wk2[v] = FreshWorker
    BY <1>4 DEF GoodPool
  <1>12. GoodPool(q, wk2)
    BY <1>4, <1>6, <1>7, <1>8, <1>9, <1>10, <1>11 DEF GoodPool
  <1> QED BY <1>4, <1>12 DEF q

\* The worker on top of the stack is woken up.
LEMMA WakeTopGood ==
    ASSUME NEW p, NEW wk, GoodPool(p, wk), p.idle # <<>>
    PROVE  GoodPool(WakeTop(p), wk) /\ WakeTop(p).workers = p.workers
  <1> DEFINE q == WakeTop(p)
             n == Len(p.idle)
             rest == Front(p.idle)
             u == IF rest = <<>> THEN p.unused ELSE p.unused \ {Last(rest)}
  <1>1. /\ p \in PoolRecord
        /\ p.workers \subseteq Ids /\ p.idle \in Seq(Ids) /\ p.unused \subseteq Ids
        /\ p.event \subseteq Ids /\ p.failures \in Nat /\ n \in Nat
        /\ \A i \in 1 .. n : p.idle[i] \in Ids
    BY PoolFields DEF GoodPool
  <1>2. n > 0 /\ Last(p.idle) = p.idle[n] /\ p.idle[n] \in Ids
    BY <1>1 DEF Last
  <1>3. /\ rest \in Seq(Ids) /\ Len(rest) = n - 1
        /\ \A i \in 1 .. n - 1 : rest[i] = p.idle[i]
    BY <1>1, <1>2 DEF Front
  <1>g. /\ p.unused = {p.idle[i] : i \in 1 .. n - 1}
        /\ \A i, j \in 1 .. n : p.idle[i] = p.idle[j] => i = j
    BY DEF GoodPool
  <1>4. u = {rest[i] : i \in 1 .. Len(rest) - 1} /\ u \subseteq Ids
    <2>1. CASE rest = <<>>
      <3>1. n = 1 /\ u = p.unused
        BY <1>1, <1>2, <1>3, <2>1
      <3> QED BY <1>1, <1>3, <1>g, <3>1
    <2>2. CASE rest # <<>>
      <3>1. /\ n > 1 /\ u = p.unused \ {p.idle[n - 1]}
            /\ n - 1 \in 1 .. n - 1
        <4>1. u = p.unused \ {Last(rest)}
          BY <2>2
        <4> HIDE DEF rest, u, n
        <4>2. Len(rest) # 0
          BY <1>3, <2>2
        <4>3. n > 1
          BY <1>1, <1>2, <1>3, <4>2
        <4>4. Last(rest) = p.idle[n - 1]
          BY <1>1, <1>3, <4>3 DEF Last
        <4> QED BY <1>1, <4>1, <4>3, <4>4
      <3> HIDE DEF u
      <3>2. \A v : v \in u <=> \E i \in 1 .. n - 2 : v = p.idle[i]
        BY <1>1, <1>g, <3>1
      <3>3. \A i \in 1 .. n - 2 : rest[i] = p.idle[i]
        BY <1>1, <1>3
      <3>4. Len(rest) - 1 = n - 2
        BY <1>1, <1>3
      <3> HIDE DEF rest
      <3>5. u = {rest[i] : i \in 1 .. Len(rest) - 1}
        BY <3>2, <3>3, <3>4
      <3> QED BY <1>1, <3>1, <3>5
    <2> QED BY <2>1, <2>2
  <1>5. /\ q \in PoolRecord
        /\ q.workers = p.workers /\ q.idle = rest /\ q.unused = u
        /\ q.event = p.event \cup {p.idle[n]} /\ q.failures = p.failures
    <2> HIDE DEF rest, u
    <2>1. StackPop(p) = [p EXCEPT !.idle = rest, !.unused = u]
      BY <1>1 DEF StackPop, rest, u, PoolRecord
    <2>2. q = [p EXCEPT !.idle = rest, !.unused = u, !.event = @ \cup {p.idle[n]}]
      BY <1>1, <1>2, <2>1 DEF PoolRecord, WakeTop
    <2>3. rest \in Seq(Ids) /\ u \subseteq Ids /\ p.event \cup {p.idle[n]} \subseteq Ids
      BY <1>1, <1>2, <1>3, <1>4
    <2> HIDE DEF q, n
    <2> QED BY <1>1, <2>2, <2>3 DEF PoolRecord
  <1> HIDE DEF q, u, rest
  <1>6. \A v \in Ids : OnStack(p, v) <=> OnStack(q, v) \/ v = p.idle[n]
    <2>1. \A i \in 1 .. n : i \in 1 .. n - 1 \/ i = n
      BY <1>1
    <2>2. 1 .. n - 1 \subseteq 1 .. n /\ n \in 1 .. n
      BY <1>1, <1>2
    <2>3. Len(q.idle) = n - 1 /\ \A i \in 1 .. n - 1 : q.idle[i] = p.idle[i]
      BY <1>3, <1>5
    <2> QED BY <2>1, <2>2, <2>3 DEF OnStack
  <1>7. \A i, j \in 1 .. Len(q.idle) : q.idle[i] = q.idle[j] => i = j
    <2>1. 1 .. n - 1 \subseteq 1 .. n
      BY <1>1
    <2> QED BY <1>3, <1>5, <1>g, <2>1
  <1>8. q.failures <= workload.max_failures
    BY <1>5 DEF GoodPool
  <1>9. \A v \in Ids : OnStack(q, v) => v \in q.workers /\ wk[v].pc \in {"wait", "get_work"}
    BY <1>5, <1>6 DEF GoodPool
  <1>10. \A v \in q.workers : wk[v].pc = "wait" => v \in q.event \/ OnStack(q, v)
    BY <1>1, <1>5, <1>6 DEF GoodPool
  <1>11. \A v \in Ids \ q.workers : wk[v] = FreshWorker
    BY <1>5 DEF GoodPool
  <1>12. GoodPool(q, wk)
    BY <1>4, <1>5, <1>7, <1>8, <1>9, <1>10, <1>11 DEF GoodPool
  <1> QED BY <1>5, <1>12 DEF q

------------------------------------------------------------------------------
(* What a step leaves as it was                                              *)

\* Where the sequence of a worker still has the task that it runs.
Tasked == {"run", "will_block", "adjust"}

\* The sequences stay in their places while no worker takes one or gives it up.
LEMMA SeqsFrame ==
    ASSUME Work, queue' = queue, left' = left,
           \A s \in Seqs : poster'[s] = "post" => poster[s] = "post",
           queue \subseteq Seqs,
           \A w \in Ids : worker[w].seq \in Seqs \cup {None},
           \A w \in Ids : worker'[w].seq = worker[w].seq,
           \A w \in Ids : worker'[w].pc \in Tasked => worker[w].pc \in Tasked
    PROVE  SequencesApart' /\ TasksLeft'
  <1>1. SequencesApart'
    BY DEF Work, SequencesApart
  <1>2. TasksLeft'
    BY DEF Work, TasksLeft, Tasked
  <1> QED BY <1>1, <1>2

\* The transaction goes on, or there is none.
LEMMA TransactionFrame ==
    ASSUME Work, queue' = queue, transaction' = transaction,
           \A w \in Ids : worker'[w].pc \in Looking <=> worker[w].pc \in Looking,
           \A w \in Ids : worker'[w].pc = "background" => worker[w].pc = "background"
    PROVE  Transactions'
  BY DEF Work, Transactions

\* max_tasks_ is as exact as it was.
LEMMA MaxFrame ==
    ASSUME MaxCounted, max_tasks' = max_tasks, max_background' = max_background,
           workload' = workload, workers' = {} <=> workers = {},
           \A w \in Ids : worker'[w].incremented = worker[w].incremented,
           \A w \in Ids : worker'[w].background = worker[w].background
              \/ ~worker[w].incremented
    PROVE  MaxCounted'
  <1>1. Incremented' = Incremented
    BY DEF Incremented
  <1>2. (Incremented \cap InBackground)' = Incremented \cap InBackground
    BY DEF Incremented, InBackground
  <1> QED BY <1>1, <1>2 DEF MaxCounted

\* So are the counts of tasks.
LEMMA TasksFrame ==
    ASSUME TasksCounted, num_background' = num_background, num_pending' = num_pending,
           num_pending_background' = num_pending_background,
           \A w \in Ids : worker'[w].background = worker[w].background,
           \A w \in Ids : worker'[w].may_block = worker[w].may_block
    PROVE  TasksCounted'
  <1>1. InBackground' = InBackground
    BY DEF InBackground
  <1>2. Pending' = Pending
    BY DEF Pending
  <1> QED BY <1>1, <1>2 DEF TasksCounted

\* The workers are numbered, so all sets of them are finite.
LEMMA FiniteIds ==
    ASSUME NEW S, S \subseteq Ids
    PROVE  /\ IsFiniteSet(S) /\ Cardinality(S) \in Nat
           /\ Cardinality(S) <= kMaxNumberOfWorkers
           /\ Cardinality(S) = kMaxNumberOfWorkers => S = Ids
  <1>1. IsFiniteSet(Ids) /\ Cardinality(Ids) = kMaxNumberOfWorkers
    BY PoolAssumption, FS_Interval DEF Ids
  <1>2. IsFiniteSet(S) /\ Cardinality(S) <= Cardinality(Ids)
        /\ (Cardinality(S) = Cardinality(Ids) => S = Ids)
    BY <1>1, FS_Subset, Zenon
  <1>3. Cardinality(S) \in Nat
    BY <1>2, FS_CardinalityType
  <1> QED BY <1>1, <1>2, <1>3

\* In particular those that are counted.
LEMMA FiniteCounts ==
    /\ IsFiniteSet(Incremented) /\ IsFiniteSet(InBackground) /\ IsFiniteSet(Pending)
    /\ IsFiniteSet(Incremented \cap InBackground)
    /\ IsFiniteSet(Pending \cap InBackground)
    /\ Cardinality(Incremented) \in Nat /\ Cardinality(InBackground) \in Nat
    /\ Cardinality(Pending) \in Nat
    /\ Cardinality(Incremented \cap InBackground) \in Nat
    /\ Cardinality(Pending \cap InBackground) \in Nat
  <1>1. /\ Incremented \subseteq Ids /\ InBackground \subseteq Ids /\ Pending \subseteq Ids
        /\ Incremented \cap InBackground \subseteq Ids /\ Pending \cap InBackground \subseteq Ids
    BY DEF Incremented, InBackground, Pending
  <1> QED BY <1>1, FiniteIds, Zenon

\* The invariant has the types that TypeOK states, and what else every step needs.
LEMMA InvTypes ==
    ASSUME Typed, MaxCounted, TasksCounted, PoolIsGood
    PROVE  /\ max_tasks \in Nat /\ max_background \in Nat /\ num_background \in Nat
           /\ num_pending \in Nat /\ num_pending_background \in Nat
           /\ workload.max_tasks \in Nat \ {0} /\ workload.max_background \in Nat \ {0}
           /\ workload.max_failures \in Nat
           /\ max_tasks > 0 <=> workers # {}
           /\ TypeOK
  <1>1. /\ workload.max_tasks \in Nat \ {0} /\ workload.max_background \in Nat \ {0}
        /\ workload.max_failures \in Nat
    <2>1. workload \in [tasks : [Seqs -> Nat], max_tasks : 1 .. kMaxNumberOfWorkers,
                        max_background : Nat \ {0}, max_failures : Nat]
      BY PoolAssumption DEF Typed
    <2> QED BY <2>1, PoolAssumption
  <1>2. /\ max_tasks \in Nat /\ max_background \in Nat /\ num_background \in Nat
        /\ num_pending \in Nat /\ num_pending_background \in Nat
        /\ max_tasks > 0 <=> workers # {}
    BY <1>1, FiniteCounts DEF MaxCounted, TasksCounted
  <1>3. /\ workers \subseteq Ids /\ idle \in Seq(Ids) /\ unused \subseteq Ids
        /\ event \subseteq Ids /\ failures \in 0 .. workload.max_failures
    BY <1>1, PoolVariables
  <1>4. \A n \in {max_tasks, max_background, num_background, num_pending,
                  num_pending_background, num_wake_ups} : n \in Nat
    BY <1>2 DEF Typed
  <1>5. TypeOK
    BY <1>3, <1>4 DEF TypeOK, Typed
  <1> QED BY <1>1, <1>2, <1>5

------------------------------------------------------------------------------
(* Creating and waking up workers                                            *)

\* A number's positive part.
LEMMA PositivePart ==
    ASSUME NEW x \in Int
    PROVE  Max({0, x}) \in Nat /\ Max({0, x}) = IF x > 0 THEN x ELSE 0
  <1>1. \E m \in {0, x} : \A y \in {0, x} : m >= y
    OBVIOUS
  <1>2. Max({0, x}) \in {0, x} /\ \A y \in {0, x} : Max({0, x}) >= y
    BY <1>1 DEF Max
  <1> QED BY <1>2

\* MaintainAtLeastOneIdleWorkerLockRequired only ever adds a worker, under a
\* number that no worker has, and puts it to sleep on the stack.
LEMMA MaintainGood ==
    ASSUME NEW p, NEW wk, GoodPool(p, wk), NEW max,
           workload.max_failures \in Nat,
           NEW q \in MaintainAtLeastOneIdleWorker(p, max)
    PROVE  GoodPool(q, wk) /\ p.workers \subseteq q.workers
  <1>1. /\ p \in PoolRecord
        /\ p.workers \subseteq Ids /\ p.idle \in Seq(Ids) /\ p.unused \subseteq Ids
        /\ p.event \subseteq Ids /\ p.failures \in Nat
    BY PoolFields DEF GoodPool
  <1>2. CASE q = p
    BY <1>2
  <1>3. CASE /\ Cardinality(p.workers) # kMaxNumberOfWorkers
             /\ q \in CreateIdleWorker(p)
    <2>1. Ids \ p.workers # {}
      <3>1. Cardinality(Ids) = kMaxNumberOfWorkers
        BY PoolAssumption, FS_Interval DEF Ids
      <3> QED BY <1>1, <1>3, <3>1
    <2> DEFINE w == Min(Ids \ p.workers)
    <2>2. w \in Ids \ p.workers
      <3>1. Ids \ p.workers \subseteq Nat
        BY DEF Ids
      <3> QED BY <2>1, <3>1, MinFacts
    <2> HIDE DEF w
    <2>3. CASE q = StackPush([p EXCEPT !.workers = @ \cup {w}], w)
      <3>1. ~OnStack(p, w)
        BY <2>2 DEF GoodPool
      <3>2. wk[w].pc \in {"wait", "get_work"}
        BY <2>2, FreshFields DEF GoodPool
      <3>3. GoodPool(q, wk) /\ q.workers = p.workers \cup {w}
        BY <2>2, <2>3, <3>1, <3>2, PushGood
      <3> QED BY <3>3
    <2>4. CASE p.failures < workload.max_failures /\ q = [p EXCEPT !.failures = @ + 1]
      <3>1. /\ q \in PoolRecord /\ q.workers = p.workers /\ q.idle = p.idle
            /\ q.unused = p.unused /\ q.event = p.event /\ q.failures = p.failures + 1
        BY <1>1, <2>4 DEF PoolRecord
      <3>2. q.failures <= workload.max_failures
        BY <1>1, <2>4, <3>1
      <3>3. \A v \in Ids : OnStack(q, v) <=> OnStack(p, v)
        BY <3>1 DEF OnStack
      <3> QED BY <1>1, <3>1, <3>2, <3>3 DEF GoodPool
    <2> QED BY <1>3, <2>3, <2>4 DEF CreateIdleWorker, w
  <1> QED BY <1>2, <1>3 DEF MaintainAtLeastOneIdleWorker

\* WakeUpOneWorkerLockRequired wakes up a worker only if there is one to wake up.
LEMMA WakeUpGood ==
    ASSUME NEW p, NEW wk, GoodPool(p, wk), NEW max \in Int,
           workload.max_failures \in Nat,
           NEW q \in WakeUpOneWorkerLockRequired(p, max)
    PROVE  GoodPool(q, wk) /\ p.workers \subseteq q.workers
  <1> DEFINE Woken(x) == IF NumberOfExcessWorkers(x, max) < Len(x.idle) THEN WakeTop(x) ELSE x
  <1>1. PICK m \in MaintainAtLeastOneIdleWorker(p, max) :
          q \in MaintainAtLeastOneIdleWorker(Woken(m), max)
    BY DEF WakeUpOneWorkerLockRequired
  <1>2. GoodPool(m, wk) /\ p.workers \subseteq m.workers
    BY <1>1, MaintainGood
  <1>3. GoodPool(Woken(m), wk) /\ Woken(m).workers = m.workers
    <2>1. CASE NumberOfExcessWorkers(m, max) < Len(m.idle)
      <3>1. m.workers \subseteq Ids /\ Len(m.idle) \in Nat
        BY <1>2, PoolFields DEF GoodPool
      <3>2. NumberOfExcessWorkers(m, max) \in Nat
        <4>1. Cardinality(m.workers) - max \in Int
          BY <3>1, FiniteIds
        <4> QED BY <4>1, PositivePart DEF NumberOfExcessWorkers
      <3>3. m.idle # <<>>
        BY <2>1, <3>1, <3>2
      <3> QED BY <1>2, <2>1, <3>3, WakeTopGood
    <2>2. CASE ~(NumberOfExcessWorkers(m, max) < Len(m.idle))
      BY <1>2, <2>2
    <2> QED BY <2>1, <2>2
  <1> HIDE DEF Woken
  <1>4. GoodPool(q, wk) /\ Woken(m).workers \subseteq q.workers
    BY <1>1, <1>3, MaintainGood
  <1> QED BY <1>2, <1>3, <1>4

\* So does calling it several times.
LEMMA WakeUpsGood ==
    ASSUME NEW p, NEW wk, GoodPool(p, wk), NEW max \in Int, NEW n \in Nat,
           workload.max_failures \in Nat,
           NEW q \in WakeUpWorkers(p, max, n)
    PROVE  GoodPool(q, wk) /\ p.workers \subseteq q.workers
  <1> DEFINE Woken(S) == UNION {WakeUpOneWorkerLockRequired(x, max) : x \in S}
             Is(f, k) == f = [i \in 0 .. k |-> IF i = 0 THEN {p} ELSE Woken(f[i - 1])]
             after == CHOOSE f : Is(f, n)
  <1>1. \A k \in Nat : \E f : Is(f, k)
    <2> HIDE DEF Woken
    <2> DEFINE T == {k \in Nat : ~ \E f : Is(f, k)}
    <2> SUFFICES ASSUME T # {} PROVE FALSE
      OBVIOUS
    <2>1. PICK k \in T : \A y \in T : k <= y
      <3>1. T \subseteq Nat
        OBVIOUS
      <3> QED BY <3>1, LeastNat
    <2>2. k \in Nat /\ ~ \E f : Is(f, k)
      OBVIOUS
    <2>3. CASE k = 0
      <3>1. Is([i \in 0 .. 0 |-> {p}], 0)
        OBVIOUS
      <3> QED BY <2>2, <2>3, <3>1
    <2>4. CASE k # 0
      <3>1. k - 1 \in Nat /\ k - 1 \notin T
        <4>1. k \in Nat
          BY <2>2
        <4> HIDE DEF T
        <4> QED BY <2>1, <2>4, <4>1
      <3>2. PICK f : Is(f, k - 1)
        BY <3>1
      <3> DEFINE g == [i \in 0 .. k |-> IF i = 0 THEN {p} ELSE Woken(f[i - 1])]
      <3>3. \A i \in 0 .. k - 1 : f[i] = IF i = 0 THEN {p} ELSE Woken(f[i - 1])
        BY <3>2
      <3>4. \A i \in 0 .. k : g[i] = IF i = 0 THEN {p} ELSE Woken(f[i - 1])
        OBVIOUS
      <3>5. \A i \in 0 .. k : i # 0 => i - 1 \in 0 .. k - 1 /\ i - 1 \in 0 .. k
        BY <2>2
      <3>6. \A i \in 0 .. k : i # 0 => g[i - 1] = f[i - 1]
        <4> HIDE DEF g
        <4> QED BY <3>3, <3>4, <3>5
      <3>7. Is(g, k)
        BY <3>6
      <3> QED BY <2>2, <3>7
    <2> QED BY <2>3, <2>4
  <1>2. Is(after, n)
    <2> HIDE DEF Is
    <2>1. \E f : Is(f, n)
      BY <1>1
    <2> QED BY <2>1
  <1>3. WakeUpWorkers(p, max, n) = after[n]
    BY DEF WakeUpWorkers
  <1>4. \A i \in 0 .. n : after[i] = IF i = 0 THEN {p} ELSE Woken(after[i - 1])
    <2> HIDE DEF after, Woken
    <2> QED BY <1>2
  <1> HIDE DEF after
  <1> DEFINE Kept(i) == \A x \in after[i] : GoodPool(x, wk) /\ p.workers \subseteq x.workers
             T == {i \in 0 .. n : ~Kept(i)}
  <1>5. T = {}
    <2> SUFFICES ASSUME T # {} PROVE FALSE
      OBVIOUS
    <2>1. PICK k \in T : \A y \in T : k <= y
      <3>1. T \subseteq Nat
        OBVIOUS
      <3> QED BY <3>1, LeastNat
    <2>2. k \in 0 .. n /\ ~Kept(k)
      OBVIOUS
    <2>3. k # 0
      BY <1>4, <2>2
    <2>4. k - 1 \in 0 .. n /\ k - 1 \notin T
      BY <2>1, <2>2, <2>3
    <2>5. Kept(k - 1)
      BY <2>4
    <2>6. Kept(k)
      <3> SUFFICES ASSUME NEW x \in after[k] PROVE GoodPool(x, wk) /\ p.workers \subseteq x.workers
        OBVIOUS
      <3>1. PICK y \in after[k - 1] : x \in WakeUpOneWorkerLockRequired(y, max)
        <4>1. after[k] = Woken(after[k - 1])
          <5> HIDE DEF Woken
          <5> QED BY <1>4, <2>2, <2>3
        <4> QED BY <4>1
      <3>2. GoodPool(y, wk) /\ p.workers \subseteq y.workers
        BY <2>5
      <3>3. GoodPool(x, wk) /\ y.workers \subseteq x.workers
        BY <3>1, <3>2, WakeUpGood
      <3> QED BY <3>2, <3>3
    <2> QED BY <2>2, <2>6
  <1>6. Kept(n)
    BY <1>5
  <1> QED BY <1>3, <1>6

------------------------------------------------------------------------------
(* The steps of a worker                                                     *)

\* GetWork's proxy is exact.
LEMMA StackProxy ==
    ASSUME PoolIsGood, NEW w \in Ids
    PROVE  IsOnIdleStack(w) <=> OnStack(Pool, w)
  <1> DEFINE n == Len(idle)
  <1>1. idle \in Seq(Ids) /\ n \in Nat
    BY PoolVariables
  <1>2. unused = {idle[i] : i \in 1 .. n - 1}
    BY PoolVariables DEF GoodPool
  <1>3. OnStack(Pool, w) <=> \E i \in 1 .. n : idle[i] = w
    BY PoolVariables DEF OnStack
  <1>4. CASE n = 0
    <2>1. idle = <<>>
      BY <1>1, <1>4
    <2> QED BY <1>2, <1>3, <1>4, <2>1 DEF IsOnIdleStack
  <1>5. CASE n # 0
    <2>1. idle # <<>> /\ Last(idle) = idle[n]
      BY <1>1, <1>5 DEF Last
    <2>2. \A i : i \in 1 .. n <=> i \in 1 .. n - 1 \/ i = n
      BY <1>1, <1>5
    <2> HIDE DEF n
    <2> QED BY <1>2, <1>3, <2>1, <2>2 DEF IsOnIdleStack
  <1> QED BY <1>4, <1>5

\* What the invariant says of one worker.
LEMMA WorkerFacts ==
    ASSUME PoolInv, NEW w \in Ids
    PROVE  /\ worker[w] \in Worker /\ worker[w].pc \in Pcs
           /\ worker[w].seq \in Seqs \cup {None}
           /\ worker[w].may_block \in {"null", "recent", "old"}
           /\ worker[w].incremented \in BOOLEAN /\ worker[w].background \in BOOLEAN
           /\ Shaped(worker[w])
           /\ worker[w].pc # "wait" => w \in workers
           /\ OnStack(Pool, w) => w \in workers /\ worker[w].pc \in {"wait", "get_work"}
  <1>1. worker[w] \in Worker
    BY DEF PoolInv, Typed
  <1>2. Shaped(worker[w])
    BY DEF PoolInv, Delegates
  <1>3. worker[w].pc # "wait" => w \in workers
    BY PoolVariables, FreshFields DEF PoolInv, GoodPool
  <1>4. OnStack(Pool, w) => w \in workers /\ worker[w].pc \in {"wait", "get_work"}
    BY PoolVariables DEF PoolInv, GoodPool
  <1> QED BY <1>1, <1>2, <1>3, <1>4, WorkerFields

\* A worker moves on in its loop, with its sequence and its task as they were.
LEMMA WalkFrame ==
    ASSUME PoolInv, NEW w \in Ids, NEW r \in Worker, worker' = [worker EXCEPT ![w] = r],
           Shaped(r), r.seq = worker[w].seq, r.may_block = worker[w].may_block,
           r.incremented = worker[w].incremented, r.background = worker[w].background,
           r.pc \in Tasked => worker[w].pc \in Tasked,
           UNCHANGED <<queue, counts, poster, program>>,
           workers' = {} <=> workers = {}
    PROVE  /\ worker' \in [Ids -> Worker] /\ Delegates' /\ SequencesApart' /\ TasksLeft'
           /\ MaxCounted' /\ TasksCounted'
  <1>1. /\ worker' \in [Ids -> Worker] /\ worker'[w] = r
        /\ \A v \in Ids \ {w} : worker'[v] = worker[v]
    BY Moved DEF PoolInv, Typed
  <1>2. \A v \in Ids : worker[v].seq \in Seqs \cup {None}
    BY WorkerFacts
  <1>3. Delegates'
    BY <1>1 DEF PoolInv, Delegates
  <1>4. SequencesApart' /\ TasksLeft'
    BY <1>1, <1>2, SeqsFrame DEF PoolInv, Typed, program
  <1>5. MaxCounted'
    BY <1>1, MaxFrame DEF PoolInv, counts, program
  <1>6. TasksCounted'
    BY <1>1, TasksFrame DEF PoolInv, counts
  <1> QED BY <1>1, <1>3, <1>4, <1>5, <1>6

\* And neither begins nor ends a transaction.
LEMMA WalkInv ==
    ASSUME PoolInv, NEW w \in Ids, NEW r \in Worker, worker' = [worker EXCEPT ![w] = r],
           Shaped(r), r.seq = worker[w].seq, r.may_block = worker[w].may_block,
           r.incremented = worker[w].incremented, r.background = worker[w].background,
           r.pc \notin Looking, worker[w].pc \notin Looking,
           r.pc \in Tasked => worker[w].pc \in Tasked,
           UNCHANGED <<queue, transaction, counts, poster, program>>,
           workers' = {} <=> workers = {}
    PROVE  worker' \in [Ids -> Worker] /\ Delegates' /\ Work' /\ MaxCounted' /\ TasksCounted'
  <1>1. /\ worker'[w] = r
        /\ \A v \in Ids \ {w} : worker'[v] = worker[v]
    BY Moved DEF PoolInv, Typed
  <1>2. Transactions'
    BY <1>1, TransactionFrame DEF PoolInv, Looking
  <1> QED BY <1>2, WalkFrame DEF Work

\* The pool is as it was, and good for the workers as they are now.
LEMMA PoolStays ==
    ASSUME PoolInv, NEW w \in workers, NEW r, worker' = [worker EXCEPT ![w] = r],
           UNCHANGED pool, workload' = workload,
           r.pc = "wait" => OnStack(Pool, w),
           OnStack(Pool, w) => r.pc \in {"wait", "get_work"}
    PROVE  PoolIsGood'
  <1>1. PoolIsGood /\ GoodPool(Pool, worker) /\ worker \in [Ids -> Worker]
        /\ Pool.workers = workers /\ workers \subseteq Ids
    BY PoolVariables DEF PoolInv, Typed
  <1>2. worker'[w] = r /\ \A v \in Ids \ {w} : worker'[v] = worker[v]
    BY <1>1
  <1>3. \A v \in Ids : OnStack(Pool, v) => worker[v].pc \in {"wait", "get_work"}
    BY <1>1 DEF GoodPool
  <1>4. GoodPool(Pool, worker')
    <2>1. \A v \in Ids \ Pool.workers : worker'[v] = worker[v]
      BY <1>1, <1>2
    <2>2. \A v \in Pool.workers :
            worker'[v].pc = "wait" => worker[v].pc = "wait" \/ OnStack(Pool, v)
      BY <1>1, <1>2
    <2>3. \A v \in Ids : OnStack(Pool, v) => worker'[v].pc \in {"wait", "get_work"}
      BY <1>1, <1>2, <1>3
    <2> QED BY <1>1, <2>1, <2>2, <2>3, GoodFrame
  <1>5. PoolBecomes(Pool)
    BY <1>1, PoolVariables DEF PoolBecomes, pool
  <1> QED BY <1>4, <1>5, GoodBecomes

\* A worker resets its event when it is awake.
LEMMA EventReset ==
    ASSUME PoolInv, NEW w \in workers, NEW r, worker' = [worker EXCEPT ![w] = r],
           r.pc = "get_work",
           event' = event \ {w}, UNCHANGED <<workers, idle, unused, failures, workload>>
    PROVE  PoolIsGood'
  <1> DEFINE q == [Pool EXCEPT !.event = @ \ {w}]
  <1>1. /\ GoodPool(Pool, worker) /\ worker \in [Ids -> Worker] /\ Pool \in PoolRecord
        /\ Pool.workers = workers /\ Pool.idle = idle /\ Pool.unused = unused
        /\ Pool.event = event /\ Pool.failures = failures
        /\ workers \subseteq Ids /\ event \subseteq Ids
    BY PoolVariables DEF PoolInv, Typed
  <1>2. worker'[w] = r /\ \A v \in Ids \ {w} : worker'[v] = worker[v]
    BY <1>1
  <1>3. /\ q \in PoolRecord
        /\ q.workers = workers /\ q.idle = idle /\ q.unused = unused
        /\ q.event = event \ {w} /\ q.failures = failures
    BY <1>1 DEF PoolRecord
  <1> HIDE DEF q
  <1>4. \A v \in Ids : OnStack(q, v) <=> OnStack(Pool, v)
    BY <1>1, <1>3 DEF OnStack
  <1>5. GoodPool(q, worker')
    BY <1>1, <1>2, <1>3, <1>4 DEF GoodPool
  <1>6. PoolBecomes(q)
    BY <1>3 DEF PoolBecomes
  <1> QED BY <1>5, <1>6, GoodBecomes

\* The steps that only take a worker from one place to the next.
LEMMA WalkStep ==
    ASSUME PoolInv, NEW w \in Ids,
           \/ WakesUp(w) \/ TimesOut(w) \/ StaysIdle(w) \/ MayGetWork(w)
           \/ ResetEvent(w) \/ WorkerSchedulesAdjust(w)
    PROVE  PoolInv'
  <1>0. worker \in [Ids -> Worker]
    BY DEF PoolInv, Typed
  <1>1. PICK pc \in {"get_work", "wait", "begin", "run"} :
          /\ Goto(w, pc)
          /\ \/ WakesUp(w) /\ pc = "get_work"
             \/ TimesOut(w) /\ pc = "get_work"
             \/ StaysIdle(w) /\ pc = "wait"
             \/ MayGetWork(w) /\ pc = "begin"
             \/ ResetEvent(w) /\ pc = "get_work"
             \/ WorkerSchedulesAdjust(w) /\ pc = "run"
    BY DEF WakesUp, TimesOut, StaysIdle, MayGetWork, ResetEvent, WorkerSchedulesAdjust
  <1>2. PICK r \in Worker :
          /\ worker' = [worker EXCEPT ![w] = r]
          /\ r.pc = pc /\ r.seq = worker[w].seq /\ r.scope = worker[w].scope
          /\ r.may_block = worker[w].may_block
          /\ r.incremented = worker[w].incremented
          /\ r.background = worker[w].background
    BY <1>0, <1>1, GotoMoves DEF Pcs
  <1>3. \/ pc = "get_work" /\ worker[w].pc \in {"wait", "reset"}
        \/ pc \in {"wait", "begin"} /\ worker[w].pc = "get_work"
        \/ pc = "run" /\ worker[w].pc = "adjust"
    BY <1>1 DEF WakesUp, TimesOut, StaysIdle, MayGetWork, ResetEvent, WorkerSchedulesAdjust
  <1>4. Shaped(r)
    BY <1>2, <1>3, WorkerFacts DEF Shaped, Scoped, Running
  <1>5. /\ UNCHANGED <<queue, transaction, counts, poster, program, workers, num_wake_ups, service>>
        /\ polling' = polling \/ WorkerSchedulesAdjust(w)
    BY <1>1 DEF WakesUp, TimesOut, StaysIdle, MayGetWork, ResetEvent, WorkerSchedulesAdjust,
        ScheduleAdjustMaxTasksIfNeeded, pool, adjusting
  <1>6. worker' \in [Ids -> Worker] /\ Delegates' /\ Work' /\ MaxCounted' /\ TasksCounted'
    BY <1>2, <1>3, <1>4, <1>5, WalkInv DEF Looking, Tasked
  <1>7. polling' \in BOOLEAN
    BY <1>5 DEF PoolInv, Typed, WorkerSchedulesAdjust, ScheduleAdjustMaxTasksIfNeeded
  <1>8. Typed'
    BY <1>5, <1>6, <1>7 DEF PoolInv, Typed, program
  <1>9. w \in workers
    <2>1. CASE worker[w].pc # "wait"
      BY <2>1, WorkerFacts
    <2>2. CASE worker[w].pc = "wait"
      BY <1>1, <2>2 DEF WakesUp, TimesOut, StaysIdle, MayGetWork, ResetEvent, WorkerSchedulesAdjust
    <2> QED BY <2>1, <2>2
  <1>10. PoolIsGood'
    <2>1. CASE WakesUp(w) \/ ResetEvent(w)
      <3>1. r.pc = "get_work" /\ event' = event \ {w}
            /\ UNCHANGED <<workers, idle, unused, failures, workload>>
        BY <1>2, <1>1, <2>1, <1>3 DEF WakesUp, ResetEvent, program, StaysIdle, MayGetWork, TimesOut,
            WorkerSchedulesAdjust
      <3> QED BY <1>2, <1>9, <3>1, EventReset
    <2>2. CASE ~(WakesUp(w) \/ ResetEvent(w))
      <3>1. UNCHANGED pool /\ workload' = workload
        BY <1>1, <2>2 DEF TimesOut, StaysIdle, MayGetWork, WorkerSchedulesAdjust,
            ScheduleAdjustMaxTasksIfNeeded, program
      <3>2. IsOnIdleStack(w) <=> OnStack(Pool, w)
        BY StackProxy DEF PoolInv
      <3>3. OnStack(Pool, w) => worker[w].pc \in {"wait", "get_work"}
        BY WorkerFacts
      <3>4. (r.pc = "wait" => OnStack(Pool, w)) /\ (OnStack(Pool, w) => r.pc \in {"wait", "get_work"})
        BY <1>1, <1>2, <2>2, <3>2, <3>3 DEF TimesOut, StaysIdle, MayGetWork, WorkerSchedulesAdjust
      <3> QED BY <1>2, <1>9, <3>1, <3>4, PoolStays
    <2> QED BY <2>1, <2>2
  <1> QED BY <1>6, <1>8, <1>10 DEF PoolInv

\* OnWorkerBecomesIdleLockRequired.
LEMMA IdlePool ==
    ASSUME PoolInv, NEW w \in workers, ~OnStack(Pool, w), NEW r,
           worker' = [worker EXCEPT ![w] = r], r.pc = "wait",
           PoolBecomes(StackPush(Pool, w)), workload' = workload
    PROVE  PoolIsGood' /\ workers' = workers
  <1>1. /\ GoodPool(Pool, worker) /\ worker \in [Ids -> Worker] /\ Pool \in PoolRecord
        /\ Pool.workers = workers /\ workers \subseteq Ids
    BY PoolVariables DEF PoolInv, Typed
  <1>2. [Pool EXCEPT !.workers = @ \cup {w}] = Pool
    <2>1. workers \cup {w} = workers
      OBVIOUS
    <2> QED BY <2>1 DEF Pool
  <1>3. worker'[w] = r /\ \A v \in Ids \ {w} : worker'[v] = worker[v]
    BY <1>1
  <1> DEFINE q == StackPush(Pool, w)
  <1>4. GoodPool(q, worker') /\ q.workers = workers
    <2>1. PICK p, wk2 : p = Pool /\ wk2 = worker'
      OBVIOUS
    <2>2. w \in Ids /\ wk2[w].pc \in {"wait", "get_work"} /\ p.workers = workers
      BY <1>1, <1>3, <2>1
    <2>3. GoodPool(p, worker) /\ ~OnStack(p, w) /\ \A v \in Ids \ {w} : wk2[v] = worker[v]
      BY <1>1, <1>3, <2>1
    <2>4. GoodPool(StackPush([p EXCEPT !.workers = @ \cup {w}], w), wk2)
          /\ StackPush([p EXCEPT !.workers = @ \cup {w}], w).workers = p.workers \cup {w}
      BY <2>2, <2>3, PushGood
    <2>5. [p EXCEPT !.workers = @ \cup {w}] = p
      BY <1>2, <2>1
    <2>6. GoodPool(StackPush(p, w), wk2) /\ StackPush(p, w).workers = workers \cup {w}
      BY <2>2, <2>4, <2>5
    <2> QED BY <2>1, <2>6
  <1> QED BY <1>4, GoodBecomes DEF PoolBecomes

\* The worker of the transaction ends it.
LEMMA TransactionEnds ==
    ASSUME Work, NEW w \in Ids, worker[w].pc \in Looking, transaction' = None,
           worker'[w].pc \notin Looking, \A v \in Ids \ {w} : worker'[v] = worker[v]
    PROVE  Transactions'
  <1>1. \A v \in Ids \ {w} : worker[v].pc \notin Looking
    BY DEF Work, Transactions
  <1>2. \A v \in Ids : v # None
    BY SeqsAssumption DEF Ids
  <1> QED BY <1>1, <1>2 DEF Transactions, Looking

\* The steps after which a worker is on the idle stack.
LEMMA IdleStep ==
    ASSUME PoolInv, NEW w \in Ids, ExcessBecomesIdle(w) \/ GoesIdle(w)
    PROVE  PoolInv'
  <1>0. worker \in [Ids -> Worker]
    BY DEF PoolInv, Typed
  <1>1. /\ BecomesIdle(w) /\ worker[w].pc \in {"get_work"} \cup Looking
        /\ UNCHANGED <<queue, counts, num_wake_ups, adjusting, poster, program>>
    BY DEF ExcessBecomesIdle, GoesIdle, Looking
  <1>2. PICK r \in Worker :
          /\ worker' = [worker EXCEPT ![w] = r]
          /\ r.pc = "wait" /\ r.seq = worker[w].seq /\ r.scope = worker[w].scope
          /\ r.may_block = worker[w].may_block
          /\ r.incremented = worker[w].incremented
          /\ r.background = worker[w].background
    BY <1>0, <1>1, GotoMoves DEF Pcs, BecomesIdle
  <1>3. Shaped(r)
    BY <1>1, <1>2, WorkerFacts DEF Shaped, Scoped, Running, Looking
  <1>4. w \in workers
    BY <1>1, WorkerFacts DEF Looking
  <1>5. ~OnStack(Pool, w)
    <2>1. CASE ExcessBecomesIdle(w)
      BY <2>1, StackProxy DEF ExcessBecomesIdle, PoolInv
    <2>2. CASE GoesIdle(w)
      BY <2>2, WorkerFacts DEF GoesIdle
    <2> QED BY <2>1, <2>2
  <1>6. PoolIsGood' /\ workers' = workers
    BY <1>1, <1>2, <1>4, <1>5, IdlePool DEF BecomesIdle, program
  <1>7. /\ worker' \in [Ids -> Worker] /\ Delegates' /\ SequencesApart' /\ TasksLeft'
        /\ MaxCounted' /\ TasksCounted'
    BY <1>1, <1>2, <1>3, <1>6, WalkFrame DEF Tasked
  <1>8. /\ worker'[w] = r
        /\ \A v \in Ids \ {w} : worker'[v] = worker[v]
    BY <1>0, <1>2
  <1>9. Transactions' /\ transaction' \in Ids \cup {None}
    <2>1. CASE ExcessBecomesIdle(w)
      <3>1. worker[w].pc = "get_work" /\ transaction' = transaction
        BY <2>1 DEF ExcessBecomesIdle
      <3> QED BY <1>1, <1>2, <1>8, <3>1, TransactionFrame DEF PoolInv, Typed, Looking
    <2>2. CASE GoesIdle(w)
      <3>1. worker[w].pc \in Looking /\ transaction' = None
        BY <2>2 DEF GoesIdle, Looking
      <3> QED BY <1>2, <1>8, <3>1, TransactionEnds DEF PoolInv, Looking
    <2> QED BY <2>1, <2>2
  <1>10. Typed'
    BY <1>1, <1>7, <1>9 DEF PoolInv, Typed, adjusting, program
  <1> QED BY <1>6, <1>7, <1>9, <1>10 DEF PoolInv, Work

\* Looking at the queue begins a transaction.
LEMMA LookStep ==
    ASSUME PoolInv, NEW w \in Ids, FindsNothing(w) \/ FindsBackground(w)
    PROVE  PoolInv'
  <1>0. worker \in [Ids -> Worker]
    BY DEF PoolInv, Typed
  <1>1. PICK pc \in Looking :
          /\ Goto(w, pc) /\ transaction' = w /\ transaction = None
          /\ pc = "background" => queue \subseteq Background
    BY DEF FindsNothing, FindsBackground, Looks, Looking
  <1>2. /\ worker[w].pc = "begin"
        /\ UNCHANGED <<pool, queue, counts, num_wake_ups, adjusting, poster, program>>
    BY DEF FindsNothing, FindsBackground
  <1>3. PICK r \in Worker :
          /\ worker' = [worker EXCEPT ![w] = r]
          /\ r.pc = pc /\ r.seq = worker[w].seq /\ r.scope = worker[w].scope
          /\ r.may_block = worker[w].may_block
          /\ r.incremented = worker[w].incremented
          /\ r.background = worker[w].background
    BY <1>0, <1>1, GotoMoves DEF Pcs, Looking
  <1>4. Shaped(r)
    BY <1>1, <1>2, <1>3, WorkerFacts DEF Shaped, Scoped, Running, Looking
  <1>5. /\ worker'[w] = r
        /\ \A v \in Ids \ {w} : worker'[v] = worker[v]
    BY <1>0, <1>3
  <1>6. /\ worker' \in [Ids -> Worker] /\ Delegates' /\ SequencesApart' /\ TasksLeft'
        /\ MaxCounted' /\ TasksCounted'
    BY <1>1, <1>2, <1>3, <1>4, WalkFrame DEF Tasked, Looking, pool
  <1>7. PoolIsGood'
    <2>1. w \in workers /\ ~OnStack(Pool, w)
      BY <1>2, WorkerFacts
    <2>2. r.pc # "wait"
      BY <1>1, <1>3 DEF Looking
    <2> QED BY <1>2, <1>3, <2>1, <2>2, PoolStays DEF program
  <1>8. Transactions'
    <2>1. \A v \in Ids : worker[v].pc \notin Looking
      <3>1. \A v \in Ids : v # None
        BY SeqsAssumption DEF Ids
      <3> QED BY <1>1, <3>1 DEF PoolInv, Work, Transactions
    <2>2. \A v \in Ids : worker'[v].pc \in Looking <=> v = w
      BY <1>1, <1>3, <1>5, <2>1
    <2>3. \A v \in Ids : worker'[v].pc = "background" => queue' \subseteq Background
      BY <1>1, <1>2, <1>3, <1>5, <2>1 DEF Looking
    <2> QED BY <1>1, <2>2, <2>3 DEF Transactions
  <1>9. Typed'
    BY <1>1, <1>2, <1>6 DEF PoolInv, Typed, adjusting, program
  <1> QED BY <1>6, <1>7, <1>8, <1>9 DEF PoolInv, Work

\* Without a transaction nobody is looking.
LEMMA NobodyLooks ==
    ASSUME Work, transaction = None
    PROVE  \A v \in Ids : worker[v].pc \notin Looking
  <1>1. \A v \in Ids : v # None
    BY SeqsAssumption DEF Ids
  <1> QED BY <1>1 DEF Work, Transactions

\* A worker takes a sequence out of the queue.
LEMMA PopStep ==
    ASSUME PoolInv, NEW w \in Ids, PopsForeground(w) \/ PopsBackground(w)
    PROVE  PoolInv'
  <1>0. worker \in [Ids -> Worker] /\ queue \subseteq Seqs
    BY DEF PoolInv, Typed
  <1>1. PICK s \in queue : Runs(w, s) /\ (PopsForeground(w) => s \notin Background)
    <2>1. CASE PopsForeground(w)
      BY <2>1 DEF PopsForeground
    <2>2. CASE PopsBackground(w) /\ ~PopsForeground(w)
      BY <2>2 DEF PopsBackground
    <2> QED BY <2>1, <2>2
  <1>2. /\ worker[w].pc \in {"begin", "background"}
        /\ transaction' = None /\ \A v \in Ids \ {w} : worker[v].pc \notin Looking
        /\ UNCHANGED <<pool, max_tasks, max_background, num_pending,
                       num_pending_background, num_wake_ups, adjusting, poster, program>>
    <2>1. CASE PopsForeground(w)
      BY <2>1, NobodyLooks DEF PopsForeground, PoolInv, counts
    <2>2. CASE PopsBackground(w)
      BY <2>2 DEF PopsBackground, PoolInv, Work, Transactions, Looking
    <2> QED BY <2>1, <2>2
  <1>3. PICK r \in Worker :
             /\ worker' = [worker EXCEPT ![w] = r]
             /\ r.pc = "run" /\ r.seq = s /\ r.scope = worker[w].scope
             /\ r.may_block = worker[w].may_block
             /\ r.incremented = worker[w].incremented
             /\ r.background = (s \in Background)
    BY <1>0, <1>1, RunMoves
  <1>4. /\ worker' \in [Ids -> Worker] /\ worker'[w] = r
        /\ \A v \in Ids \ {w} : worker'[v] = worker[v]
    BY <1>0, <1>3
  <1>5. /\ worker[w].seq = None /\ worker[w].scope = "none" /\ ~worker[w].background
        /\ ~worker[w].incremented /\ worker[w].may_block = "null"
    BY <1>2, WorkerFacts DEF Shaped, Scoped, Running
  <1>6. queue' = queue \ {s} /\ s \in Seqs
    BY <1>0, <1>1 DEF Runs
  <1>7. Delegates'
    <2>1. Shaped(r)
      BY <1>3, <1>5, <1>6, SeqsAssumption DEF Shaped, Scoped, Running
    <2> QED BY <1>4, <2>1 DEF PoolInv, Delegates
  <1>8. Transactions'
    <2>1. \A v \in Ids : v # None
      BY SeqsAssumption DEF Ids
    <2>2. \A v \in Ids : worker'[v].pc \notin Looking
      BY <1>2, <1>3, <1>4 DEF Looking
    <2> QED BY <1>2, <2>1, <2>2 DEF Transactions, Looking
  <1>9. SequencesApart'
    <2>1. SequencesApart
      BY DEF PoolInv, Work
    <2>2. \A v \in Ids \ {w} : worker[v].seq # s
      BY <2>1, <1>6, SeqsAssumption DEF SequencesApart
    <2> QED BY <2>1, <2>2, <1>2, <1>3, <1>4, <1>6 DEF SequencesApart
  <1>10. TasksLeft'
    BY <1>2, <1>3, <1>4, <1>6 DEF PoolInv, Work, TasksLeft, program
  <1>11. PoolIsGood'
    <2>1. w \in workers /\ ~OnStack(Pool, w)
      BY <1>2, WorkerFacts
    <2> QED BY <1>2, <1>3, <2>1, PoolStays DEF program
  <1>12. MaxCounted'
    BY <1>2, <1>3, <1>4, <1>5, MaxFrame DEF PoolInv, program, pool
  <1>13. TasksCounted'
    <2>1. CASE PopsForeground(w)
      <3>1. s \notin Background /\ num_background' = num_background
        BY <1>1, <2>1 DEF PopsForeground, counts
      <3>2. r.background = worker[w].background
        BY <1>3, <1>5, <3>1, WorkerFacts
      <3> QED BY <1>2, <1>3, <1>4, <3>1, <3>2, TasksFrame DEF PoolInv
    <2>2. CASE PopsBackground(w)
      <3>1. s \in Background /\ num_background' = num_background + 1
        BY <2>2 DEF PopsBackground, PoolInv, Work, Transactions
      <3>2. InBackground' = InBackground \cup {w} /\ w \notin InBackground
        BY <1>3, <1>4, <1>5, <3>1 DEF InBackground
      <3>3. Pending' = Pending /\ w \notin Pending
        BY <1>3, <1>4, <1>5 DEF Pending
      <3>4. (Pending \cap InBackground)' = Pending \cap InBackground
        BY <3>2, <3>3
      <3>5. Cardinality(InBackground') = Cardinality(InBackground) + 1
        BY <3>2, FiniteCounts, FS_AddElement
      <3> QED BY <1>2, <3>1, <3>3, <3>4, <3>5 DEF PoolInv, TasksCounted
    <2> QED BY <2>1, <2>2
  <1>14. Typed'
    BY <1>0, <1>2, <1>4, <1>6 DEF PoolInv, Typed, adjusting, program
  <1> QED BY <1>7, <1>8, <1>9, <1>10, <1>11, <1>12, <1>13, <1>14 DEF PoolInv, Work

\* A task has run.
LEMMA DidRunStep ==
    ASSUME PoolInv, NEW w \in Ids, DidRunTask(w)
    PROVE  PoolInv'
  <1>0. worker \in [Ids -> Worker] /\ left \in [Seqs -> Nat] /\ queue \subseteq Seqs
    BY DEF PoolInv, Typed
  <1>1. PICK r \in Worker :
             /\ worker' = [worker EXCEPT ![w] = r]
             /\ r.pc = "re_enqueue" /\ r.seq = worker[w].seq /\ r.scope = "none"
             /\ r.may_block = worker[w].may_block
             /\ r.incremented = worker[w].incremented
             /\ r.background = FALSE
    BY <1>0, DidRunMoves
  <1>2. /\ worker' \in [Ids -> Worker] /\ worker'[w] = r
        /\ \A v \in Ids \ {w} : worker'[v] = worker[v]
    BY <1>0, <1>1
  <1>3. /\ worker[w].pc = "run" /\ worker[w].scope \in {"none", "over"}
        /\ left' = [left EXCEPT ![worker[w].seq] = @ - 1]
        /\ num_background' = IF worker[w].background THEN num_background - 1
                             ELSE num_background
        /\ UNCHANGED <<pool, queue, transaction, max_tasks, max_background, num_pending,
                       num_pending_background, num_wake_ups, adjusting, poster, workload>>
    BY DEF DidRunTask
  <1>4. /\ worker[w].seq \in Seqs /\ ~worker[w].incremented /\ worker[w].may_block = "null"
        /\ left[worker[w].seq] > 0
    BY <1>3, WorkerFacts DEF Shaped, Scoped, Running, PoolInv, Work, TasksLeft
  <1>5. /\ left' \in [Seqs -> Nat]
        /\ \A s \in Seqs : s # worker[w].seq => left'[s] = left[s]
    BY <1>0, <1>3, <1>4
  <1>6. Delegates'
    <2>1. Shaped(r)
      BY <1>1, <1>4, SeqsAssumption DEF Shaped, Scoped, Running
    <2> QED BY <1>2, <2>1 DEF PoolInv, Delegates
  <1>7. Transactions'
    BY <1>1, <1>2, <1>3, TransactionFrame DEF PoolInv, Looking
  <1>8. SequencesApart'
    BY <1>1, <1>2, <1>3 DEF PoolInv, Work, SequencesApart
  <1>9. TasksLeft'
    <2>1. SequencesApart /\ TasksLeft
      BY DEF PoolInv, Work
    <2>2. worker[w].seq \notin queue /\ poster[worker[w].seq] # "post"
      BY <1>4, <2>1, SeqsAssumption DEF SequencesApart
    <2>3. \A v \in Ids \ {w} : worker[v].seq # worker[w].seq
      BY <1>4, <2>1, SeqsAssumption DEF SequencesApart
    <2>4. \A v \in Ids : worker[v].pc \in {"run", "will_block", "adjust"} => worker[v].seq \in Seqs
      BY WorkerFacts DEF Shaped, Running
    <2> QED BY <1>0, <1>1, <1>2, <1>3, <1>5, <2>1, <2>2, <2>3, <2>4 DEF TasksLeft
  <1>10. PoolIsGood'
    <2>1. w \in workers /\ ~OnStack(Pool, w)
      BY <1>3, WorkerFacts
    <2> QED BY <1>1, <1>3, <2>1, PoolStays
  <1>11. MaxCounted'
    BY <1>1, <1>2, <1>3, <1>4, MaxFrame DEF PoolInv, pool
  <1>12. TasksCounted'
    <2>1. InBackground' = InBackground \ {w}
      BY <1>1, <1>2 DEF InBackground
    <2>2. w \in InBackground <=> worker[w].background
      BY DEF InBackground
    <2>3. Pending' = Pending /\ w \notin Pending
      BY <1>1, <1>2, <1>4 DEF Pending
    <2>4. (Pending \cap InBackground)' = Pending \cap InBackground
      BY <2>1, <2>3
    <2>5. Cardinality(InBackground') =
            IF worker[w].background THEN Cardinality(InBackground) - 1 ELSE Cardinality(InBackground)
      BY <2>1, <2>2, FiniteCounts, FS_RemoveElement
    <2> QED BY <1>3, <2>3, <2>4, <2>5 DEF PoolInv, TasksCounted
  <1>13. Typed'
    BY <1>2, <1>3, <1>5 DEF PoolInv, Typed, adjusting
  <1> QED BY <1>6, <1>7, <1>8, <1>9, <1>10, <1>11, <1>12, <1>13 DEF PoolInv, Work

\* The sequence goes back, or is done.
LEMMA ReEnqueueStep ==
    ASSUME PoolInv, NEW w \in Ids, ReEnqueueSequence(w)
    PROVE  PoolInv'
  <1>0. worker \in [Ids -> Worker] /\ left \in [Seqs -> Nat] /\ queue \subseteq Seqs
    BY DEF PoolInv, Typed
  <1>1. PICK r \in Worker :
             /\ worker' = [worker EXCEPT ![w] = r]
             /\ r.pc = "reset" /\ r.seq = None /\ r.scope = worker[w].scope
             /\ r.may_block = worker[w].may_block
             /\ r.incremented = worker[w].incremented
             /\ r.background = worker[w].background
    BY <1>0, ReEnqueueMoves
  <1>2. /\ worker' \in [Ids -> Worker] /\ worker'[w] = r
        /\ \A v \in Ids \ {w} : worker'[v] = worker[v]
    BY <1>0, <1>1
  <1>3. /\ worker[w].pc = "re_enqueue"
        /\ UNCHANGED <<pool, transaction, counts, num_wake_ups, adjusting, poster, program>>
        /\ \/ queue' = queue
           \/ /\ queue' = queue \cup {worker[w].seq} /\ left[worker[w].seq] > 0
              /\ transaction = None
    BY DEF ReEnqueueSequence
  <1>4. worker[w].seq \in Seqs
    BY <1>3, WorkerFacts DEF Shaped, Running
  <1>5. Delegates'
    <2>1. Shaped(r)
      BY <1>1, <1>3, WorkerFacts DEF Shaped, Scoped, Running
    <2> QED BY <1>2, <2>1 DEF PoolInv, Delegates
  <1>6. Transactions'
    <2>1. CASE queue' = queue
      BY <1>1, <1>2, <1>3, <2>1, TransactionFrame DEF PoolInv, Looking
    <2>2. CASE transaction = None
      <3>1. \A v \in Ids : worker'[v].pc \notin Looking
        BY <1>1, <1>2, <2>2, NobodyLooks DEF PoolInv, Looking
      <3>2. \A v \in Ids : v # None
        BY SeqsAssumption DEF Ids
      <3> QED BY <1>3, <2>2, <3>1, <3>2 DEF Transactions, Looking
    <2> QED BY <1>3, <2>1, <2>2
  <1>7. SequencesApart'
    <2>1. SequencesApart
      BY DEF PoolInv, Work
    <2>2. /\ \A v \in Ids \ {w} : worker[v].seq # worker[w].seq
          /\ poster[worker[w].seq] # "post"
      BY <1>4, <2>1, SeqsAssumption DEF SequencesApart
    <2> QED BY <1>1, <1>2, <1>3, <2>1, <2>2 DEF SequencesApart
  <1>8. TasksLeft'
    BY <1>1, <1>2, <1>3 DEF PoolInv, Work, TasksLeft, program
  <1>9. PoolIsGood'
    <2>1. w \in workers /\ ~OnStack(Pool, w)
      BY <1>3, WorkerFacts
    <2> QED BY <1>1, <1>3, <2>1, PoolStays DEF program
  <1>10. MaxCounted'
    BY <1>1, <1>2, <1>3, MaxFrame DEF PoolInv, pool, counts, program
  <1>11. TasksCounted'
    BY <1>1, <1>2, <1>3, TasksFrame DEF PoolInv, counts
  <1>12. Typed'
    BY <1>0, <1>2, <1>3, <1>4 DEF PoolInv, Typed, adjusting, program
  <1> QED BY <1>5, <1>6, <1>7, <1>8, <1>9, <1>10, <1>11, <1>12 DEF PoolInv, Work

------------------------------------------------------------------------------
(* Blocking scopes                                                           *)

\* A task enters, upgrades or leaves a scope: the sequences stay where they are.
LEMMA BlockFrame ==
    ASSUME PoolInv, NEW w \in Ids, NEW r \in Worker, worker' = [worker EXCEPT ![w] = r],
           worker[w].pc \in Tasked, r.pc \in Tasked, Shaped(r), r.seq = worker[w].seq,
           UNCHANGED <<queue, transaction, poster, num_wake_ups, adjusting, program>>
    PROVE  /\ Typed' /\ Delegates' /\ Work'
           /\ worker'[w] = r /\ \A v \in Ids \ {w} : worker'[v] = worker[v]
           /\ w \in workers /\ ~OnStack(Pool, w)
  <1>1. /\ worker' \in [Ids -> Worker] /\ worker'[w] = r
        /\ \A v \in Ids \ {w} : worker'[v] = worker[v]
    BY Moved DEF PoolInv, Typed
  <1>2. \A v \in Ids : worker[v].seq \in Seqs \cup {None}
    BY WorkerFacts
  <1>3. Delegates'
    BY <1>1 DEF PoolInv, Delegates
  <1>4. SequencesApart' /\ TasksLeft'
    BY <1>1, <1>2, SeqsFrame DEF PoolInv, Typed, program
  <1>5. Transactions'
    BY <1>1, TransactionFrame DEF PoolInv, Tasked, Looking
  <1>6. Typed'
    BY <1>1 DEF PoolInv, Typed, adjusting, program
  <1>7. w \in workers /\ ~OnStack(Pool, w)
    BY WorkerFacts DEF Tasked
  <1> QED BY <1>1, <1>3, <1>4, <1>5, <1>6, <1>7 DEF Work

\* One worker's task becomes pending, or is not pending any more.
LEMMA PendingChanges ==
    ASSUME PoolInv, NEW w \in Ids, NEW r, worker'[w] = r,
           \A v \in Ids \ {w} : worker'[v] = worker[v],
           r.background = worker[w].background, num_background' = num_background
    PROVE  /\ worker[w].may_block = "null" /\ r.may_block # "null" /\ AddPending(w, 1)
                => TasksCounted'
           /\ worker[w].may_block # "null" /\ r.may_block = "null" /\ AddPending(w, -1)
                => TasksCounted'
  <1>1. InBackground' = InBackground /\ (w \in InBackground <=> worker[w].background)
    BY DEF InBackground
  <1>2. /\ num_background = Cardinality(InBackground) /\ num_pending = Cardinality(Pending)
        /\ num_pending_background = Cardinality(Pending \cap InBackground)
    BY DEF PoolInv, TasksCounted
  <1>3. ASSUME worker[w].may_block = "null", r.may_block # "null", AddPending(w, 1)
        PROVE  TasksCounted'
    <2>1. Pending' = Pending \cup {w} /\ w \notin Pending
      BY <1>3 DEF Pending
    <2>2. Cardinality(Pending') = Cardinality(Pending) + 1
      BY <2>1, FiniteCounts, FS_AddElement
    <2>3. CASE worker[w].background
      <3>1. (Pending \cap InBackground)' = (Pending \cap InBackground) \cup {w}
            /\ w \notin Pending \cap InBackground
        BY <1>1, <2>1, <2>3
      <3>2. Cardinality((Pending \cap InBackground)') = Cardinality(Pending \cap InBackground) + 1
        BY <3>1, FiniteCounts, FS_AddElement
      <3> QED BY <1>1, <1>2, <1>3, <2>2, <2>3, <3>2 DEF AddPending, TasksCounted
    <2>4. CASE ~worker[w].background
      <3>1. (Pending \cap InBackground)' = Pending \cap InBackground
        BY <1>1, <2>1, <2>4
      <3> QED BY <1>1, <1>2, <1>3, <2>2, <2>4, <3>1 DEF AddPending, TasksCounted
    <2> QED BY <2>3, <2>4
  <1>4. ASSUME worker[w].may_block # "null", r.may_block = "null", AddPending(w, -1)
        PROVE  TasksCounted'
    <2>1. Pending' = Pending \ {w} /\ w \in Pending
      BY <1>4 DEF Pending
    <2>2. Cardinality(Pending') = Cardinality(Pending) - 1
      BY <2>1, FiniteCounts, FS_RemoveElement
    <2>3. CASE worker[w].background
      <3>1. (Pending \cap InBackground)' = (Pending \cap InBackground) \ {w}
            /\ w \in Pending \cap InBackground
        BY <1>1, <2>1, <2>3
      <3>2. Cardinality((Pending \cap InBackground)') = Cardinality(Pending \cap InBackground) - 1
        BY <3>1, FiniteCounts, FS_RemoveElement
      <3> QED BY <1>1, <1>2, <1>4, <2>2, <2>3, <3>2, FiniteCounts DEF AddPending, TasksCounted
    <2>4. CASE ~worker[w].background
      <3>1. (Pending \cap InBackground)' = Pending \cap InBackground
        BY <1>1, <2>1, <2>4
      <3> QED BY <1>1, <1>2, <1>4, <2>2, <2>4, <3>1, FiniteCounts DEF AddPending, TasksCounted
    <2> QED BY <2>3, <2>4
  <1> QED BY <1>3, <1>4

\* The pool grows or wakes up a worker while one goes on with its task.
LEMMA PoolGrows ==
    ASSUME PoolInv, NEW p, GoodPool(p, worker), workers \subseteq p.workers,
           NEW w \in workers, worker[w].pc \in Tasked, NEW r,
           worker' = [worker EXCEPT ![w] = r], r.pc \in Tasked,
           PoolBecomes(p), workload' = workload
    PROVE  PoolIsGood' /\ workers \subseteq workers'
  <1>1. worker \in [Ids -> Worker] /\ workers \subseteq Ids
    BY PoolVariables DEF PoolInv, Typed
  <1>2. worker'[w] = r /\ \A v \in Ids \ {w} : worker'[v] = worker[v]
    BY <1>1
  <1>3. \A v \in Ids : OnStack(p, v) => worker[v].pc \in {"wait", "get_work"}
    BY DEF GoodPool
  <1>4. \A v \in Ids \ p.workers : worker'[v] = worker[v]
    BY <1>2
  <1>5. \A v \in p.workers : worker'[v].pc = "wait" => worker[v].pc = "wait" \/ OnStack(p, v)
    <2>1. p.workers \subseteq Ids
      BY PoolFields DEF GoodPool
    <2> QED BY <1>2, <2>1 DEF Tasked
  <1>6. \A v \in Ids : OnStack(p, v) => worker'[v].pc \in {"wait", "get_work"}
    BY <1>2, <1>3 DEF Tasked
  <1>7. GoodPool(p, worker')
    BY <1>4, <1>5, <1>6, GoodFrame
  <1> QED BY <1>7, GoodBecomes DEF PoolBecomes

\* MAY_BLOCK is pending.
LEMMA MayBlockStep ==
    ASSUME PoolInv, NEW w \in Ids, MayBlockEntered(w)
    PROVE  PoolInv'
  <1>1. /\ worker[w].pc = "run" /\ worker[w].scope = "none" /\ AddPending(w, 1)
        /\ UNCHANGED <<pool, queue, transaction, max_tasks, max_background,
                       num_background, num_wake_ups, adjusting, poster, program>>
    BY DEF MayBlockEntered
  <1>2. PICK r \in Worker :
          /\ worker' = [worker EXCEPT ![w] = r]
          /\ r.pc = "adjust" /\ r.seq = worker[w].seq /\ r.scope = "may"
          /\ r.may_block = "recent" /\ r.incremented = worker[w].incremented
          /\ r.background = worker[w].background
    BY BlockMoves DEF Blocks, PoolInv, Typed
  <1>3. Shaped(worker[w]) /\ worker[w].may_block = "null" /\ ~worker[w].incremented
    BY <1>1, WorkerFacts DEF Shaped, Scoped
  <1>4. Shaped(r)
    BY <1>1, <1>2, <1>3 DEF Shaped, Scoped, Running
  <1>5. /\ Typed' /\ Delegates' /\ Work'
        /\ worker'[w] = r /\ \A v \in Ids \ {w} : worker'[v] = worker[v]
        /\ w \in workers /\ ~OnStack(Pool, w)
    BY <1>1, <1>2, <1>4, BlockFrame DEF Tasked
  <1>6. PoolIsGood'
    BY <1>1, <1>2, <1>5, PoolStays DEF program
  <1>7. MaxCounted'
    BY <1>1, <1>2, <1>5, MaxFrame DEF PoolInv, pool, program
  <1>8. TasksCounted'
    BY <1>1, <1>2, <1>3, <1>5, PendingChanges
  <1> QED BY <1>5, <1>6, <1>7, <1>8 DEF PoolInv

\* BlockingTypeUpgraded cancels a pending scope, or leaves one that counts.
LEMMA UpgradeStep ==
    ASSUME PoolInv, NEW w \in Ids, BlockingTypeUpgraded(w)
    PROVE  PoolInv'
  <1>1. /\ worker[w].pc = "run" /\ worker[w].scope = "may"
        /\ UNCHANGED <<pool, queue, transaction, num_wake_ups, adjusting, poster, program>>
    BY DEF BlockingTypeUpgraded
  <1>2. worker \in [Ids -> Worker] /\ worker[w].incremented \in BOOLEAN /\ Shaped(worker[w])
        /\ (worker[w].incremented <=> worker[w].may_block = "null")
    BY <1>1, WorkerFacts DEF Shaped, Scoped, PoolInv, Typed
  <1>3. CASE worker[w].incremented
    <2>1. PICK r \in Worker :
            /\ worker' = [worker EXCEPT ![w] = r]
            /\ r.pc = worker[w].pc /\ r.seq = worker[w].seq /\ r.scope = "will"
            /\ r.may_block = worker[w].may_block /\ r.incremented = worker[w].incremented
            /\ r.background = worker[w].background
      BY <1>2, <1>3, BlockMoves DEF Blocks
    <2>2. Shaped(r)
      BY <1>1, <1>2, <1>3, <2>1 DEF Shaped, Scoped, Running
    <2>3. /\ Typed' /\ Delegates' /\ Work'
          /\ worker'[w] = r /\ \A v \in Ids \ {w} : worker'[v] = worker[v]
          /\ w \in workers /\ ~OnStack(Pool, w)
      BY <1>1, <2>1, <2>2, BlockFrame DEF Tasked
    <2>4. PoolIsGood'
      BY <1>1, <2>1, <2>3, PoolStays DEF program
    <2>5. UNCHANGED counts
      BY <1>3 DEF BlockingTypeUpgraded
    <2>6. MaxCounted'
      BY <1>1, <2>1, <2>3, <2>5, MaxFrame DEF PoolInv, pool, program, counts
    <2>7. TasksCounted'
      BY <2>1, <2>3, <2>5, TasksFrame DEF PoolInv, counts
    <2> QED BY <2>3, <2>4, <2>6, <2>7 DEF PoolInv
  <1>4. CASE ~worker[w].incremented
    <2>0. Upgrade(w)
      BY <1>4 DEF BlockingTypeUpgraded
    <2>1. PICK r \in Worker :
            /\ worker' = [worker EXCEPT ![w] = r]
            /\ r.pc = "will_block" /\ r.seq = worker[w].seq /\ r.scope = "will"
            /\ r.may_block = "null" /\ r.incremented = worker[w].incremented
            /\ r.background = worker[w].background
      BY <1>2, <2>0, BlockMoves DEF Blocks
    <2>2. Shaped(r)
      BY <1>1, <1>2, <1>4, <2>1 DEF Shaped, Scoped, Running
    <2>3. /\ Typed' /\ Delegates' /\ Work'
          /\ worker'[w] = r /\ \A v \in Ids \ {w} : worker'[v] = worker[v]
          /\ w \in workers /\ ~OnStack(Pool, w)
      BY <1>1, <2>1, <2>2, BlockFrame DEF Tasked
    <2>4. PoolIsGood'
      BY <1>1, <2>1, <2>3, PoolStays DEF program
    <2>5. AddPending(w, -1) /\ UNCHANGED <<max_tasks, max_background, num_background>>
      BY <2>0 DEF Upgrade
    <2>6. MaxCounted'
      BY <1>1, <2>1, <2>3, <2>5, MaxFrame DEF PoolInv, pool, program
    <2>7. TasksCounted'
      BY <1>2, <1>4, <2>1, <2>3, <2>5, PendingChanges
    <2> QED BY <2>3, <2>4, <2>6, <2>7 DEF PoolInv
  <1> QED BY <1>3, <1>4

\* A scope raises max_tasks_, or no longer does.
LEMMA MaxChanges ==
    ASSUME PoolInv, NEW w \in workers, NEW r, worker'[w] = r,
           \A v \in Ids \ {w} : worker'[v] = worker[v],
           r.background = worker[w].background, workload' = workload, workers' # {}
    PROVE  /\ ~worker[w].incremented /\ r.incremented /\ IncrementMaxTasks({w}) => MaxCounted'
           /\ /\ worker[w].incremented /\ ~r.incremented
              /\ max_tasks' = max_tasks - 1
              /\ max_background' = IF worker[w].background THEN max_background - 1
                                   ELSE max_background
              => MaxCounted'
  <1>0. w \in Ids
    BY PoolVariables DEF PoolInv
  <1>1. InBackground' = InBackground /\ (w \in InBackground <=> worker[w].background)
    BY <1>0 DEF InBackground
  <1>2. /\ max_tasks = workload.max_tasks + Cardinality(Incremented)
        /\ max_background = workload.max_background + Cardinality(Incremented \cap InBackground)
    BY DEF PoolInv, MaxCounted
  <1>3. workload.max_tasks \in Nat /\ workload.max_background \in Nat
    BY InvTypes DEF PoolInv
  <1>4. ASSUME ~worker[w].incremented, r.incremented, IncrementMaxTasks({w})
        PROVE  MaxCounted'
    <2>1. Incremented' = Incremented \cup {w} /\ w \notin Incremented
      BY <1>0, <1>4 DEF Incremented
    <2>2. Cardinality(Incremented') = Cardinality(Incremented) + 1
      BY <2>1, FiniteCounts, FS_AddElement
    <2>3. max_tasks' = max_tasks + 1
      BY <1>4, FS_Singleton DEF IncrementMaxTasks
    <2>4. CASE worker[w].background
      <3>1. (Incremented \cap InBackground)' = (Incremented \cap InBackground) \cup {w}
            /\ w \notin Incremented \cap InBackground
        BY <1>1, <2>1, <2>4
      <3>2. Cardinality((Incremented \cap InBackground)')
              = Cardinality(Incremented \cap InBackground) + 1
        BY <3>1, FiniteCounts, FS_AddElement
      <3>3. {v \in {w} : worker[v].background} = {w}
        BY <2>4
      <3>4. max_background' = max_background + 1
        BY <1>4, <3>3, FS_Singleton DEF IncrementMaxTasks
      <3> QED BY <1>2, <1>3, <2>2, <2>3, <3>2, <3>4, FiniteCounts DEF MaxCounted
    <2>5. CASE ~worker[w].background
      <3>1. (Incremented \cap InBackground)' = Incremented \cap InBackground
        BY <1>1, <2>1, <2>5
      <3>2. Cardinality((Incremented \cap InBackground)') = Cardinality(Incremented \cap InBackground)
        BY <3>1
      <3>3. {v \in {w} : worker[v].background} = {}
        BY <2>5
      <3>4. max_background' = max_background + 0
        BY <1>4, <3>3, FS_EmptySet DEF IncrementMaxTasks
      <3> QED BY <1>2, <1>3, <2>2, <2>3, <3>2, <3>4, FiniteCounts DEF MaxCounted
    <2> QED BY <2>4, <2>5
  <1>5. ASSUME worker[w].incremented, ~r.incremented, max_tasks' = max_tasks - 1,
               max_background' = IF worker[w].background THEN max_background - 1
                                 ELSE max_background
        PROVE  MaxCounted'
    <2>1. Incremented' = Incremented \ {w} /\ w \in Incremented
      BY <1>0, <1>5 DEF Incremented
    <2>2. Cardinality(Incremented') = Cardinality(Incremented) - 1
      BY <2>1, FiniteCounts, FS_RemoveElement
    <2>4. CASE worker[w].background
      <3>1. (Incremented \cap InBackground)' = (Incremented \cap InBackground) \ {w}
            /\ w \in Incremented \cap InBackground
        BY <1>1, <2>1, <2>4
      <3>2. Cardinality((Incremented \cap InBackground)')
              = Cardinality(Incremented \cap InBackground) - 1
        <4> DEFINE B == Incremented \cap InBackground
        <4>1. IsFiniteSet(B) /\ w \in B
          BY <3>1, FiniteCounts
        <4> HIDE DEF B
        <4>2. Cardinality(B \ {w}) = Cardinality(B) - 1
          BY <4>1, FS_RemoveElement
        <4> QED BY <3>1, <4>2 DEF B
      <3> QED BY <1>2, <1>3, <1>5, <2>2, <2>4, <3>2, FiniteCounts DEF MaxCounted
    <2>5. CASE ~worker[w].background
      <3>1. (Incremented \cap InBackground)' = Incremented \cap InBackground
        BY <1>1, <2>1, <2>5
      <3>2. Cardinality((Incremented \cap InBackground)') = Cardinality(Incremented \cap InBackground)
        BY <3>1
      <3> QED BY <1>2, <1>3, <1>5, <2>2, <2>5, <3>2, FiniteCounts DEF MaxCounted
    <2> QED BY <2>4, <2>5
  <1> QED BY <1>4, <1>5

\* WILL_BLOCK counts at once, and may need another worker.
LEMMA WillBlockStep ==
    ASSUME PoolInv, NEW w \in Ids, WillBlockEntered(w)
    PROVE  PoolInv'
  <1>1. /\ \/ worker[w].pc = "run" /\ worker[w].scope = "none"
           \/ worker[w].pc = "will_block"
        /\ IncrementMaxTasks({w})
        /\ UNCHANGED <<queue, transaction, num_background, num_pending,
                       num_pending_background, num_wake_ups, adjusting, poster, program>>
    BY DEF WillBlockEntered
  <1>2. PICK pc \in {"run", "adjust"} : Blocks(w, pc, "will", worker[w].may_block, TRUE)
    BY BlockMoves DEF PoolInv, Typed
  <1>3. PICK r \in Worker :
          /\ worker' = [worker EXCEPT ![w] = r]
          /\ r.pc = pc /\ r.seq = worker[w].seq /\ r.scope = "will"
          /\ r.may_block = worker[w].may_block /\ r.incremented = TRUE
          /\ r.background = worker[w].background
    BY <1>2 DEF Blocks
  <1>4. Shaped(worker[w]) /\ worker[w].may_block = "null" /\ ~worker[w].incremented
    BY <1>1, WorkerFacts DEF Shaped, Scoped
  <1>5. Shaped(r)
    BY <1>1, <1>2, <1>3, <1>4 DEF Shaped, Scoped, Running
  <1>6. /\ Typed' /\ Delegates' /\ Work'
        /\ worker'[w] = r /\ \A v \in Ids \ {w} : worker'[v] = worker[v]
        /\ w \in workers /\ ~OnStack(Pool, w)
    BY <1>1, <1>2, <1>3, <1>5, BlockFrame DEF Tasked
  <1>7. PoolIsGood' /\ workers \subseteq workers'
    <2>1. CASE UNCHANGED pool
      <3>1. PoolIsGood'
        BY <1>1, <1>2, <1>3, <1>6, <2>1, PoolStays DEF program
      <3> QED BY <2>1, <3>1 DEF pool
    <2>2. ASSUME NEW p, PoolBecomes(p),
                 p \in MaintainAtLeastOneIdleWorker(Pool, max_tasks + 1)
                       \cup WakeUpOneWorkerLockRequired(Pool, max_tasks + 1)
          PROVE  PoolIsGood' /\ workers \subseteq workers'
      <3>1. GoodPool(Pool, worker) /\ Pool.workers = workers
            /\ max_tasks + 1 \in Int /\ workload.max_failures \in Nat
        BY PoolVariables, InvTypes DEF PoolInv
      <3>2. GoodPool(p, worker) /\ workers \subseteq p.workers
        BY <2>2, <3>1, MaintainGood, WakeUpGood
      <3> QED BY <1>1, <1>2, <1>3, <1>6, <2>2, <3>2, PoolGrows DEF program, Tasked
    <2> QED BY <2>1, <2>2 DEF WillBlockEntered
  <1>8. MaxCounted'
    BY <1>1, <1>3, <1>4, <1>6, <1>7, MaxChanges DEF program
  <1>9. TasksCounted'
    BY <1>1, <1>3, <1>6, TasksFrame DEF PoolInv
  <1> QED BY <1>6, <1>7, <1>8, <1>9 DEF PoolInv

\* The outermost scope ends.
LEMMA BlockingEndedStep ==
    ASSUME PoolInv, NEW w \in Ids, BlockingEnded(w)
    PROVE  PoolInv'
  <1>1. /\ worker[w].pc = "run" /\ worker[w].scope \in {"may", "will"}
        /\ UNCHANGED <<pool, queue, transaction, num_background, num_wake_ups, adjusting,
                       poster, program>>
    BY DEF BlockingEnded
  <1>2. PICK r \in Worker :
          /\ worker' = [worker EXCEPT ![w] = r]
          /\ r.pc = worker[w].pc /\ r.seq = worker[w].seq /\ r.scope = "over"
          /\ r.may_block = "null" /\ r.incremented = FALSE
          /\ r.background = worker[w].background
    BY BlockMoves DEF Blocks, PoolInv, Typed
  <1>3. Shaped(worker[w]) /\ (worker[w].incremented <=> worker[w].may_block = "null")
        /\ worker[w].incremented \in BOOLEAN
    BY <1>1, WorkerFacts DEF Shaped, Scoped
  <1>4. Shaped(r)
    BY <1>1, <1>2, <1>3 DEF Shaped, Scoped, Running
  <1>5. /\ Typed' /\ Delegates' /\ Work'
        /\ worker'[w] = r /\ \A v \in Ids \ {w} : worker'[v] = worker[v]
        /\ w \in workers /\ ~OnStack(Pool, w)
    BY <1>1, <1>2, <1>4, BlockFrame DEF Tasked
  <1>6. PoolIsGood' /\ workers' = workers /\ workers' # {}
    <2>1. PoolIsGood'
      BY <1>1, <1>2, <1>5, PoolStays DEF program
    <2> QED BY <1>1, <1>5, <2>1 DEF pool
  <1>7. CASE worker[w].incremented
    <2>1. /\ max_tasks' = max_tasks - 1
          /\ max_background' = IF worker[w].background THEN max_background - 1
                               ELSE max_background
          /\ UNCHANGED <<num_pending, num_pending_background>>
      BY <1>7 DEF BlockingEnded
    <2>2. MaxCounted'
      BY <1>1, <1>2, <1>5, <1>6, <1>7, <2>1, MaxChanges DEF program
    <2>3. TasksCounted'
      BY <1>1, <1>2, <1>3, <1>5, <1>7, <2>1, TasksFrame DEF PoolInv
    <2> QED BY <1>5, <1>6, <2>2, <2>3 DEF PoolInv
  <1>8. CASE ~worker[w].incremented
    <2>1. AddPending(w, -1) /\ UNCHANGED <<max_tasks, max_background>>
      BY <1>8 DEF BlockingEnded
    <2>2. MaxCounted'
      BY <1>1, <1>2, <1>3, <1>5, <1>6, <1>8, <2>1, MaxFrame DEF PoolInv, program
    <2>3. TasksCounted'
      BY <1>1, <1>2, <1>3, <1>5, <1>8, <2>1, PendingChanges
    <2> QED BY <1>5, <1>6, <2>2, <2>3 DEF PoolInv
  <1> QED BY <1>7, <1>8

------------------------------------------------------------------------------
(* A worker that leaves, the posters and the service thread                  *)

\* SchedulerWorkerStack::Remove of a worker below the top.
LEMMA CleanUpPool ==
    ASSUME PoolInv, NEW w \in Ids, w \in unused,
           workers' = workers \ {w}, idle' = RemoveFirst(idle, w),
           unused' = unused \ {w}, event' = event \ {w},
           failures' = failures, workload' = workload,
           worker' = [worker EXCEPT ![w] = FreshWorker]
    PROVE  PoolIsGood' /\ workers' # {} /\ workers # {}
  <1> DEFINE n == Len(idle)
             q == [workers |-> workers \ {w}, idle |-> RemoveFirst(idle, w),
                   unused |-> unused \ {w}, event |-> event \ {w}, failures |-> failures]
  <1>1. /\ GoodPool(Pool, worker) /\ worker \in [Ids -> Worker]
        /\ Pool.workers = workers /\ Pool.idle = idle /\ Pool.unused = unused
        /\ Pool.event = event /\ Pool.failures = failures
        /\ workers \subseteq Ids /\ idle \in Seq(Ids) /\ unused \subseteq Ids
        /\ event \subseteq Ids /\ failures \in Nat /\ failures <= workload.max_failures
        /\ n \in Nat
    BY PoolVariables DEF PoolInv, Typed
  <1>2. /\ unused = {idle[i] : i \in 1 .. n - 1}
        /\ \A i, j \in 1 .. n : idle[i] = idle[j] => i = j
    BY <1>1 DEF GoodPool
  <1>3. PICK k \in 1 .. n - 1 : idle[k] = w
    BY <1>2
  <1> DEFINE d == RemoveFirst(idle, w)
  <1>4. /\ d \in Seq(Ids) /\ Len(d) = n - 1
        /\ \A i \in 1 .. k - 1 : d[i] = idle[i]
        /\ \A i \in k .. n - 1 : d[i] = idle[i + 1]
    <2>1. k \in 1 .. n /\ idle[k] = w
      BY <1>1, <1>3
    <2>2. PICK e : e = idle
      OBVIOUS
    <2>3. /\ RemoveFirst(e, e[k]) \in Seq(Ids) /\ Len(RemoveFirst(e, e[k])) = Len(e) - 1
          /\ \A i \in 1 .. k - 1 : RemoveFirst(e, e[k])[i] = e[i]
          /\ \A i \in k .. Len(e) - 1 : RemoveFirst(e, e[k])[i] = e[i + 1]
      <3>1. e \in Seq(Ids) /\ k \in 1 .. Len(e)
            /\ \A i, j \in 1 .. Len(e) : e[i] = e[j] => i = j
        BY <1>1, <1>2, <2>1, <2>2
      <3> QED BY <3>1, RemoveFirstFacts
    <2> QED BY <2>1, <2>2, <2>3
  <1>5. /\ q \in PoolRecord
        /\ q.workers = workers \ {w} /\ q.idle = d /\ q.unused = unused \ {w}
        /\ q.event = event \ {w} /\ q.failures = failures
    <2> HIDE DEF d
    <2>1. q = [workers |-> workers \ {w}, idle |-> d,
               unused |-> unused \ {w}, event |-> event \ {w}, failures |-> failures]
      BY DEF d
    <2> HIDE DEF q
    <2> QED BY <1>1, <1>4, <2>1 DEF PoolRecord
  <1> HIDE DEF d
  <1>6. PoolBecomes(q)
    BY <1>5 DEF PoolBecomes, d
  <1> HIDE DEF q
  <1> DEFINE At(i) == IF i < k THEN i ELSE i + 1
  <1>7. /\ \A i \in 1 .. n - 1 : At(i) \in 1 .. n /\ At(i) # k /\ d[i] = idle[At(i)]
        /\ \A i \in 1 .. n - 2 : At(i) \in 1 .. n - 1
        /\ \A i, j \in 1 .. n - 1 : At(i) = At(j) => i = j
    <2> HIDE DEF n
    <2>1. ASSUME NEW i \in 1 .. n - 1
          PROVE  At(i) \in 1 .. n /\ At(i) # k /\ d[i] = idle[At(i)]
      <3>1. CASE i < k
        <4>1. At(i) = i /\ i \in 1 .. k - 1 /\ i \in 1 .. n /\ i # k
          BY <1>1, <1>3, <3>1
        <4> QED BY <1>4, <4>1
      <3>2. CASE ~(i < k)
        <4>1. At(i) = i + 1 /\ i \in k .. n - 1 /\ i + 1 \in 1 .. n /\ i + 1 # k
          BY <1>1, <1>3, <3>2
        <4> QED BY <1>4, <4>1
      <3> QED BY <3>1, <3>2
    <2>2. /\ \A i \in 1 .. n - 2 : At(i) \in 1 .. n - 1
          /\ \A i, j \in 1 .. n - 1 : At(i) = At(j) => i = j
      BY <1>1, <1>3
    <2> QED BY <2>1, <2>2
  <1>8. /\ \A i \in 1 .. n : i # k => \E j \in 1 .. n - 1 : d[j] = idle[i]
        /\ \A i \in 1 .. n - 1 : i # k => \E j \in 1 .. n - 2 : d[j] = idle[i]
    <2>1. ASSUME NEW i \in 1 .. n, i # k
          PROVE  \E j \in 1 .. n - 1 : d[j] = idle[i] /\ (i \in 1 .. n - 1 => j \in 1 .. n - 2)
      <3>1. CASE i < k
        <4>1. i \in 1 .. n - 1 /\ d[i] = idle[i] /\ i \in 1 .. n - 2
          BY <1>1, <1>3, <1>4, <3>1
        <4> QED BY <4>1
      <3>2. CASE i > k
        <4>1. i - 1 \in 1 .. n - 1 /\ d[i - 1] = idle[i] /\ (i \in 1 .. n - 1 => i - 1 \in 1 .. n - 2)
          BY <1>1, <1>3, <1>4, <3>2
        <4> QED BY <4>1
      <3> QED BY <1>3, <2>1, <3>1, <3>2
    <2>2. 1 .. n - 1 \subseteq 1 .. n
      BY <1>1
    <2> QED BY <2>1, <2>2
  <1> HIDE DEF At
  <1>9. \A v \in Ids : OnStack(q, v) <=> OnStack(Pool, v) /\ v # w
    <2>1. \A v \in Ids : OnStack(q, v) <=> \E i \in 1 .. n - 1 : d[i] = v
      BY <1>4, <1>5 DEF OnStack
    <2>2. \A v \in Ids : OnStack(Pool, v) <=> \E i \in 1 .. n : idle[i] = v
      BY <1>1 DEF OnStack
    <2>3. k \in 1 .. n
      BY <1>1, <1>3
    <2>4. ASSUME NEW v \in Ids, NEW i \in 1 .. n - 1, d[i] = v
          PROVE  (\E j \in 1 .. n : idle[j] = v) /\ v # w
      BY <1>2, <1>3, <1>7, <2>3, <2>4
    <2>5. ASSUME NEW v \in Ids, NEW i \in 1 .. n, idle[i] = v, v # w
          PROVE  \E j \in 1 .. n - 1 : d[j] = v
      BY <1>3, <1>8, <2>5
    <2> QED BY <2>1, <2>2, <2>4, <2>5
  <1>10. q.unused = {q.idle[i] : i \in 1 .. Len(q.idle) - 1}
    <2>1. Len(q.idle) - 1 = n - 2
      BY <1>1, <1>4, <1>5
    <2>2. 1 .. n - 2 \subseteq 1 .. n - 1 /\ k \in 1 .. n /\ 1 .. n - 1 \subseteq 1 .. n
      BY <1>1, <1>3
    <2>3. ASSUME NEW i \in 1 .. n - 2 PROVE d[i] \in unused \ {w}
      <3>1. At(i) \in 1 .. n - 1 /\ At(i) \in 1 .. n /\ At(i) # k /\ d[i] = idle[At(i)]
        BY <1>7, <2>2
      <3>2. idle[At(i)] # idle[k]
        BY <1>2, <2>2, <3>1
      <3> QED BY <1>2, <1>3, <3>1, <3>2
    <2>4. ASSUME NEW v \in unused \ {w} PROVE \E i \in 1 .. n - 2 : d[i] = v
      <3>1. PICK i \in 1 .. n - 1 : idle[i] = v
        BY <1>2
      <3>2. i # k
        BY <1>3, <3>1
      <3> QED BY <1>8, <3>1, <3>2
    <2> QED BY <1>5, <2>1, <2>3, <2>4
  <1>11. \A i, j \in 1 .. Len(q.idle) : q.idle[i] = q.idle[j] => i = j
    <2> SUFFICES ASSUME NEW i \in 1 .. n - 1, NEW j \in 1 .. n - 1, d[i] = d[j]
                 PROVE  i = j
      BY <1>4, <1>5
    <2>1. idle[At(i)] = idle[At(j)] /\ At(i) \in 1 .. n /\ At(j) \in 1 .. n
      BY <1>7
    <2> QED BY <1>2, <1>7, <2>1
  <1>12. worker'[w] = FreshWorker /\ \A v \in Ids \ {w} : worker'[v] = worker[v]
    BY <1>1
  <1>13. GoodPool(q, worker')
    <2>1. q.failures <= workload.max_failures
      BY <1>1, <1>5
    <2>2. \A v \in Ids : OnStack(q, v) => v \in q.workers /\ worker'[v].pc \in {"wait", "get_work"}
      BY <1>1, <1>5, <1>9, <1>12 DEF GoodPool
    <2>3. \A v \in q.workers : worker'[v].pc = "wait" => v \in q.event \/ OnStack(q, v)
      BY <1>1, <1>5, <1>9, <1>12 DEF GoodPool
    <2>4. \A v \in Ids \ q.workers : worker'[v] = FreshWorker
      BY <1>1, <1>5, <1>12 DEF GoodPool
    <2> QED BY <1>5, <1>10, <1>11, <2>1, <2>2, <2>3, <2>4 DEF GoodPool
  <1>14. idle[n] \in workers /\ idle[n] # w
    <2>1. n \in 1 .. n /\ k \in 1 .. n /\ k # n
      BY <1>1, <1>3
    <2>2. idle[n] \in Ids
      BY <1>1, <2>1
    <2>3. OnStack(Pool, idle[n])
      BY <1>1, <2>1 DEF OnStack
    <2> QED BY <1>1, <1>2, <1>3, <2>1, <2>2, <2>3 DEF GoodPool
  <1> QED BY <1>6, <1>13, <1>14, GoodBecomes

\* A worker that has been unused for long leaves.
LEMMA CleanUpStep ==
    ASSUME PoolInv, NEW w \in Ids, CleansUp(w)
    PROVE  PoolInv'
  <1>1. /\ worker[w].pc = "get_work" /\ w \in unused
        /\ workers' = workers \ {w} /\ idle' = RemoveFirst(idle, w)
        /\ unused' = unused \ {w} /\ event' = event \ {w}
        /\ worker' = [worker EXCEPT ![w] = FreshWorker]
        /\ UNCHANGED <<failures, queue, transaction, counts, num_wake_ups, adjusting,
                       poster, program>>
    BY DEF CleansUp, CanCleanup
  <1>2. PoolIsGood' /\ workers' # {} /\ workers # {}
    BY <1>1, CleanUpPool DEF program
  <1>3. /\ worker[w].seq = None /\ worker[w].scope = "none" /\ worker[w].background = FALSE
        /\ worker[w].incremented = FALSE /\ worker[w].may_block = "null"
    BY <1>1, WorkerFacts DEF Shaped, Scoped, Running
  <1>4. Shaped(FreshWorker)
    BY FreshFields DEF Shaped, Scoped, Running
  <1>5. worker' \in [Ids -> Worker] /\ Delegates' /\ Work' /\ MaxCounted' /\ TasksCounted'
    BY <1>1, <1>2, <1>3, <1>4, FreshFields, WalkInv DEF Looking, Tasked
  <1>6. Typed'
    BY <1>1, <1>5 DEF PoolInv, Typed, adjusting, program
  <1> QED BY <1>2, <1>5, <1>6 DEF PoolInv

\* Nothing but the pool changes, and the workers stay where they are.
LEMMA SameWorkers ==
    ASSUME PoolInv, worker' = worker, workers' = {} <=> workers = {},
           \A s \in Seqs : poster'[s] = "post" => poster[s] = "post",
           UNCHANGED <<queue, transaction, counts, program>>
    PROVE  Delegates' /\ Work' /\ MaxCounted' /\ TasksCounted'
  <1>1. Delegates'
    BY DEF PoolInv, Delegates
  <1>2. \A v \in Ids : worker[v].seq \in Seqs \cup {None}
    BY WorkerFacts
  <1>3. SequencesApart' /\ TasksLeft'
    BY <1>2, SeqsFrame DEF PoolInv, Typed, program
  <1>4. Transactions'
    BY TransactionFrame DEF PoolInv
  <1>5. MaxCounted'
    BY MaxFrame DEF PoolInv, counts, program
  <1>6. TasksCounted'
    BY TasksFrame DEF PoolInv, counts
  <1> QED BY <1>1, <1>3, <1>4, <1>5, <1>6 DEF Work

\* Neither the pool nor a worker changes.
LEMMA SamePool ==
    ASSUME PoolInv, UNCHANGED <<pool, worker, workload>>
    PROVE  PoolIsGood'
  <1>1. GoodPool(Pool, worker') /\ PoolBecomes(Pool)
    BY PoolVariables DEF PoolInv, PoolBecomes, pool
  <1> QED BY <1>1, GoodBecomes

\* The steps of a thread that posts a sequence.
LEMMA PosterInv ==
    ASSUME PoolInv, NEW s \in Seqs, PosterStep(s)
    PROVE  PoolInv'
  <1>0. /\ poster \in [Seqs -> {"post", "wake", "adjust", "done"}] /\ queue \subseteq Seqs
        /\ polling \in BOOLEAN /\ num_wake_ups \in Nat
    BY DEF PoolInv, Typed
  <1>1. CASE PushSequence(s)
    <2>1. /\ poster[s] = "post" /\ transaction = None /\ queue' = queue \cup {s}
          /\ poster' = [poster EXCEPT ![s] = "wake"]
          /\ UNCHANGED <<pool, transaction, counts, num_wake_ups, adjusting, worker, program>>
      BY <1>1 DEF PushSequence
    <2>2. poster'[s] = "wake" /\ \A t \in Seqs \ {s} : poster'[t] = poster[t]
      BY <1>0, <2>1
    <2>3. Transactions'
      <3>1. \A v \in Ids : worker[v].pc \notin Looking
        BY <2>1, NobodyLooks DEF PoolInv
      <3>2. \A v \in Ids : v # None
        BY SeqsAssumption DEF Ids
      <3> QED BY <2>1, <3>1, <3>2 DEF Transactions, Looking
    <2>4. SequencesApart'
      <3>1. SequencesApart /\ \A v \in Ids : worker[v].seq \in Seqs \cup {None}
        BY WorkerFacts DEF PoolInv, Work
      <3> QED BY <1>0, <2>1, <2>2, <3>1 DEF SequencesApart
    <2>5. TasksLeft'
      BY <1>0, <2>1, <2>2 DEF PoolInv, Work, TasksLeft, program
    <2>6. Delegates'
      BY <2>1 DEF PoolInv, Delegates
    <2>7. MaxCounted' /\ TasksCounted'
      <3>1. workers' = workers /\ UNCHANGED <<worker, counts, workload>>
        BY <2>1 DEF pool, program
      <3> QED BY <3>1, MaxFrame, TasksFrame DEF PoolInv, counts
    <2>8. PoolIsGood'
      BY <2>1, SamePool DEF program
    <2>9. Typed'
      BY <1>0, <2>1 DEF PoolInv, Typed, adjusting, program
    <2> QED BY <2>3, <2>4, <2>5, <2>6, <2>7, <2>8, <2>9 DEF PoolInv, Work
  <1>2. CASE WakeUpBeforeStart(s)
    <2>1. /\ num_wake_ups' = num_wake_ups + 1
          /\ poster' = [poster EXCEPT ![s] = "done"]
          /\ UNCHANGED <<pool, queue, transaction, counts, adjusting, worker, program>>
      BY <1>2 DEF WakeUpBeforeStart
    <2>2. \A t \in Seqs : poster'[t] = "post" => poster[t] = "post"
      BY <1>0, <2>1
    <2>3. Delegates' /\ Work' /\ MaxCounted' /\ TasksCounted'
      BY <2>1, <2>2, SameWorkers DEF pool
    <2>4. PoolIsGood'
      BY <2>1, SamePool DEF program
    <2>5. Typed'
      BY <1>0, <2>1 DEF PoolInv, Typed, adjusting, program
    <2> QED BY <2>3, <2>4, <2>5 DEF PoolInv
  <1>3. CASE WakeUpOneWorker(s)
    <2>1. /\ workers # {}
          /\ \E p \in WakeUpOneWorkerLockRequired(Pool, max_tasks) : PoolBecomes(p)
          /\ poster' = [poster EXCEPT ![s] = "adjust"]
          /\ UNCHANGED <<queue, transaction, counts, num_wake_ups, adjusting, worker, program>>
      BY <1>3 DEF WakeUpOneWorker
    <2>2. PICK p \in WakeUpOneWorkerLockRequired(Pool, max_tasks) : PoolBecomes(p)
      BY <2>1
    <2>3. GoodPool(p, worker) /\ workers \subseteq p.workers
      <3>1. GoodPool(Pool, worker) /\ Pool.workers = workers
            /\ max_tasks \in Int /\ workload.max_failures \in Nat
        BY PoolVariables, InvTypes DEF PoolInv
      <3> QED BY <2>2, <3>1, WakeUpGood
    <2>4. PoolIsGood' /\ workers' # {}
      <3>1. GoodPool(p, worker')
        BY <2>1, <2>3
      <3> QED BY <2>1, <2>2, <2>3, <3>1, GoodBecomes DEF PoolBecomes, program
    <2>5. \A t \in Seqs : poster'[t] = "post" => poster[t] = "post"
      BY <1>0, <2>1
    <2>6. Delegates' /\ Work' /\ MaxCounted' /\ TasksCounted'
      BY <2>1, <2>4, <2>5, SameWorkers
    <2>7. Typed'
      BY <1>0, <2>1 DEF PoolInv, Typed, adjusting, program
    <2> QED BY <2>4, <2>6, <2>7 DEF PoolInv
  <1>4. CASE PosterSchedulesAdjust(s)
    <2>1. /\ poster' = [poster EXCEPT ![s] = "done"] /\ polling' \in BOOLEAN
          /\ UNCHANGED <<pool, queue, transaction, counts, num_wake_ups, service, program, worker>>
      BY <1>0, <1>4 DEF PosterSchedulesAdjust, ScheduleAdjustMaxTasksIfNeeded
    <2>2. \A t \in Seqs : poster'[t] = "post" => poster[t] = "post"
      BY <1>0, <2>1
    <2>3. Delegates' /\ Work' /\ MaxCounted' /\ TasksCounted'
      BY <2>1, <2>2, SameWorkers DEF pool
    <2>4. PoolIsGood'
      BY <2>1, SamePool DEF program
    <2>5. Typed'
      BY <1>0, <2>1 DEF PoolInv, Typed, program
    <2> QED BY <2>3, <2>4, <2>5 DEF PoolInv
  <1> QED BY <1>1, <1>2, <1>3, <1>4 DEF PosterStep

\* The end of AdjustMaxTasksFunction.
LEMMA KeepPollingInv ==
    ASSUME PoolInv, KeepPolling
    PROVE  PoolInv'
  <1>1. /\ polling' \in BOOLEAN /\ service' = "idle"
        /\ UNCHANGED <<pool, queue, transaction, counts, num_wake_ups, worker, poster, program>>
    BY DEF KeepPolling, ShouldPeriodicallyAdjust
  <1>2. Delegates' /\ Work' /\ MaxCounted' /\ TasksCounted'
    BY <1>1, SameWorkers DEF pool
  <1>3. PoolIsGood'
    BY <1>1, SamePool DEF program
  <1>4. Typed'
    BY <1>1 DEF PoolInv, Typed, program
  <1> QED BY <1>2, <1>3, <1>4 DEF PoolInv

\* Of n workers that Start would create, those in failed are not: how many are
\* created, and how many of them are woken up for the k wake-ups counted so far.
LEMMA StartNumbers ==
    ASSUME NEW k \in Nat, NEW n \in Nat \ {0}, n <= k + 1, NEW failed \in SUBSET (2 .. n)
    PROVE  /\ Cardinality(failed) \in Nat /\ Cardinality(failed) <= n - 1
           /\ Cardinality(1 .. n - Cardinality(failed)) = n - Cardinality(failed)
           /\ Min({n, k}) - Cardinality(failed \cap 1 .. k) =
                IF n > k /\ n \notin failed THEN n - Cardinality(failed) - 1
                ELSE n - Cardinality(failed)
  <1> DEFINE c == Cardinality(failed)
             m == Min({n, k})
             l == Cardinality(failed \cap 1 .. k)
  <1>1. m \in {n, k} /\ m <= n /\ m <= k
    <2>1. {n, k} \subseteq Nat /\ {n, k} # {}
      OBVIOUS
    <2> HIDE DEF m
    <2>2. m = Min({n, k})
      BY DEF m
    <2> QED BY <2>1, <2>2, MinFacts
  <1>2. /\ IsFiniteSet(failed) /\ c \in Nat /\ c <= n - 1
    <2>1. IsFiniteSet(2 .. n) /\ Cardinality(2 .. n) = n - 1
      BY FS_Interval
    <2>2. IsFiniteSet(failed) /\ Cardinality(failed) <= Cardinality(2 .. n)
      BY <2>1, FS_Subset
    <2> QED BY <2>1, <2>2, FS_CardinalityType
  <1>3. \A x \in failed : x \in Nat /\ x >= 2 /\ x <= n
    OBVIOUS
  <1>4. m - l = IF n > k /\ n \notin failed THEN n - c - 1 ELSE n - c
    <2> HIDE DEF m, c
    <2>1. CASE n > k
      <3>1. n = k + 1 /\ m = k
        BY <1>1, <2>1
      <3>2. failed \cap 1 .. k = failed \ {n}
        <4>1. \A x \in failed : x \in 1 .. k <=> x # n
          BY <1>3, <3>1
        <4> QED BY <4>1
      <3>3. l = IF n \in failed THEN c - 1 ELSE c
        BY <1>2, <3>2, FS_RemoveElement DEF c
      <3> HIDE DEF l
      <3> QED BY <1>2, <2>1, <3>1, <3>3
    <2>2. CASE ~(n > k)
      <3>1. m = n
        BY <1>1, <2>2
      <3>2. failed \cap 1 .. k = failed
        <4>1. \A x \in failed : x \in 1 .. k
          BY <1>3, <2>2
        <4> QED BY <4>1
      <3>3. l = c
        BY <3>2 DEF c
      <3> HIDE DEF l
      <3> QED BY <1>2, <2>2, <3>1, <3>3
    <2> QED BY <2>1, <2>2
  <1>5. Cardinality(1 .. n - c) = n - c
    <2> HIDE DEF c
    <2> QED BY <1>2, FS_Interval
  <1> QED BY <1>2, <1>4, <1>5

\* Start creates the first worker, and every worker it creates is on the stack,
\* if it is to stand by, or woken up, whichever of the others cannot be created.
LEMMA StartPool ==
    ASSUME PoolInv, workers = {}, NEW size \in Ids, NEW woken \in Nat, NEW standby,
           IF standby THEN woken = size - 1 ELSE woken = size,
           workers' = 1 .. size, event' = 1 .. woken,
           idle' = IF standby THEN <<size>> ELSE <<>>,
           failures' \in Nat, failures' <= workload.max_failures,
           UNCHANGED <<unused, worker, workload>>
    PROVE  PoolIsGood' /\ workers' # {}
  <1>0. size \in Nat /\ size >= 1 /\ 1 .. size \subseteq Ids /\ 1 .. woken \subseteq Ids
        /\ size \in 1 .. size
    BY PoolAssumption DEF Ids
  <1>1. /\ GoodPool(Pool, worker)
        /\ Pool.workers = {} /\ Pool.idle = idle /\ Pool.unused = unused
        /\ idle \in Seq(Ids) /\ failures \in Nat
    BY PoolVariables DEF PoolInv
  <1>2. unused = {}
    <2>1. \A v \in Ids : ~OnStack(Pool, v)
      BY <1>1 DEF GoodPool
    <2>2. \A i \in 1 .. Len(idle) : FALSE
      BY <1>1, <2>1 DEF OnStack
    <2>3. Len(idle) \in Nat /\ unused = {idle[i] : i \in 1 .. Len(idle) - 1}
      BY <1>1 DEF GoodPool
    <2>4. \A i \in 1 .. Len(idle) - 1 : i \in 1 .. Len(idle)
      BY <2>3
    <2> QED BY <2>2, <2>3, <2>4
  <1>3. \A v \in Ids : worker[v] = FreshWorker
    BY <1>1 DEF GoodPool
  <1>4. PICK stack, f : stack = idle' /\ f = failures'
    OBVIOUS
  <1>5. /\ stack \in Seq(Ids) /\ Len(stack) \in {0, 1}
        /\ \A i \in 1 .. Len(stack) : i = 1
        /\ \A v : (\E i \in 1 .. Len(stack) : stack[i] = v) <=> standby /\ v = size
    <2>1. CASE standby
      <3>1. stack = <<size>>
        BY <1>4, <2>1
      <3>2. stack \in Seq(Ids) /\ Len(stack) = 1 /\ stack[1] = size
        BY <3>1
      <3>3. \A i \in 1 .. Len(stack) : i = 1
        BY <3>2
      <3>4. 1 \in 1 .. Len(stack)
        BY <3>2
      <3> QED BY <2>1, <3>2, <3>3, <3>4
    <2>2. CASE ~standby
      <3>1. stack = <<>>
        BY <1>4, <2>2
      <3>2. stack \in Seq(Ids) /\ Len(stack) = 0
        BY <3>1
      <3>3. \A i \in 1 .. Len(stack) : FALSE
        BY <3>2
      <3> QED BY <2>2, <3>2, <3>3
    <2> QED BY <2>1, <2>2
  <1> DEFINE q == [workers |-> 1 .. size, idle |-> stack, unused |-> {},
                   event |-> 1 .. woken, failures |-> f]
  <1>6. PoolBecomes(q)
    BY <1>2, <1>4 DEF PoolBecomes
  <1>7. /\ q \in PoolRecord /\ q.workers = 1 .. size /\ q.idle = stack /\ q.unused = {}
        /\ q.event = 1 .. woken /\ q.failures = f
    BY <1>0, <1>4, <1>5 DEF PoolRecord
  <1> HIDE DEF q
  <1>8. \A v : OnStack(q, v) <=> standby /\ v = size
    BY <1>5, <1>7 DEF OnStack
  <1>9. GoodPool(q, worker')
    <2>1. q.failures <= workload.max_failures
      BY <1>4, <1>7
    <2>2. q.unused = {q.idle[i] : i \in 1 .. Len(q.idle) - 1}
      <3>1. \A i \in 1 .. Len(stack) - 1 : FALSE
        BY <1>5
      <3> QED BY <1>7, <3>1
    <2>3. \A i, j \in 1 .. Len(q.idle) : q.idle[i] = q.idle[j] => i = j
      BY <1>5, <1>7
    <2>4. \A v \in Ids : OnStack(q, v) => v \in q.workers /\ worker'[v].pc \in {"wait", "get_work"}
      BY <1>0, <1>3, <1>7, <1>8, FreshFields
    <2>5. \A v \in q.workers : worker'[v].pc = "wait" => v \in q.event \/ OnStack(q, v)
      <3>1. \A v \in 1 .. size : v \in 1 .. woken \/ (standby /\ v = size)
        BY <1>0
      <3> QED BY <1>7, <1>8, <3>1
    <2>6. \A v \in Ids \ q.workers : worker'[v] = FreshWorker
      BY <1>3
    <2> QED BY <1>7, <2>1, <2>2, <2>3, <2>4, <2>5, <2>6 DEF GoodPool
  <1> QED BY <1>0, <1>6, <1>9, GoodBecomes

\* Start keeps the invariant.
LEMMA StartInv ==
    ASSUME PoolInv, Start
    PROVE  PoolInv'
  <1> DEFINE n == Min({num_wake_ups + 1, workload.max_tasks})
  <1>1. PICK failed \in SUBSET (2 .. n) :
        /\ failures + Cardinality(failed) <= workload.max_failures
        /\ failures' = failures + Cardinality(failed)
        /\ workers' = 1 .. n - Cardinality(failed)
        /\ event' = WokenAtStart(n, failed)
        /\ idle' = IF n > num_wake_ups /\ n \notin failed
                   THEN <<Cardinality(workers')>> ELSE <<>>
    BY DEF Start
  <1>2. /\ workers = {}
        /\ max_tasks' = workload.max_tasks /\ max_background' = workload.max_background
        /\ UNCHANGED <<unused, queue, transaction, num_background, num_pending,
                       num_pending_background, num_wake_ups, adjusting, worker, poster,
                       program>>
    BY DEF Start
  <1>3. PoolIsGood' /\ workers' # {}
    <2>1. /\ num_wake_ups \in Nat /\ workload.max_tasks \in 1 .. kMaxNumberOfWorkers
          /\ kMaxNumberOfWorkers \in Nat
      <3>1. workload \in [tasks : [Seqs -> Nat], max_tasks : 1 .. kMaxNumberOfWorkers,
                          max_background : Nat \ {0}, max_failures : Nat]
        BY PoolAssumption DEF PoolInv, Typed
      <3> QED BY <3>1, PoolAssumption DEF PoolInv, Typed
    <2>2. n \in Nat \ {0} /\ n <= kMaxNumberOfWorkers /\ n <= num_wake_ups + 1
      <3> DEFINE S == {num_wake_ups + 1, workload.max_tasks}
      <3>1. S \subseteq Nat /\ S # {}
        BY <2>1
      <3>2. Min(S) \in S /\ \A y \in S : Min(S) <= y
        <4> HIDE DEF S
        <4> QED BY <3>1, MinFacts
      <3> QED BY <2>1, <3>2
    <2> HIDE DEF n
    <2> DEFINE c == Cardinality(failed)
               e == Min({n, num_wake_ups}) - Cardinality(failed \cap 1 .. num_wake_ups)
               b == n > num_wake_ups /\ n \notin failed
    <2>3. /\ c \in Nat /\ c <= n - 1 /\ Cardinality(1 .. n - c) = n - c
          /\ e = IF b THEN n - c - 1 ELSE n - c
      BY <2>1, <2>2, StartNumbers
    <2>4. event' = 1 .. e /\ workers' = 1 .. n - c /\ failures' = failures + c
          /\ failures + c <= workload.max_failures
      BY <1>1 DEF WokenAtStart
    <2>5. idle' = IF b THEN <<n - c>> ELSE <<>>
      BY <1>1, <2>3, <2>4
    <2> HIDE DEF c, e, b
    <2>6. /\ n - c \in Ids /\ e \in Nat /\ IF b THEN e = (n - c) - 1 ELSE e = n - c
      BY <2>1, <2>2, <2>3 DEF Ids
    <2>7. failures' \in Nat /\ failures' <= workload.max_failures
      BY <2>3, <2>4, PoolVariables DEF PoolInv
    <2> QED BY <1>2, <2>4, <2>5, <2>6, <2>7, StartPool DEF program
  <1>4. Delegates'
    BY <1>2 DEF PoolInv, Delegates
  <1>5. Work'
    <2>1. \A v \in Ids : worker[v].seq \in Seqs \cup {None}
      BY WorkerFacts
    <2>2. SequencesApart' /\ TasksLeft'
      BY <1>2, <2>1, SeqsFrame DEF PoolInv, Typed, program
    <2>3. Transactions'
      BY <1>2, TransactionFrame DEF PoolInv
    <2> QED BY <2>2, <2>3 DEF Work
  <1>6. TasksCounted'
    BY <1>2, TasksFrame DEF PoolInv
  <1>7. MaxCounted'
    <2>1. \A v \in Ids : worker[v] = FreshWorker
      BY <1>2, PoolVariables DEF PoolInv, GoodPool
    <2>2. Incremented' = {} /\ (Incremented \cap InBackground)' = {}
      BY <1>2, <2>1, FreshFields DEF Incremented
    <2>3. Cardinality(Incremented') = 0 /\ Cardinality((Incremented \cap InBackground)') = 0
      BY <2>2, FS_EmptySet
    <2>4. workload.max_tasks \in Nat /\ workload.max_background \in Nat
      BY InvTypes DEF PoolInv
    <2> QED BY <1>2, <1>3, <2>3, <2>4 DEF MaxCounted, program
  <1>8. Typed'
    BY <1>2 DEF PoolInv, Typed, adjusting, program
  <1> QED BY <1>3, <1>4, <1>5, <1>6, <1>7, <1>8 DEF PoolInv

\* AdjustMaxTasks counts pending workers, makes the others old, and moves nobody.
LEMMA Adjusted ==
    ASSUME PoolInv, NEW counted, counted \subseteq {v \in workers : worker[v].may_block # "null"},
           worker' = [w \in Ids |->
             CASE w \in counted ->
                    [worker[w] EXCEPT !.incremented = TRUE, !.may_block = "null"]
               [] w \in {v \in workers : worker[v].may_block # "null"} \ counted ->
                    [worker[w] EXCEPT !.may_block = "old"]
               [] OTHER -> worker[w]]
    PROVE  /\ worker' \in [Ids -> Worker]
           /\ counted \subseteq Pending /\ Pending \subseteq workers
           /\ \A w \in Ids :
                /\ worker'[w].pc = worker[w].pc /\ worker'[w].seq = worker[w].seq
                /\ worker'[w].scope = worker[w].scope
                /\ worker'[w].background = worker[w].background
                /\ worker'[w].incremented = IF w \in counted THEN TRUE ELSE worker[w].incremented
                /\ worker'[w].may_block =
                     IF w \in counted THEN "null"
                     ELSE IF w \in Pending THEN "old" ELSE "null"
           /\ \A w \in Ids \ workers : worker'[w] = worker[w]
  <1>1. workers \subseteq Ids /\ GoodPool(Pool, worker) /\ Pool.workers = workers
    BY PoolVariables DEF PoolInv
  <1>2. \A w \in Ids \ workers : worker[w].may_block = "null"
    BY <1>1, FreshFields DEF GoodPool
  <1>3. Pending = {v \in workers : worker[v].may_block # "null"}
    BY <1>1, <1>2 DEF Pending
  <1>4. ASSUME NEW w \in Ids
        PROVE  /\ worker'[w] \in Worker
               /\ worker'[w].pc = worker[w].pc /\ worker'[w].seq = worker[w].seq
               /\ worker'[w].scope = worker[w].scope
               /\ worker'[w].background = worker[w].background
               /\ worker'[w].incremented = IF w \in counted THEN TRUE ELSE worker[w].incremented
               /\ worker'[w].may_block =
                    IF w \in counted THEN "null"
                    ELSE IF w \in Pending THEN "old" ELSE "null"
               /\ w \notin workers => worker'[w] = worker[w]
    <2>0. worker[w] \in Worker
      BY DEF PoolInv, Typed
    <2>1. CASE w \in counted
      <3>1. worker'[w] = [worker[w] EXCEPT !.incremented = TRUE, !.may_block = "null"]
        BY <2>1
      <3>2. /\ worker'[w] \in Worker
            /\ worker'[w].pc = worker[w].pc /\ worker'[w].seq = worker[w].seq
            /\ worker'[w].scope = worker[w].scope
            /\ worker'[w].background = worker[w].background
            /\ worker'[w].incremented = TRUE /\ worker'[w].may_block = "null"
        BY <2>0, <3>1 DEF Worker
      <3> QED BY <2>1, <3>2
    <2>2. CASE w \notin counted /\ w \in Pending
      <3>1. worker'[w] = [worker[w] EXCEPT !.may_block = "old"]
        BY <1>3, <2>2
      <3>2. /\ worker'[w] \in Worker
            /\ worker'[w].pc = worker[w].pc /\ worker'[w].seq = worker[w].seq
            /\ worker'[w].scope = worker[w].scope
            /\ worker'[w].background = worker[w].background
            /\ worker'[w].incremented = worker[w].incremented /\ worker'[w].may_block = "old"
        BY <2>0, <3>1 DEF Worker
      <3> QED BY <1>3, <2>2, <3>2
    <2>3. CASE w \notin counted /\ w \notin Pending
      <3>1. worker'[w] = worker[w]
        BY <1>3, <2>3
      <3>2. worker[w].may_block = "null"
        BY <2>3 DEF Pending
      <3> QED BY <2>0, <2>3, <3>1, <3>2
    <2> QED BY <2>1, <2>2, <2>3
  <1>5. worker' \in [Ids -> Worker]
    <2>1. worker' = [w \in Ids |-> worker'[w]]
      OBVIOUS
    <2>2. \A w \in Ids : worker'[w] \in Worker
      BY <1>4
    <2> QED BY <2>1, <2>2, Zenon
  <1> QED BY <1>3, <1>4, <1>5

\* The pool grows or wakes up workers while all of them stay where they are.
LEMMA PoolGrowsAround ==
    ASSUME PoolInv, NEW p, GoodPool(p, worker), workers \subseteq p.workers,
           \A v \in Ids : worker'[v].pc = worker[v].pc,
           \A v \in Ids \ workers : worker'[v] = worker[v],
           PoolBecomes(p), workload' = workload
    PROVE  PoolIsGood' /\ workers \subseteq workers'
  <1>1. p.workers \subseteq Ids
    BY PoolFields DEF GoodPool
  <1>2. \A v \in Ids : OnStack(p, v) => worker[v].pc \in {"wait", "get_work"}
    BY DEF GoodPool
  <1>3. \A v \in Ids \ p.workers : worker'[v] = worker[v]
    OBVIOUS
  <1>4. \A v \in p.workers : worker'[v].pc = "wait" => worker[v].pc = "wait" \/ OnStack(p, v)
    BY <1>1
  <1>5. \A v \in Ids : OnStack(p, v) => worker'[v].pc \in {"wait", "get_work"}
    BY <1>2
  <1>6. GoodPool(p, worker')
    BY <1>3, <1>4, <1>5, GoodFrame
  <1> QED BY <1>6, GoodBecomes DEF PoolBecomes

\* AdjustMaxTasks of a pool that has started keeps it too.
LEMMA AdjustInv ==
    ASSUME PoolInv, workers # {}, AdjustMaxTasks
    PROVE  PoolInv'
  <1> DEFINE pending == {v \in workers : worker[v].may_block # "null"}
  <1>1. /\ service' = "check"
        /\ UNCHANGED <<queue, transaction, num_background, num_wake_ups, polling, poster,
                       program>>
    BY DEF AdjustMaxTasks
  <1>2. PICK counted \in SUBSET pending :
        /\ IncrementMaxTasks(counted)
        /\ num_pending' = num_pending - Cardinality(counted)
        /\ num_pending_background' = num_pending_background
             - Cardinality({w \in counted : worker[w].background})
        /\ worker' = [w \in Ids |->
             CASE w \in counted ->
                    [worker[w] EXCEPT !.incremented = TRUE, !.may_block = "null"]
               [] w \in pending \ counted -> [worker[w] EXCEPT !.may_block = "old"]
               [] OTHER -> worker[w]]
        /\ \E p \in WakeUpWorkers(Pool, max_tasks + Cardinality(counted),
                                  Min({Cardinality(counted), Cardinality(queue)})) :
             \E q \in MaintainAtLeastOneIdleWorker(p, max_tasks + Cardinality(counted)) :
               PoolBecomes(q)
    BY DEF AdjustMaxTasks
  <1>3. /\ worker' \in [Ids -> Worker]
        /\ counted \subseteq Pending /\ Pending \subseteq workers
        /\ \A w \in Ids :
             /\ worker'[w].pc = worker[w].pc /\ worker'[w].seq = worker[w].seq
             /\ worker'[w].scope = worker[w].scope
             /\ worker'[w].background = worker[w].background
             /\ worker'[w].incremented = IF w \in counted THEN TRUE ELSE worker[w].incremented
             /\ worker'[w].may_block =
                  IF w \in counted THEN "null"
                  ELSE IF w \in Pending THEN "old" ELSE "null"
        /\ \A w \in Ids \ workers : worker'[w] = worker[w]
    <2>1. counted \subseteq {v \in workers : worker[v].may_block # "null"}
      OBVIOUS
    <2> HIDE DEF pending
    <2>2. worker' = [w \in Ids |->
             CASE w \in counted ->
                    [worker[w] EXCEPT !.incremented = TRUE, !.may_block = "null"]
               [] w \in {v \in workers : worker[v].may_block # "null"} \ counted ->
                    [worker[w] EXCEPT !.may_block = "old"]
               [] OTHER -> worker[w]]
      BY <1>2 DEF pending
    <2> QED BY <2>1, <2>2, Adjusted
  <1> HIDE DEF pending
  <1>4. counted \subseteq Ids /\ IsFiniteSet(counted) /\ Cardinality(counted) \in Nat
    <2>1. counted \subseteq Ids
      BY <1>3, PoolVariables DEF PoolInv
    <2> QED BY <2>1, FiniteIds
  <1>5. Delegates'
    <2> SUFFICES ASSUME NEW w \in Ids PROVE Shaped(worker'[w])
      BY DEF Delegates
    <2>0. Shaped(worker[w]) /\ worker[w].incremented \in BOOLEAN /\ worker'[w].incremented \in BOOLEAN
      BY <1>3, WorkerFacts, WorkerFields
    <2>1. CASE w \in Pending
      <3>1. worker[w].may_block # "null"
        BY <2>1 DEF Pending
      <3>2. worker[w].scope = "may" /\ ~worker[w].incremented /\ worker[w].pc # "will_block"
        <4>1. worker[w].scope \in {"none", "may", "will", "over"}
          BY WorkerFacts, WorkerFields
        <4> QED BY <2>0, <3>1, <4>1 DEF Shaped, Scoped
      <3>3. worker'[w].incremented <=> worker'[w].may_block = "null"
        BY <1>3, <2>1, <3>2
      <3> QED BY <1>3, <2>0, <3>2, <3>3 DEF Shaped, Scoped
    <2>2. CASE w \notin Pending
      <3>1. worker'[w].may_block = "null" /\ worker[w].may_block = "null"
            /\ worker'[w].incremented = worker[w].incremented
        BY <1>3, <2>2 DEF Pending
      <3> QED BY <1>3, <2>0, <3>1 DEF Shaped, Scoped
    <2> QED BY <2>1, <2>2
  <1>6. Work'
    <2>1. \A v \in Ids : worker[v].seq \in Seqs \cup {None}
      BY WorkerFacts
    <2>2. SequencesApart' /\ TasksLeft'
      BY <1>1, <1>3, <2>1, SeqsFrame DEF PoolInv, Typed, program
    <2>3. Transactions'
      BY <1>1, <1>3, TransactionFrame DEF PoolInv
    <2> QED BY <2>2, <2>3 DEF Work
  <1>7. PoolIsGood' /\ workers' # {}
    <2>1. PICK p \in WakeUpWorkers(Pool, max_tasks + Cardinality(counted),
                                   Min({Cardinality(counted), Cardinality(queue)})) :
          \E q \in MaintainAtLeastOneIdleWorker(p, max_tasks + Cardinality(counted)) :
             PoolBecomes(q)
      BY <1>2
    <2>2. PICK q \in MaintainAtLeastOneIdleWorker(p, max_tasks + Cardinality(counted)) :
             PoolBecomes(q)
      BY <2>1
    <2>3. /\ GoodPool(Pool, worker) /\ Pool.workers = workers
          /\ max_tasks + Cardinality(counted) \in Int /\ workload.max_failures \in Nat
      BY <1>4, PoolVariables, InvTypes DEF PoolInv
    <2>4. Min({Cardinality(counted), Cardinality(queue)}) \in Nat
      <3> DEFINE S == {Cardinality(counted), Cardinality(queue)}
      <3>1. IsFiniteSet(queue)
        BY SeqsAssumption, FS_Subset DEF PoolInv, Typed
      <3>2. S \subseteq Nat /\ S # {}
        BY <1>4, <3>1, FS_CardinalityType
      <3> HIDE DEF S
      <3>3. Min(S) \in Nat
        BY <3>2, MinFacts
      <3> QED BY <3>3 DEF S
    <2>5. GoodPool(p, worker) /\ workers \subseteq p.workers
      BY <2>1, <2>3, <2>4, WakeUpsGood
    <2>6. GoodPool(q, worker) /\ workers \subseteq q.workers
      BY <2>2, <2>3, <2>5, MaintainGood
    <2>7. PoolIsGood' /\ workers \subseteq workers'
      BY <1>1, <1>3, <2>2, <2>6, PoolGrowsAround DEF program
    <2> QED BY <2>7
  <1>8. InBackground' = InBackground
    BY <1>3 DEF InBackground
  <1> DEFINE counted_background == counted \cap InBackground
  <1>9. {w \in counted : worker[w].background} = counted_background
    BY <1>4 DEF InBackground
  <1>10. IsFiniteSet(counted_background) /\ Cardinality(counted_background) \in Nat
    <2>1. counted_background \subseteq Ids
      BY <1>4
    <2> QED BY <2>1, FiniteIds
  <1>11. /\ Incremented' = Incremented \cup counted /\ Incremented \cap counted = {}
    <2>1. \A w \in counted : ~worker[w].incremented
      <3> SUFFICES ASSUME NEW w \in counted PROVE ~worker[w].incremented
        OBVIOUS
      <3>1. w \in Ids /\ worker[w].may_block # "null"
        BY <1>3, <1>4 DEF Pending
      <3>2. Shaped(worker[w]) /\ worker[w].scope \in {"none", "may", "will", "over"}
        BY <3>1, WorkerFacts, WorkerFields
      <3> QED BY <3>1, <3>2 DEF Shaped, Scoped
    <2> QED BY <1>3, <1>4, <2>1 DEF Incremented
  <1>12. Pending' = Pending \ counted
    BY <1>3 DEF Pending
  <1> HIDE DEF counted_background
  <1>13. /\ Cardinality(Incremented') = Cardinality(Incremented) + Cardinality(counted)
         /\ Cardinality(Pending') = Cardinality(Pending) - Cardinality(counted)
    <2>1. Cardinality(Incremented \cap counted) = 0
      BY <1>11, FS_EmptySet
    <2>2. Cardinality(Incremented \cup counted)
            = Cardinality(Incremented) + Cardinality(counted) - Cardinality(Incremented \cap counted)
      BY <1>4, FiniteCounts, FS_Union
    <2>3. Pending \cap counted = counted
      BY <1>3
    <2>4. Cardinality(Pending \ counted) = Cardinality(Pending) - Cardinality(Pending \cap counted)
      BY FiniteCounts, FS_Difference
    <2>5. Cardinality(Incremented \cup counted) = Cardinality(Incremented) + Cardinality(counted)
      BY <1>4, <2>1, <2>2, FiniteCounts
    <2>6. Cardinality(Pending \ counted) = Cardinality(Pending) - Cardinality(counted)
      BY <2>3, <2>4
    <2> QED BY <1>11, <1>12, <2>5, <2>6
  <1>14. /\ Cardinality((Incremented \cap InBackground)')
              = Cardinality(Incremented \cap InBackground) + Cardinality(counted_background)
         /\ Cardinality((Pending \cap InBackground)')
              = Cardinality(Pending \cap InBackground) - Cardinality(counted_background)
    <2> DEFINE I == Incremented \cap InBackground
               B == Pending \cap InBackground
    <2>1. (Incremented \cap InBackground)' = I \cup counted_background /\ I \cap counted_background = {}
      BY <1>8, <1>11 DEF counted_background
    <2>2. (Pending \cap InBackground)' = B \ counted_background /\ B \cap counted_background = counted_background
      BY <1>3, <1>8, <1>12 DEF counted_background
    <2>3. /\ IsFiniteSet(I) /\ IsFiniteSet(B) /\ Cardinality(I) \in Nat /\ Cardinality(B) \in Nat
      BY FiniteCounts
    <2> HIDE DEF I, B
    <2>4. Cardinality(I \cap counted_background) = 0
      BY <2>1, FS_EmptySet
    <2>5. Cardinality(I \cup counted_background)
            = Cardinality(I) + Cardinality(counted_background) - Cardinality(I \cap counted_background)
      BY <1>10, <2>3, FS_Union
    <2>6. Cardinality(B \ counted_background) = Cardinality(B) - Cardinality(B \cap counted_background)
      BY <2>3, FS_Difference
    <2>7. Cardinality(I \cup counted_background) = Cardinality(I) + Cardinality(counted_background)
      BY <1>10, <2>3, <2>4, <2>5
    <2>8. Cardinality(B \ counted_background) = Cardinality(B) - Cardinality(counted_background)
      BY <2>2, <2>6
    <2> QED BY <2>1, <2>2, <2>7, <2>8 DEF I, B
  <1>15. MaxCounted'
    <2>1. /\ max_tasks = workload.max_tasks + Cardinality(Incremented)
          /\ max_background = workload.max_background + Cardinality(Incremented \cap InBackground)
      BY DEF PoolInv, MaxCounted
    <2>2. /\ max_tasks' = max_tasks + Cardinality(counted)
          /\ max_background' = max_background + Cardinality(counted_background)
      BY <1>2, <1>9 DEF IncrementMaxTasks
    <2>3. workload.max_tasks \in Nat /\ workload.max_background \in Nat
      BY InvTypes DEF PoolInv
    <2>4. /\ max_tasks' = workload.max_tasks + Cardinality(Incremented')
          /\ max_background' = workload.max_background + Cardinality((Incremented \cap InBackground)')
      BY <1>4, <1>10, <1>13, <1>14, <2>1, <2>2, <2>3, FiniteCounts
    <2> QED BY <1>1, <1>7, <2>4 DEF MaxCounted, program
  <1>16. TasksCounted'
    BY <1>1, <1>2, <1>8, <1>9, <1>13, <1>14 DEF PoolInv, TasksCounted
  <1>17. Typed'
    BY <1>1, <1>3 DEF PoolInv, Typed, program
  <1> QED BY <1>5, <1>6, <1>7, <1>15, <1>16, <1>17 DEF PoolInv

------------------------------------------------------------------------------
(* The invariant is inductive                                                *)

\* Every step keeps PoolInv.
LEMMA PoolInvStep ==
    ASSUME IndInv, [Next]_vars
    PROVE  PoolInv'
  <1>0. PoolInv /\ (polling => workers # {})
    BY DEF IndInv, PollsOnceStarted
  <1>1. ASSUME NEW w \in Ids, WorkerStep(w) \/ MayHappen(w)
        PROVE  PoolInv'
    BY <1>0, <1>1, WalkStep, IdleStep, LookStep, PopStep, DidRunStep, ReEnqueueStep,
       MayBlockStep, UpgradeStep, WillBlockStep, BlockingEndedStep, CleanUpStep
       DEF WorkerStep, MayHappen
  <1>2. ASSUME NEW s \in Seqs, PosterStep(s)
        PROVE  PoolInv'
    BY <1>0, <1>2, PosterInv
  <1>3. CASE Start
    BY <1>0, <1>3, StartInv
  <1>4. CASE AdjustMaxTasks
    <2>1. workers # {}
      BY <1>0, <1>4 DEF AdjustMaxTasks
    <2> QED BY <1>0, <1>4, <2>1, AdjustInv
  <1>5. CASE KeepPolling
    BY <1>0, <1>5, KeepPollingInv
  <1>6. CASE UNCHANGED vars
    <2>1. UNCHANGED <<pool, queue, transaction, counts, num_wake_ups, adjusting, worker,
                      poster, program>>
      BY <1>6 DEF vars
    <2>2. Delegates' /\ Work' /\ MaxCounted' /\ TasksCounted'
      BY <1>0, <2>1, SameWorkers DEF pool
    <2>3. PoolIsGood'
      BY <1>0, <2>1, SamePool DEF program
    <2>4. Typed'
      BY <1>0, <2>1 DEF PoolInv, Typed, adjusting, program
    <2> QED BY <2>2, <2>3, <2>4 DEF PoolInv
  <1> QED BY <1>1, <1>2, <1>3, <1>4, <1>5, <1>6 DEF Next, ServiceStep

\* Nobody asks for an adjustment before the pool has started, as no task blocks.
LEMMA AdjustNeedsWorkers ==
    ASSUME PoolInv, ShouldPeriodicallyAdjust
    PROVE  workers # {}
  <1> SUFFICES ASSUME workers = {} PROVE FALSE
    OBVIOUS
  <1>1. \A v \in Ids : worker[v] = FreshWorker
    BY PoolVariables DEF PoolInv, GoodPool
  <1>2. Pending = {} /\ Pending \cap InBackground = {}
    BY <1>1, FreshFields DEF Pending
  <1>3. num_pending = 0 /\ num_pending_background = 0
    BY <1>2, FS_EmptySet DEF PoolInv, TasksCounted
  <1> QED BY <1>3 DEF ShouldPeriodicallyAdjust

\* A started pool stays started: max_tasks_ does not fall while workers come and
\* go, and where it falls they stay.
LEMMA StaysStarted ==
    ASSUME PoolInv, PoolInv', [Next]_vars, workers # {}
    PROVE  workers' # {}
  <1>1. max_tasks \in Nat /\ max_tasks > 0
    BY InvTypes DEF PoolInv
  <1>2. max_tasks' \in Nat /\ (max_tasks' > 0 <=> workers' # {})
    <2>1. ASSUME Typed', MaxCounted', TasksCounted', PoolIsGood'
          PROVE  max_tasks' \in Nat /\ (max_tasks' > 0 <=> workers' # {})
      <3>1. (/\ max_tasks \in Nat /\ max_background \in Nat /\ num_background \in Nat
             /\ num_pending \in Nat /\ num_pending_background \in Nat
             /\ workload.max_tasks \in Nat \ {0} /\ workload.max_background \in Nat \ {0}
             /\ workload.max_failures \in Nat
             /\ max_tasks > 0 <=> workers # {}
             /\ TypeOK)'
        BY <2>1, InvTypes, PTL
      <3> QED BY <3>1
    <2> QED BY <2>1 DEF PoolInv
  <1>3. workers' = workers \/ max_tasks' >= max_tasks
    <2>0. ASSUME NEW w \in Ids, WillBlockEntered(w)
          PROVE  max_tasks' >= max_tasks
      <3>1. IncrementMaxTasks({w})
        BY <2>0 DEF WillBlockEntered
      <3>2. max_tasks' = max_tasks + 1
        BY <3>1, FS_Singleton DEF IncrementMaxTasks
      <3> QED BY <1>1, <3>2
    <2>1. ASSUME NEW w \in Ids, WorkerStep(w)
          PROVE  workers' = workers \/ max_tasks' >= max_tasks
      <3>1. CASE WillBlockEntered(w)
        BY <2>0, <3>1
      <3>2. CASE ~WillBlockEntered(w)
        <4>1. max_tasks' = max_tasks
          BY <2>1, <3>2 DEF WorkerStep, WakesUp, StaysIdle, ExcessBecomesIdle, MayGetWork,
             PopsForeground, FindsNothing, FindsBackground, GoesIdle, PopsBackground,
             DidRunTask, ReEnqueueSequence, ResetEvent, WorkerSchedulesAdjust,
             ScheduleAdjustMaxTasksIfNeeded, counts
        <4> QED BY <1>1, <4>1
      <3> QED BY <3>1, <3>2
    <2>2. ASSUME NEW w \in Ids, MayHappen(w)
          PROVE  workers' = workers \/ max_tasks' >= max_tasks
      <3>1. CASE WillBlockEntered(w)
        BY <2>0, <3>1
      <3>2. CASE BlockingEnded(w) \/ BlockingTypeUpgraded(w) \/ MayBlockEntered(w)
        BY <3>2 DEF BlockingEnded, BlockingTypeUpgraded, MayBlockEntered, pool
      <3>3. CASE TimesOut(w) \/ CleansUp(w)
        BY <1>1, <3>3 DEF TimesOut, CleansUp, counts
      <3> QED BY <2>2, <3>1, <3>2, <3>3 DEF MayHappen
    <2>3. ASSUME NEW s \in Seqs, PosterStep(s)
          PROVE  workers' = workers \/ max_tasks' >= max_tasks
      BY <1>1, <2>3 DEF PosterStep, PushSequence, WakeUpBeforeStart, WakeUpOneWorker,
         PosterSchedulesAdjust, ScheduleAdjustMaxTasksIfNeeded, counts
    <2>4. CASE Start
      BY <2>4 DEF Start
    <2>5. CASE AdjustMaxTasks
      <3>1. PICK counted \in SUBSET {w \in workers : worker[w].may_block # "null"} :
              max_tasks' = max_tasks + Cardinality(counted)
        BY <2>5 DEF AdjustMaxTasks, IncrementMaxTasks
      <3>2. counted \subseteq Ids
        BY PoolVariables DEF PoolInv
      <3> QED BY <1>1, <3>1, <3>2, FiniteIds
    <2>6. CASE KeepPolling
      BY <1>1, <2>6 DEF KeepPolling, counts
    <2>7. CASE UNCHANGED vars
      BY <2>7 DEF vars, pool
    <2> QED BY <2>1, <2>2, <2>3, <2>4, <2>5, <2>6, <2>7 DEF Next, ServiceStep
  <1> QED BY <1>1, <1>2, <1>3

\* Every step keeps the whole invariant ...
LEMMA NextInv ==
    ASSUME IndInv, [Next]_vars
    PROVE  IndInv'
  <1>0. PoolInv /\ PoolInv' /\ polling \in BOOLEAN
    BY PoolInvStep DEF IndInv, PoolInv, Typed
  <1>1. polling' => polling \/ workers # {}
    <2> DEFINE Kept == polling' => polling \/ workers # {}
    <2>1. ASSUME NEW w \in Ids, WorkerStep(w) PROVE Kept
      <3>1. CASE WorkerSchedulesAdjust(w)
        BY <1>0, <3>1, AdjustNeedsWorkers DEF WorkerSchedulesAdjust, ScheduleAdjustMaxTasksIfNeeded
      <3>2. CASE ~WorkerSchedulesAdjust(w)
        BY <2>1, <3>2 DEF WorkerStep, WakesUp, StaysIdle, ExcessBecomesIdle, MayGetWork,
           PopsForeground, FindsNothing, FindsBackground, GoesIdle, PopsBackground,
           DidRunTask, ReEnqueueSequence, ResetEvent, WillBlockEntered, adjusting
      <3> QED BY <3>1, <3>2
    <2>2. ASSUME NEW w \in Ids, MayHappen(w) PROVE Kept
      BY <2>2 DEF MayHappen, TimesOut, CleansUp, MayBlockEntered, BlockingTypeUpgraded,
         WillBlockEntered, BlockingEnded, adjusting
    <2>3. ASSUME NEW s \in Seqs, PosterStep(s) PROVE Kept
      <3>1. CASE PosterSchedulesAdjust(s)
        BY <1>0, <3>1, AdjustNeedsWorkers DEF PosterSchedulesAdjust, ScheduleAdjustMaxTasksIfNeeded
      <3>2. CASE ~PosterSchedulesAdjust(s)
        BY <2>3, <3>2 DEF PosterStep, PushSequence, WakeUpBeforeStart, WakeUpOneWorker, adjusting
      <3> QED BY <3>1, <3>2
    <2>4. CASE Start
      BY <2>4 DEF Start, adjusting
    <2>5. CASE AdjustMaxTasks
      BY <2>5 DEF AdjustMaxTasks
    <2>6. CASE KeepPolling
      BY <1>0, <2>6, AdjustNeedsWorkers DEF KeepPolling
    <2>7. CASE UNCHANGED vars
      BY <2>7 DEF vars, adjusting
    <2> QED BY <2>1, <2>2, <2>3, <2>4, <2>5, <2>6, <2>7 DEF Next, ServiceStep
  <1>2. polling' => workers # {}
    BY <1>1 DEF IndInv, PollsOnceStarted
  <1>3. polling' => workers' # {}
    BY <1>0, <1>2, StaysStarted
  <1> QED BY <1>0, <1>3 DEF IndInv, PollsOnceStarted

\* ... which holds of the pool as it is constructed.
LEMMA InitInv ==
    ASSUME Init
    PROVE  IndInv
  <1>0. \A w \in Ids : worker[w] = FreshWorker
    BY DEF Init
  <1>1. workload \in [tasks : [Seqs -> Nat], max_tasks : 1 .. kMaxNumberOfWorkers,
                      max_background : Nat \ {0}, max_failures : Nat]
    BY PoolAssumption DEF Init
  <1>2. workload.tasks \in [Seqs -> Nat] /\ workload.max_failures \in Nat
    BY <1>1
  <1>3. Typed
    <2>1. worker \in [Ids -> Worker]
      BY FreshFields DEF Init
    <2>2. poster \in [Seqs -> {"post", "wake", "adjust", "done"}]
      BY DEF Init
    <2> QED BY <1>2, <2>1, <2>2 DEF Init, Typed
  <1>4. Delegates
    <2>1. Shaped(FreshWorker)
      BY FreshFields DEF Shaped, Scoped, Running
    <2> QED BY <1>0, <2>1 DEF Delegates
  <1>5. Work
    <2>1. \A v \in Ids : v # None
      BY SeqsAssumption DEF Ids
    <2>2. Transactions
      BY <1>0, <2>1, FreshFields DEF Init, Transactions, Looking
    <2>3. SequencesApart
      BY <1>0, FreshFields DEF Init, SequencesApart
    <2>4. TasksLeft
      BY <1>0, <1>2, FreshFields DEF Init, TasksLeft
    <2> QED BY <2>2, <2>3, <2>4 DEF Work
  <1>6. PoolIsGood
    <2>1. Pool = [workers |-> {}, idle |-> <<>>, unused |-> {}, event |-> {}, failures |-> 0]
      BY DEF Init, Pool
    <2>2. PICK p : p = Pool
      OBVIOUS
    <2>3. /\ p \in PoolRecord /\ p.workers = {} /\ p.idle = <<>> /\ p.unused = {}
          /\ p.event = {} /\ p.failures = 0
      BY <2>1, <2>2 DEF PoolRecord
    <2>4. Len(p.idle) = 0
      BY <2>3
    <2>5. \A v : ~OnStack(p, v)
      BY <2>4 DEF OnStack
    <2>6. GoodPool(p, worker)
      BY <1>0, <1>2, <2>3, <2>4, <2>5 DEF GoodPool
    <2> QED BY <2>2, <2>6 DEF PoolIsGood
  <1>7. MaxCounted
    BY DEF Init, MaxCounted
  <1>8. TasksCounted
    <2>1. InBackground = {} /\ Pending = {} /\ Pending \cap InBackground = {}
      BY <1>0, FreshFields DEF InBackground, Pending
    <2> QED BY <2>1, FS_EmptySet DEF Init, TasksCounted
  <1>9. PollsOnceStarted
    BY DEF Init, PollsOnceStarted
  <1> QED BY <1>3, <1>4, <1>5, <1>6, <1>7, <1>8, <1>9 DEF IndInv, PoolInv

\* The inductive invariant holds in every state of every run of the pool.
THEOREM Invariance == Spec => []IndInv
  <1>1. Init => IndInv
    BY InitInv
  <1>2. IndInv /\ [Next]_vars => IndInv'
    BY NextInv
  <1> QED BY <1>1, <1>2, PTL DEF Spec

\* All variables of the pool, its workers and the posting threads keep their types.
THEOREM TypeCorrect == Spec => []TypeOK
  <1>1. IndInv => TypeOK
    BY InvTypes DEF IndInv, PoolInv
  <1> QED BY <1>1, Invariance, PTL

\* "On top of the stack or with a last used time", by which GetWork and the
\* cleanup decide, is exactly "on the idle stack" (IdleStackExact).
THEOREM IdleStackIsExact == Spec => []IdleStackExact
  <1>1. ASSUME IndInv PROVE IdleStackExact
    <2> DEFINE n == Len(idle)
    <2>1. /\ GoodPool(Pool, worker) /\ Pool.workers = workers /\ Pool.idle = idle
          /\ Pool.unused = unused /\ idle \in Seq(Ids) /\ n \in Nat /\ DOMAIN idle = 1 .. n
      BY <1>1, PoolVariables DEF IndInv, PoolInv
    <2>2. /\ unused = {idle[i] : i \in 1 .. n - 1}
          /\ \A i, j \in 1 .. n : idle[i] = idle[j] => i = j
      BY <2>1 DEF GoodPool
    <2>3. unused = IF idle = <<>> THEN {} ELSE ToSet(Front(idle))
      <3>1. CASE idle = <<>>
        <4>1. \A i \in 1 .. n - 1 : FALSE
          BY <3>1
        <4> QED BY <2>2, <3>1, <4>1
      <3>2. CASE idle # <<>>
        <4>1. n > 0
          BY <2>1, <3>2
        <4>2. DOMAIN Front(idle) = 1 .. n - 1 /\ \A i \in 1 .. n - 1 : Front(idle)[i] = idle[i]
          BY <2>1, <4>1 DEF Front
        <4>3. ToSet(Front(idle)) = {idle[i] : i \in 1 .. n - 1}
          BY <4>2 DEF ToSet
        <4> QED BY <2>2, <3>2, <4>3
      <3> QED BY <3>1, <3>2
    <2>4. IsInjective(idle)
      BY <2>1, <2>2 DEF IsInjective
    <2>5. \A w \in ToSet(idle) : w \in workers /\ worker[w].pc \in {"wait", "get_work"}
      <3>1. \A w \in ToSet(idle) : w \in Ids /\ OnStack(Pool, w)
        BY <2>1 DEF ToSet, OnStack
      <3> QED BY <2>1, <3>1 DEF GoodPool
    <2> QED BY <2>3, <2>4, <2>5 DEF IdleStackExact
  <1> QED BY <1>1, Invariance, PTL

\* No sleeping worker is out of reach of a wake-up, and the last worker of a
\* started pool is never cleaned up (NoWorkerLost).
THEOREM WorkersStayReachable == Spec => []NoWorkerLost
  <1>1. ASSUME IndInv PROVE NoWorkerLost
    <2>1. /\ GoodPool(Pool, worker) /\ Pool.workers = workers /\ Pool.idle = idle
          /\ Pool.event = event /\ idle \in Seq(Ids) /\ workers \subseteq Ids
      BY <1>1, PoolVariables DEF IndInv, PoolInv
    <2>2. \A w \in Ids : OnStack(Pool, w) => w \in ToSet(idle)
      BY <2>1 DEF ToSet, OnStack
    <2>3. \A w \in workers : worker[w].pc = "wait" => w \in ToSet(idle) \cup event
      BY <2>1, <2>2 DEF GoodPool
    <2>4. max_tasks > 0 => workers # {}
      BY <1>1, InvTypes DEF IndInv, PoolInv
    <2> QED BY <2>3, <2>4 DEF NoWorkerLost
  <1> QED BY <1>1, Invariance, PTL

\* max_tasks_, max_background_tasks_ and the three counts of running and pending
\* tasks agree with what the workers are doing (CountsExact).
THEOREM CountersAreExact == Spec => []CountsExact
  <1>1. ASSUME IndInv PROVE CountsExact
    <2>1. GoodPool(Pool, worker) /\ Pool.workers = workers /\ workers \subseteq Ids
      BY <1>1, PoolVariables DEF IndInv, PoolInv
    <2>2. \A w \in Ids \ workers : /\ worker[w].incremented = FALSE /\ worker[w].background = FALSE
                                   /\ worker[w].may_block = "null"
      BY <2>1, FreshFields DEF GoodPool
    <2>3. /\ {w \in workers : worker[w].incremented} = Incremented
          /\ {w \in workers : worker[w].incremented /\ worker[w].background}
               = Incremented \cap InBackground
          /\ {w \in workers : worker[w].background} = InBackground
          /\ {w \in workers : worker[w].may_block # "null"} = Pending
          /\ {w \in workers : worker[w].may_block # "null" /\ worker[w].background}
               = Pending \cap InBackground
      BY <2>1, <2>2 DEF Incremented, InBackground, Pending
    <2>4. max_tasks > 0 => workers # {}
      BY <1>1, InvTypes DEF IndInv, PoolInv
    <2>5. MaxCounted /\ TasksCounted
      BY <1>1 DEF IndInv, PoolInv
    <2> QED BY <2>3, <2>4, <2>5 DEF CountsExact, MaxCounted, TasksCounted
  <1> QED BY <1>1, Invariance, PTL
==============================================================================
