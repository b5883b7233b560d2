-------------------------- MODULE TaskTrackerProofs --------------------------
(***************************************************************************)
(* Proofs about TaskTracker, for any sequences, posters, workers, flushers *)
(* and number of posts, and any cap on background sequences.               *)
(*                                                                         *)
(* IndInv is inductive.  It replaces the cardinalities of                  *)
(* SequenceInOnePlace by facts about pairs of places (Placed), and adds    *)
(* what the counts rest on: tasks have ids of their own and each is in one *)
(* place (TasksUnique), a thread has what its pc says (PostersHold,        *)
(* WorkersHold), the count of undelayed tasks is exact, and what shutdown  *)
(* promises holds from the moment the last blocking task decided to signal *)
(* shutdown_event_, not only once it is signaled (NothingPriorLeft).       *)
(***************************************************************************)
EXTENDS TaskTracker, FiniteSetTheorems, TLAPS

------------------------------------------------------------------------------
(* The inductive invariant                                                   *)

\* Poster p found sequence s empty and must schedule it.
Schedules(p, s) == poster[p].pc = "schedule" /\ poster[p].task.seq = s

Preempted(s) == \E x \in preempted : x[1] = s

\* SequenceInOnePlace without counting: no place is taken twice, ...
PlacedOnce ==
    /\ \A s \in Seqs : \A p, q \in Posters : Schedules(p, s) /\ Schedules(q, s) => p = q
    /\ \A x, y \in preempted : x[1] = y[1] => x = y
    /\ \A s \in Seqs : \A w, v \in Workers : Owns(w, s) /\ Owns(v, s) => w = v

\* ... no two places are taken, ...
PlacedApart ==
    \A s \in Seqs :
        /\ \A p \in Posters : Schedules(p, s) =>
              ~Preempted(s) /\ s \notin scheduled /\ \A w \in Workers : ~Owns(w, s)
        /\ Preempted(s) => s \notin scheduled /\ \A w \in Workers : ~Owns(w, s)
        /\ s \in scheduled => \A w \in Workers : ~Owns(w, s)

\* ... and a place is taken if, and only if, the sequence has tasks.
PlacedIfBusy ==
    \A s \in Seqs :
        queue[s] # <<>> <=>
            \/ \E p \in Posters : Schedules(p, s)
            \/ Preempted(s)
            \/ s \in scheduled
            \/ \E w \in Workers : Owns(w, s)

Placed == PlacedOnce /\ PlacedApart /\ PlacedIfBusy

\* Poster p has a task that is in no queue yet.
Holds(p) == poster[p].pc \in {"check", "count", "push"}

\* A poster with something to do has a task; it looks whether shutdown is
\* complete only for a BLOCK_SHUTDOWN task posted after shutdown started.
PostersHold ==
    \A p \in Posters :
        /\ poster[p].pc # "idle" => poster[p].task \in Task
        /\ poster[p].pc = "check" => Blocks(poster[p].task) /\ ~poster[p].task.early

\* A worker has a sequence unless it is idle or asks for one; it manages background
\* sequences after a task of one; it takes an increment back for a SKIP_ON_SHUTDOWN
\* task.
WorkersHold ==
    \A w \in Workers :
        /\ worker[w].pc \in {"idle", "get"} <=> worker[w].seq = None
        /\ worker[w].pc \in {"manage", "manage_empty"} => worker[w].seq \in Background
        /\ worker[w].pc = "unblock" => Skips(CurrentTask(w))

\* What waits: background sequences, and delayed tasks.
WaitersKnown ==
    /\ \A x \in preempted : x[1] \in Background
    /\ \A task \in delayed : task.is_delayed

\* No task is in two places.
HeldOnce ==
    /\ \A p, q \in Posters :
         Holds(p) /\ Holds(q) /\ poster[p].task.id = poster[q].task.id => p = q
    /\ \A t, u \in delayed : t.id = u.id => t = u
    /\ \A p \in Posters : \A t \in delayed : Holds(p) => poster[p].task.id # t.id

QueuedOnce ==
    /\ \A p \in Posters : Holds(p) =>
         \A s \in Seqs : \A i \in 1 .. Len(queue[s]) : queue[s][i].id # poster[p].task.id
    /\ \A t \in delayed :
         \A s \in Seqs : \A i \in 1 .. Len(queue[s]) : queue[s][i].id # t.id
    /\ \A r, s \in Seqs : \A i \in 1 .. Len(queue[r]) : \A j \in 1 .. Len(queue[s]) :
         queue[r][i].id = queue[s][j].id => r = s /\ i = j

IdsUsed ==
    /\ \A p \in Posters : Holds(p) => poster[p].task.id <= posts
    /\ \A t \in delayed : t.id <= posts
    /\ \A s \in Seqs : \A i \in 1 .. Len(queue[s]) : queue[s][i].id <= posts

TasksUnique == HeldOnce /\ QueuedOnce /\ IdsUsed

\* num_incomplete_undelayed_tasks_ is what its name says.
UndelayedCountExact ==
    /\ IsFiniteSet(UndelayedTasks)
    /\ num_undelayed = Cardinality(UndelayedTasks)

BlockingTasksFinite == IsFiniteSet(BlockingTasks)

\* Shutdown is complete, or the worker that ended the last task that blocked it
\* is about to say so.
Completing == IsShutdownComplete \/ \E w \in Workers : worker[w].pc = "complete"

\* From then on shutdown has started and nothing that preceded it is left.
NothingPriorLeft ==
    Completing =>
        /\ started
        /\ \A task \in BlockingTasks : ~task.early
        /\ \A w \in Workers : ~RunsSkipTask(w)

IndInv ==
    /\ TypeOK
    /\ Placed
    /\ PostersHold
    /\ WorkersHold
    /\ WaitersKnown
    /\ TasksUnique
    /\ BackgroundCapKept
    /\ BlockingTasksFinite
    /\ BlockingCountExact
    /\ UndelayedCountExact
    /\ NothingPriorLeft

------------------------------------------------------------------------------
(* Kinds of steps                                                            *)

\* What the tasks and sequences are made of.
places == <<preempted, queue, scheduled, delayed, poster, worker, posts>>
core == <<num_blocking, num_undelayed, num_background, max_background, places>>

\* Where a worker has the first task of its sequence in hand.
Busy == {"before", "unblock", "running", "complete", "count", "signal", "callback",
         "pop"}

\* Worker w goes on with its task.
GoesOn(w, pc) ==
    /\ worker[w].pc \in Busy
    /\ pc \in Busy
    /\ WorkerGoes(w, pc)
    /\ UNCHANGED <<background, queue, scheduled, delayed, poster, posts>>

\* A poster's new state, and the type of it.
PosterState == [pc : PosterPcs, task : Task \cup {NoTask}]
WorkerState == [pc : WorkerPcs, seq : Seqs \cup {None}]

\* A record of a poster or of a worker has its fields.
LEMMA RecordFields ==
    /\ \A r \in PosterState : r.pc \in PosterPcs /\ r.task \in Task \cup {NoTask}
    /\ \A pc \in PosterPcs : \A t \in Task \cup {NoTask} :
          /\ [pc |-> pc, task |-> t] \in PosterState
          /\ [pc |-> pc, task |-> t].pc = pc
          /\ [pc |-> pc, task |-> t].task = t
    /\ \A r \in WorkerState : r.pc \in WorkerPcs /\ r.seq \in Seqs \cup {None}
    /\ \A pc \in WorkerPcs : \A s \in Seqs \cup {None} :
          /\ [pc |-> pc, seq |-> s] \in WorkerState
          /\ [pc |-> pc, seq |-> s].pc = pc
          /\ [pc |-> pc, seq |-> s].seq = s
  BY DEF PosterState, WorkerState

\* A task has its fields, and pushing it changes none of them but the time.
LEMMA TaskFields ==
    /\ NoTask.seq = None
    /\ \A t \in Task :
        /\ t.id \in 1 .. MaxPosts /\ t.seq \in Seqs /\ t.is_delayed \in BOOLEAN
        /\ t.time \in 0 .. MaxPosts /\ t.early \in BOOLEAN
    /\ \A t \in Task : \A n \in 0 .. MaxPosts :
        LET u == [t EXCEPT !.time = n]
        IN /\ u \in Task /\ u.id = t.id /\ u.seq = t.seq
           /\ u.is_delayed = t.is_delayed /\ u.early = t.early
  BY DEF Task, NoTask

\* The pcs of the posters that hold a task that is in no queue, and sets of them.
Held == {"check", "count", "push"}

\* What is left of a poster's state when it moves.
LEMMA PosterMoves ==
    ASSUME TypeOK, NEW p \in Posters, NEW r \in PosterState,
           poster' = [poster EXCEPT ![p] = r]
    PROVE  /\ poster' \in [Posters -> PosterState]
           /\ poster'[p] = r
           /\ \A q \in Posters \ {p} : poster'[q] = poster[q]
  BY DEF TypeOK, PosterState

\* Goto changes one poster's pc and nothing else.
LEMMA PosterGoes ==
    ASSUME TypeOK, NEW p \in Posters, NEW pc \in PosterPcs, Goto(p, pc)
    PROVE  poster' = [poster EXCEPT ![p] = [pc |-> pc, task |-> poster[p].task]]
  <1>1. poster[p] \in PosterState
    BY DEF TypeOK, PosterState
  <1>2. [poster[p] EXCEPT !.pc = pc] = [pc |-> pc, task |-> poster[p].task]
    BY <1>1 DEF PosterState
  <1>3. poster' = [poster EXCEPT ![p] = [poster[p] EXCEPT !.pc = pc]]
    BY Zenon DEF Goto
  <1> QED BY <1>2, <1>3, Zenon

\* What is left of a worker's state when it moves.
LEMMA WorkerMoves ==
    ASSUME TypeOK, NEW w \in Workers, NEW r \in WorkerState,
           worker' = [worker EXCEPT ![w] = r]
    PROVE  /\ worker' \in [Workers -> WorkerState]
           /\ worker'[w] = r
           /\ \A v \in Workers \ {w} : worker'[v] = worker[v]
  BY DEF TypeOK, WorkerState

\* WorkerGoes changes one worker's pc and nothing else.
LEMMA WorkerGoesMoves ==
    ASSUME TypeOK, NEW w \in Workers, NEW pc \in WorkerPcs, WorkerGoes(w, pc)
    PROVE  worker' = [worker EXCEPT ![w] = [pc |-> pc, seq |-> worker[w].seq]]
  <1>1. worker[w] \in WorkerState
    BY DEF TypeOK, WorkerState
  <1>2. [worker[w] EXCEPT !.pc = pc] = [pc |-> pc, seq |-> worker[w].seq]
    BY <1>1 DEF WorkerState
  <1>3. worker' = [worker EXCEPT ![w] = [worker[w] EXCEPT !.pc = pc]]
    BY Zenon DEF WorkerGoes
  <1> QED BY <1>2, <1>3, Zenon

\* What appending a task to the queue of a sequence does to the queues, ...
LEMMA Pushed ==
    ASSUME NEW q \in [Seqs -> Seq(Task)], NEW s0 \in Seqs, NEW u \in Task,
           NEW q2, q2 = [q EXCEPT ![s0] = Append(@, u)]
    PROVE  /\ q2 \in [Seqs -> Seq(Task)]
           /\ \A s \in Seqs \ {s0} : q2[s] = q[s]
           /\ q2[s0] # <<>>
           /\ Len(q[s0]) \in Nat
           /\ Len(q2[s0]) = Len(q[s0]) + 1
           /\ q2[s0][Len(q[s0]) + 1] = u
           /\ \A i \in 1 .. Len(q[s0]) : q2[s0][i] = q[s0][i]
  <1>1. q2[s0] = Append(q[s0], u) /\ \A s \in Seqs \ {s0} : q2[s] = q[s]
    OBVIOUS
  <1>2. Append(q[s0], u) \in Seq(Task) /\ Append(q[s0], u) # <<>>
    OBVIOUS
  <1>3. q2 \in [Seqs -> Seq(Task)]
    BY <1>2
  <1> QED BY <1>1, <1>2, <1>3

\* ... and what taking the first away does.
LEMMA Popped ==
    ASSUME NEW q \in [Seqs -> Seq(Task)], NEW s0 \in Seqs, q[s0] # <<>>,
           NEW q2, q2 = [q EXCEPT ![s0] = Tail(@)]
    PROVE  /\ q2 \in [Seqs -> Seq(Task)]
           /\ \A s \in Seqs \ {s0} : q2[s] = q[s]
           /\ q2[s0] = Tail(q[s0])
           /\ Len(q[s0]) \in Nat \ {0}
           /\ Len(q2[s0]) = Len(q[s0]) - 1
           /\ \A i \in 1 .. Len(q2[s0]) : i + 1 \in 1 .. Len(q[s0]) /\ q2[s0][i] = q[s0][i + 1]
           /\ q[s0][1] = Head(q[s0])
  <1>1. q2[s0] = Tail(q[s0]) /\ \A s \in Seqs \ {s0} : q2[s] = q[s]
    OBVIOUS
  <1>2. Tail(q[s0]) \in Seq(Task)
    OBVIOUS
  <1>3. q2 \in [Seqs -> Seq(Task)]
    BY <1>2
  <1>4. /\ Len(q[s0]) \in Nat \ {0}
        /\ Len(Tail(q[s0])) = Len(q[s0]) - 1
        /\ \A i \in 1 .. Len(Tail(q[s0])) :
              i + 1 \in 1 .. Len(q[s0]) /\ Tail(q[s0])[i] = q[s0][i + 1]
    OBVIOUS
  <1> QED BY <1>1, <1>3, <1>4

------------------------------------------------------------------------------
(* A sequence is in one place                                                *)

\* If no place is taken or left, each sequence stays in its one place.
LEMMA PlacedFrame ==
    ASSUME Placed, UNCHANGED <<preempted, queue, scheduled>>,
           \A p \in Posters : \A s \in Seqs : Schedules(p, s)' <=> Schedules(p, s),
           \A w \in Workers : \A s \in Seqs : Owns(w, s)' <=> Owns(w, s)
    PROVE  Placed'
  <1>1. PlacedOnce'
    BY DEF Placed, PlacedOnce
  <1>2. PlacedApart'
    BY DEF Placed, PlacedApart, Preempted
  <1>3. PlacedIfBusy'
    BY DEF Placed, PlacedIfBusy, Preempted
  <1> QED BY <1>1, <1>2, <1>3 DEF Placed

\* A poster that neither schedules nor comes to schedule leaves all sequences
\* where they are.
LEMMA PlacedByPoster ==
    ASSUME TypeOK, Placed, NEW p \in Posters, NEW r \in PosterState,
           poster' = [poster EXCEPT ![p] = r],
           poster[p].pc # "schedule", r.pc # "schedule",
           UNCHANGED <<preempted, queue, scheduled, worker>>
    PROVE  Placed'
  <1>1. \A q \in Posters : \A s \in Seqs : Schedules(q, s)' <=> Schedules(q, s)
    BY PosterMoves DEF Schedules
  <1>2. \A w \in Workers : \A s \in Seqs : Owns(w, s)' <=> Owns(w, s)
    BY DEF Owns
  <1> QED BY <1>1, <1>2, PlacedFrame

\* A worker that goes on with its task keeps its sequence.
LEMMA PlacedByWorker ==
    ASSUME TypeOK, Placed, NEW w \in Workers, NEW pc \in Busy, GoesOn(w, pc)
    PROVE  Placed'
  <1>1. worker' = [worker EXCEPT ![w] = [pc |-> pc, seq |-> worker[w].seq]]
    BY WorkerGoesMoves DEF GoesOn, Busy, WorkerPcs
  <1>2. \A v \in Workers : \A s \in Seqs : Owns(v, s)' <=> Owns(v, s)
    BY <1>1 DEF Owns, TypeOK, GoesOn, Busy
  <1>3. \A q \in Posters : \A s \in Seqs : Schedules(q, s)' <=> Schedules(q, s)
    BY DEF Schedules, GoesOn
  <1> QED BY <1>2, <1>3, PlacedFrame DEF GoesOn, background

\* PushTask: the poster that finds the sequence empty becomes its place.
LEMMA PlacedByPush ==
    ASSUME TypeOK, Placed, PostersHold, NEW p \in Posters, PushTask(p)
    PROVE  Placed'
  <1> DEFINE s0 == poster[p].task.seq
             r == IF SequenceWasEmpty(s0) THEN [pc |-> "schedule", task |-> poster[p].task]
                  ELSE [pc |-> "idle", task |-> NoTask]
  <1>1. poster[p].task \in Task /\ s0 \in Seqs
    BY TaskFields DEF PushTask, PostersHold
  <1>2. r \in PosterState /\ poster' = [poster EXCEPT ![p] = r]
    BY <1>1, RecordFields DEF PushTask, PosterPcs
  <1>3. /\ \A s \in Seqs \ {s0} : queue'[s] = queue[s]
        /\ queue'[s0] # <<>>
    <2>1. [poster[p].task EXCEPT !.time = posts] \in Task
      BY <1>1, TaskFields DEF TypeOK
    <2>2. /\ queue \in [Seqs -> Seq(Task)]
          /\ queue' = [queue EXCEPT ![s0] = Append(@, [poster[p].task EXCEPT !.time = posts])]
      BY DEF PushTask, TypeOK
    <2> HIDE DEF s0
    <2> QED BY <1>1, <2>1, <2>2, Pushed
  <1>4. \A q \in Posters : \A s \in Seqs : Schedules(q, s)' <=>
            (q = p /\ s = s0 /\ queue[s0] = <<>>) \/ Schedules(q, s)
    <2>1. ~\E s : Schedules(p, s)
      BY DEF PushTask, Schedules
    <2>2. \A s \in Seqs : Schedules(p, s)' <=> s = s0 /\ queue[s0] = <<>>
      <3>1. poster'[p] = r
        BY <1>2, PosterMoves
      <3>2. r.pc = (IF queue[s0] = <<>> THEN "schedule" ELSE "idle")
        BY DEF SequenceWasEmpty
      <3>3. queue[s0] = <<>> => r.task.seq = s0
        BY DEF SequenceWasEmpty
      <3> QED BY <3>1, <3>2, <3>3 DEF Schedules
    <2>3. \A q \in Posters \ {p} : \A s \in Seqs : Schedules(q, s)' <=> Schedules(q, s)
      BY <1>2, PosterMoves DEF Schedules
    <2> QED BY <2>1, <2>2, <2>3
  <1>5. \A w \in Workers : \A s \in Seqs : Owns(w, s)' <=> Owns(w, s)
    BY DEF Owns, PushTask
  <1>6. UNCHANGED <<preempted, scheduled>>
    BY DEF PushTask, background
  <1> HIDE DEF s0, r
  <1>7. PlacedOnce'
    BY <1>1, <1>4, <1>5, <1>6 DEF Placed, PlacedOnce, PlacedIfBusy
  <1>8. PlacedApart'
    BY <1>1, <1>4, <1>5, <1>6 DEF Placed, PlacedApart, PlacedIfBusy, Preempted
  <1>9. PlacedIfBusy'
    BY <1>1, <1>3, <1>4, <1>5, <1>6 DEF Placed, PlacedIfBusy, Preempted
  <1> QED BY <1>7, <1>8, <1>9 DEF Placed

\* WillScheduleSequence: from the poster to the pool or to the preempted ones.
LEMMA PlacedByWillSchedule ==
    ASSUME TypeOK, Placed, PostersHold, NEW p \in Posters, WillScheduleSequence(p)
    PROVE  Placed'
  <1> DEFINE s0 == poster[p].task.seq
  <1>1. s0 \in Seqs /\ Schedules(p, s0)
    BY TaskFields DEF WillScheduleSequence, PostersHold, Schedules
  <1>2. \A q \in Posters : \A s \in Seqs : Schedules(q, s)' <=> q # p /\ Schedules(q, s)
    <2>1. /\ [pc |-> "idle", task |-> NoTask] \in PosterState
          /\ poster' = [poster EXCEPT ![p] = [pc |-> "idle", task |-> NoTask]]
      BY RecordFields DEF WillScheduleSequence, PosterPcs
    <2> QED BY <2>1, PosterMoves DEF Schedules
  <1>3. \A w \in Workers : \A s \in Seqs : Owns(w, s)' <=> Owns(w, s)
    BY DEF Owns, WillScheduleSequence
  <1>4. /\ queue' = queue
        /\ \/ scheduled' = scheduled \cup {s0} /\ preempted' = preempted
           \/ /\ scheduled' = scheduled
              /\ \E t : preempted' = preempted \cup {<<s0, t>>}
    BY DEF WillScheduleSequence
  <1>5. ASSUME scheduled' = scheduled \cup {s0}, preempted' = preempted PROVE Placed'
    <2> HIDE DEF s0
    <2>1. PlacedOnce'
      BY <1>2, <1>3, <1>5 DEF Placed, PlacedOnce
    <2>2. PlacedApart'
      BY <1>1, <1>2, <1>3, <1>5 DEF Placed, PlacedApart, PlacedOnce, Preempted
    <2>3. PlacedIfBusy'
      BY <1>1, <1>2, <1>3, <1>4, <1>5 DEF Placed, PlacedIfBusy, PlacedOnce, Preempted, Schedules
    <2> QED BY <2>1, <2>2, <2>3 DEF Placed
  <1>6. ASSUME scheduled' = scheduled, NEW t, preempted' = preempted \cup {<<s0, t>>}
        PROVE  Placed'
    <2> HIDE DEF s0
    <2>1. \A s \in Seqs : Preempted(s)' <=> s = s0 \/ Preempted(s)
      <3>1. <<s0, t>>[1] = s0
        OBVIOUS
      <3>2. \A s \in Seqs : Preempted(s)' <=> \E x \in preempted \cup {<<s0, t>>} : x[1] = s
        BY <1>6 DEF Preempted
      <3> QED BY <3>1, <3>2 DEF Preempted
    <2>2. ~Preempted(s0)
      BY <1>1 DEF Placed, PlacedApart
    <2>3. PlacedOnce'
      BY <1>2, <1>3, <1>6, <2>2 DEF Placed, PlacedOnce, Preempted
    <2>4. PlacedApart'
      BY <1>1, <1>2, <1>3, <1>6, <2>1 DEF Placed, PlacedApart, PlacedOnce
    <2>5. PlacedIfBusy'
      BY <1>1, <1>2, <1>3, <1>4, <1>6, <2>1 DEF Placed, PlacedIfBusy, PlacedOnce, Schedules
    <2> QED BY <2>3, <2>4, <2>5 DEF Placed
  <1> QED BY <1>4, <1>5, <1>6

\* What a worker's move changes of the ownership.
LEMMA OwnsMoves ==
    ASSUME TypeOK, NEW w \in Workers, NEW r \in WorkerState,
           worker' = [worker EXCEPT ![w] = r]
    PROVE  \A v \in Workers : \A s \in Seqs : Owns(v, s)' <=>
              IF v = w THEN r.seq = s /\ r.pc # "manage_empty" ELSE Owns(v, s)
  BY WorkerMoves DEF Owns

\* From the pool to a worker.
LEMMA PlacedByTake ==
    ASSUME TypeOK, Placed, WorkersHold, NEW w \in Workers, TakeTask(w)
    PROVE  Placed'
  <1>1. PICK s0 \in scheduled :
          /\ scheduled' = scheduled \ {s0}
          /\ worker' = [worker EXCEPT ![w] = [pc |-> "before", seq |-> s0]]
    BY DEF TakeTask
  <1>2. s0 \in Seqs /\ [pc |-> "before", seq |-> s0] \in WorkerState
    BY RecordFields DEF TypeOK, WorkerPcs
  <1>3. \A s \in Seqs : ~Owns(w, s)
    BY TraitsAssumption DEF TakeTask, WorkersHold, Owns
  <1>4. \A v \in Workers : \A s \in Seqs : Owns(v, s)' <=> (v = w /\ s = s0) \/ Owns(v, s)
    BY <1>1, <1>2, <1>3, OwnsMoves
  <1>5. \A q \in Posters : \A s \in Seqs : Schedules(q, s)' <=> Schedules(q, s)
    BY DEF Schedules, TakeTask
  <1>6. UNCHANGED <<preempted, queue>>
    BY DEF TakeTask, background
  <1>7. PlacedOnce'
    BY <1>1, <1>2, <1>4, <1>5, <1>6 DEF Placed, PlacedOnce, PlacedApart
  <1>8. PlacedApart'
    BY <1>1, <1>2, <1>4, <1>5, <1>6 DEF Placed, PlacedApart, Preempted
  <1>9. PlacedIfBusy'
    BY <1>1, <1>2, <1>4, <1>5, <1>6 DEF Placed, PlacedIfBusy, Preempted
  <1> QED BY <1>7, <1>8, <1>9 DEF Placed

\* Pop: the worker keeps a background sequence that has more tasks, gives a
\* foreground one back to the pool, and lets go of an empty one.
LEMMA PlacedByPop ==
    ASSUME TypeOK, Placed, WorkersHold, NEW w \in Workers, Pop(w)
    PROVE  Placed'
  <1> DEFINE s0 == worker[w].seq
             more == Tail(queue[s0]) # <<>>
  <1>1. s0 \in Seqs /\ Owns(w, s0)
    <2>1. s0 \in Seqs \cup {None} /\ s0 # None
      BY DEF TypeOK, Pop, WorkersHold
    <2> QED BY <2>1 DEF Pop, Owns
  <1>2. queue[s0] # <<>>
    BY <1>1 DEF Placed, PlacedIfBusy
  <1>3. /\ \A s \in Seqs \ {s0} : queue'[s] = queue[s]
        /\ queue'[s0] # <<>> <=> more
    BY <1>1, <1>2, Popped DEF Pop, TypeOK
  <1>4. \A q \in Posters : \A s \in Seqs : Schedules(q, s)' <=> Schedules(q, s)
    BY DEF Schedules, Pop
  <1>5. preempted' = preempted
    BY DEF Pop, background
  <1>6. /\ \A v \in Workers : \A s \in Seqs : Owns(v, s)' <=>
               Owns(v, s) /\ (v = w => more /\ s0 \in Background)
        /\ scheduled' = scheduled \cup IF more /\ s0 \notin Background THEN {s0} ELSE {}
    <2>1. CASE s0 \in Background
      <3> DEFINE pc == IF more THEN "manage" ELSE "manage_empty"
      <3>1. pc \in WorkerPcs /\ scheduled' = scheduled /\ WorkerGoes(w, pc)
        BY <2>1 DEF Pop, WorkerPcs
      <3>2. worker' = [worker EXCEPT ![w] = [pc |-> pc, seq |-> s0]]
        BY <3>1, WorkerGoesMoves
      <3>3. [pc |-> pc, seq |-> s0] \in WorkerState
        BY <1>1, <3>1, RecordFields
      <3>4. \A v \in Workers : \A s \in Seqs : Owns(v, s)' <=>
               IF v = w THEN s0 = s /\ pc # "manage_empty" ELSE Owns(v, s)
        BY <3>2, <3>3, OwnsMoves
      <3>5. \A s \in Seqs : Owns(w, s) <=> s0 = s
        BY <1>1 DEF Owns
      <3> QED BY <2>1, <3>1, <3>4, <3>5
    <2>2. CASE s0 \notin Background
      <3>1. /\ [pc |-> "idle", seq |-> None] \in WorkerState
            /\ worker' = [worker EXCEPT ![w] = [pc |-> "idle", seq |-> None]]
        BY <2>2, RecordFields DEF Pop, WorkerPcs
      <3>2. \A v \in Workers : \A s \in Seqs : Owns(v, s)' <=> v # w /\ Owns(v, s)
        BY <3>1, OwnsMoves, TraitsAssumption
      <3>3. scheduled' = scheduled \cup IF more THEN {s0} ELSE {}
        BY <2>2 DEF Pop
      <3> QED BY <2>2, <3>2, <3>3
    <2> QED BY <2>1, <2>2
  <1> HIDE DEF s0, more
  <1>7. PlacedOnce'
    BY <1>4, <1>5, <1>6 DEF Placed, PlacedOnce
  <1>8. PlacedApart'
    BY <1>1, <1>4, <1>5, <1>6 DEF Placed, PlacedApart, PlacedOnce, Preempted
  <1>9. PlacedIfBusy'
    <2> SUFFICES ASSUME NEW s \in Seqs
                 PROVE  queue'[s] # <<>> <=> \/ \E p \in Posters : Schedules(p, s)
                                             \/ Preempted(s)
                                             \/ s \in scheduled'
                                             \/ \E v \in Workers : Owns(v, s)'
      BY <1>4, <1>5 DEF PlacedIfBusy, Preempted
    <2>1. CASE s # s0
      <3>1. \A v \in Workers : Owns(v, s)' <=> Owns(v, s)
        BY <1>6, <2>1, <1>1 DEF Owns, s0
      <3> QED BY <1>3, <1>6, <2>1, <3>1 DEF Placed, PlacedIfBusy
    <2>2. CASE s = s0
      <3>1. \A v \in Workers : Owns(v, s) => v = w
        BY <1>1, <2>2 DEF Placed, PlacedOnce
      <3>2. /\ ~\E p \in Posters : Schedules(p, s)
            /\ ~Preempted(s) /\ s \notin scheduled
        BY <1>1, <2>2 DEF Placed, PlacedApart
      <3> QED BY <1>1, <1>3, <1>6, <2>2, <3>1, <3>2
    <2> QED BY <2>1, <2>2
  <1> QED BY <1>7, <1>8, <1>9 DEF Placed

\* The sequence that just ran is in place of a preempted one, or the other way.
LEMMA PlacedByManage ==
    ASSUME TypeOK, Placed, WorkersHold, NEW w \in Workers, ManageBackgroundSequences(w)
    PROVE  Placed'
  <1> DEFINE s0 == worker[w].seq
             owned == worker[w].pc = "manage"
  <1>1. s0 \in Seqs /\ (owned <=> Owns(w, s0))
    <2>1. s0 \in Seqs
      BY TraitsAssumption DEF ManageBackgroundSequences, WorkersHold
    <2> QED BY <2>1 DEF ManageBackgroundSequences, Owns
  <1>2. \A v \in Workers : \A s \in Seqs : Owns(v, s)' <=> v # w /\ Owns(v, s)
    <2>1. /\ [pc |-> "idle", seq |-> None] \in WorkerState
          /\ worker' = [worker EXCEPT ![w] = [pc |-> "idle", seq |-> None]]
      BY RecordFields DEF ManageBackgroundSequences, WorkerPcs
    <2> QED BY <2>1, OwnsMoves, TraitsAssumption
  <1>3. \A v \in Workers : \A s \in Seqs : Owns(v, s)' <=>
            Owns(v, s) /\ ~(v = w /\ s = s0 /\ owned)
    BY <1>1, <1>2 DEF Owns
  <1>4. \A q \in Posters : \A s \in Seqs : Schedules(q, s)' <=> Schedules(q, s)
    BY DEF Schedules, ManageBackgroundSequences
  <1>5. queue' = queue
    BY DEF ManageBackgroundSequences
  <1>6. owned => /\ \A v \in Workers : Owns(v, s0) => v = w
                 /\ ~Preempted(s0) /\ s0 \notin scheduled
                 /\ ~\E p \in Posters : Schedules(p, s0)
    BY <1>1 DEF Placed, PlacedOnce, PlacedApart
  <1>7. CASE KeepsItsSlot(w) /\ scheduled' = scheduled \cup {s0} /\ preempted' = preempted
    <2>1. owned
      BY <1>7 DEF KeepsItsSlot
    <2> HIDE DEF s0, owned
    <2>2. PlacedOnce'
      BY <1>3, <1>4, <1>7 DEF Placed, PlacedOnce
    <2>3. PlacedApart'
      BY <1>3, <1>4, <1>6, <1>7, <2>1 DEF Placed, PlacedApart, Preempted
    <2>4. PlacedIfBusy'
      BY <1>1, <1>3, <1>4, <1>5, <1>7, <2>1 DEF Placed, PlacedIfBusy, Preempted
    <2> QED BY <2>2, <2>3, <2>4 DEF Placed
  <1>8. ASSUME NEW t, NEW x, x \in preempted \cup IF owned THEN {<<s0, t>>} ELSE {},
               preempted' = (preempted \cup IF owned THEN {<<s0, t>>} ELSE {}) \ {x},
               scheduled' = scheduled \cup {x[1]}
        PROVE  Placed'
    <2> DEFINE y == <<s0, t>>
    <2>1. y[1] = s0 /\ (owned => y \notin preempted)
      BY <1>6 DEF Preempted
    <2> HIDE DEF y
    <2>2. x \in preempted \/ (owned /\ x = y)
      BY <1>8 DEF y
    <2>3. \A z : z \in preempted' <=> z # x /\ (z \in preempted \/ (owned /\ z = y))
      BY <1>8 DEF y
    <2> HIDE DEF s0, owned
    <2>4. PlacedOnce'
      <3>1. ASSUME NEW z1 \in preempted', NEW z2 \in preempted', z1[1] = z2[1]
            PROVE  z1 = z2
        BY <1>6, <2>1, <2>3, <3>1 DEF Placed, PlacedOnce, Preempted
      <3>2. /\ \A s \in Seqs : \A p, q \in Posters :
                 Schedules(p, s)' /\ Schedules(q, s)' => p = q
            /\ \A s \in Seqs : \A v, u \in Workers : Owns(v, s)' /\ Owns(u, s)' => v = u
        BY <1>3, <1>4 DEF Placed, PlacedOnce
      <3> QED BY <3>1, <3>2 DEF PlacedOnce
    <2>5. x[1] \in Seqs /\ \A z \in preempted : z[1] \in Seqs
      BY <1>1, <2>1, <2>2 DEF TypeOK
    <2>6. \A s \in Seqs : Preempted(s)' \/ s = x[1] <=> Preempted(s) \/ (owned /\ s = s0)
      BY <2>1, <2>2, <2>3 DEF Preempted
    <2>7. ~Preempted(x[1])'
      BY <1>6, <2>1, <2>2, <2>3 DEF Preempted, Placed, PlacedOnce
    <2>8. PlacedApart'
      BY <1>3, <1>4, <1>6, <1>8, <2>5, <2>6, <2>7 DEF Placed, PlacedApart
    <2>9. PlacedIfBusy'
      BY <1>1, <1>3, <1>4, <1>5, <1>6, <1>8, <2>6 DEF Placed, PlacedIfBusy
    <2> QED BY <2>4, <2>8, <2>9 DEF Placed
  <1>9. CASE ~owned /\ scheduled' = scheduled /\ preempted' = preempted
    BY <1>3, <1>4, <1>5, <1>9, PlacedFrame
  <1> QED
    <2> DEFINE just_ran == IF owned THEN {<<s0, SequencedTime(s0)>>} ELSE {}
    <2>1. \/ /\ KeepsItsSlot(w) /\ scheduled' = scheduled \cup {s0} /\ preempted' = preempted
          \/ \E x \in preempted \cup just_ran :
                /\ preempted' = (preempted \cup just_ran) \ {x}
                /\ scheduled' = scheduled \cup {x[1]}
          \/ just_ran = {} /\ preempted' = preempted /\ scheduled' = scheduled
      BY DEF ManageBackgroundSequences, SequencesWaiting, Earliest
    <2> QED BY <1>7, <1>8, <1>9, <2>1

\* Lifting the cap moves every preempted sequence to the pool.
LEMMA PlacedBySetMax ==
    ASSUME TypeOK, Placed, SetMaxNumScheduledBackgroundSequences
    PROVE  Placed'
  <1>1. preempted' = {} /\ queue' = queue
    BY DEF SetMaxNumScheduledBackgroundSequences, PreemptedToSchedule
  <1>2. \A s \in Seqs : s \in scheduled' <=> s \in scheduled \/ Preempted(s)
    BY DEF SetMaxNumScheduledBackgroundSequences, PreemptedToSchedule, Preempted
  <1>3. /\ \A q \in Posters : \A s \in Seqs : Schedules(q, s)' <=> Schedules(q, s)
        /\ \A w \in Workers : \A s \in Seqs : Owns(w, s)' <=> Owns(w, s)
    BY DEF SetMaxNumScheduledBackgroundSequences, Schedules, Owns
  <1>4. \A s : ~Preempted(s)'
    BY <1>1 DEF Preempted
  <1>5. PlacedOnce'
    BY <1>1, <1>3 DEF Placed, PlacedOnce
  <1>6. PlacedApart'
    BY <1>2, <1>3, <1>4 DEF Placed, PlacedApart
  <1>7. PlacedIfBusy'
    BY <1>1, <1>2, <1>3, <1>4 DEF Placed, PlacedIfBusy
  <1> QED BY <1>5, <1>6, <1>7 DEF Placed

\* Counting the places of a sequence.
LEMMA PlacedCounted ==
    ASSUME Placed
    PROVE  SequenceInOnePlace
  <1> SUFFICES ASSUME NEW s \in Seqs
               PROVE  Cardinality({p \in Posters : Schedules(p, s)})
                      + Cardinality({x \in preempted : x[1] = s})
                      + Cardinality({s} \cap scheduled)
                      + Cardinality({w \in Workers : Owns(w, s)})
                          = IF queue[s] = <<>> THEN 0 ELSE 1
    BY DEF SequenceInOnePlace, Schedules
  <1> DEFINE P == {p \in Posters : Schedules(p, s)}
             X == {x \in preempted : x[1] = s}
             Y == {s} \cap scheduled
             W == {w \in Workers : Owns(w, s)}
  <1>1. /\ P = {} \/ \E p : P = {p}
        /\ X = {} \/ \E x : X = {x}
        /\ Y = {} \/ Y = {s}
        /\ W = {} \/ \E w : W = {w}
    <2>1. ASSUME P # {} PROVE \E p : P = {p}
      <3>1. PICK p : p \in P
        BY <2>1
      <3>2. P = {p}
        BY <3>1 DEF Placed, PlacedOnce
      <3> QED BY <3>2
    <2>2. ASSUME X # {} PROVE \E x : X = {x}
      <3>1. PICK x : x \in X
        BY <2>2
      <3>2. X = {x}
        BY <3>1 DEF Placed, PlacedOnce
      <3> QED BY <3>2
    <2>3. ASSUME W # {} PROVE \E w : W = {w}
      <3>1. PICK w : w \in W
        BY <2>3
      <3>2. W = {w}
        BY <3>1 DEF Placed, PlacedOnce
      <3> QED BY <3>2
    <2> QED BY <2>1, <2>2, <2>3
  <1>2. /\ P # {} => X = {} /\ Y = {} /\ W = {}
        /\ X # {} => Y = {} /\ W = {}
        /\ Y # {} => W = {}
    BY DEF Placed, PlacedApart, Preempted
  <1>3. queue[s] # <<>> <=> P # {} \/ X # {} \/ Y # {} \/ W # {}
    BY DEF Placed, PlacedIfBusy, Preempted
  <1> HIDE DEF P, X, Y, W
  <1>4. \A S : /\ S = {} => Cardinality(S) = 0
               /\ (\E x : S = {x}) => Cardinality(S) = 1
    BY FS_EmptySet, FS_Singleton
  <1>5. /\ Cardinality(P) = IF P = {} THEN 0 ELSE 1
        /\ Cardinality(X) = IF X = {} THEN 0 ELSE 1
        /\ Cardinality(Y) = IF Y = {} THEN 0 ELSE 1
        /\ Cardinality(W) = IF W = {} THEN 0 ELSE 1
    BY <1>1, <1>4
  <1>6. Cardinality(P) + Cardinality(X) + Cardinality(Y) + Cardinality(W)
            = IF queue[s] = <<>> THEN 0 ELSE 1
    BY <1>2, <1>3, <1>5
  <1> QED BY <1>6 DEF P, X, Y, W

------------------------------------------------------------------------------
(* The task in a worker's hands                                              *)

\* A worker that is busy owns a sequence, whose first task is its task.
LEMMA BusyWorker ==
    ASSUME TypeOK, Placed, WorkersHold, NEW w \in Workers,
           worker[w].pc \in Busy \cup {"manage"}
    PROVE  /\ worker[w].seq \in Seqs
           /\ Owns(w, worker[w].seq)
           /\ queue[worker[w].seq] # <<>>
           /\ Len(queue[worker[w].seq]) \in Nat \ {0}
           /\ CurrentTask(w) = queue[worker[w].seq][1]
           /\ CurrentTask(w) \in Task
           /\ \A v \in Workers : Owns(v, worker[w].seq) => v = w
  <1>1. worker[w].seq \in Seqs
    <2>1. worker[w].seq \in Seqs \cup {None} /\ worker[w].seq # None
      BY DEF TypeOK, WorkersHold, Busy
    <2> QED BY <2>1
  <1>2. Owns(w, worker[w].seq)
    BY DEF Owns, Busy
  <1>3. queue[worker[w].seq] # <<>> /\ \A v \in Workers : Owns(v, worker[w].seq) => v = w
    BY <1>1, <1>2 DEF Placed, PlacedIfBusy, PlacedOnce
  <1>4. queue[worker[w].seq] \in Seq(Task)
    BY <1>1 DEF TypeOK
  <1>5. /\ Head(queue[worker[w].seq]) = queue[worker[w].seq][1]
        /\ Head(queue[worker[w].seq]) \in Task
        /\ Len(queue[worker[w].seq]) \in Nat \ {0}
    BY <1>3, <1>4
  <1> QED BY <1>1, <1>2, <1>3, <1>5 DEF CurrentTask

\* Pushing a task to a sequence that a worker has does not change its first task.
LEMMA HeadKeptByPush ==
    ASSUME TypeOK, Placed, PostersHold, WorkersHold, NEW p \in Posters, PushTask(p),
           NEW w \in Workers, worker[w].pc \in Busy
    PROVE  CurrentTask(w)' = CurrentTask(w)
  <1> DEFINE s == worker[w].seq
             s0 == poster[p].task.seq
             u == [poster[p].task EXCEPT !.time = posts]
  <1>1. s \in Seqs /\ queue[s] # <<>> /\ worker' = worker
    BY BusyWorker DEF PushTask
  <1>2. /\ queue \in [Seqs -> Seq(Task)] /\ s0 \in Seqs
        /\ queue' = [queue EXCEPT ![s0] = Append(@, u)]
    BY TaskFields DEF PushTask, TypeOK, PostersHold
  <1>3. CASE s # s0
    <2>1. queue'[s] = queue[s]
      BY <1>1, <1>2, <1>3
    <2> QED BY <1>1, <2>1 DEF CurrentTask
  <1>4. CASE s = s0
    <2>1. queue'[s] = Append(queue[s], u) /\ queue[s] \in Seq(Task)
      BY <1>1, <1>2, <1>4
    <2>2. u \in Task
      BY TaskFields DEF PushTask, TypeOK, PostersHold
    <2> HIDE DEF s, u
    <2>3. Head(Append(queue[s], u)) = Head(queue[s])
      BY <1>1, <2>1, <2>2
    <2> QED BY <1>1, <2>1, <2>3 DEF CurrentTask, s
  <1> QED BY <1>3, <1>4

\* A pop of one worker does not change the task of another one.
LEMMA HeadKeptByPop ==
    ASSUME TypeOK, Placed, WorkersHold, NEW w \in Workers, Pop(w),
           NEW v \in Workers, v # w, worker[v].pc \in Busy
    PROVE  worker'[v] = worker[v] /\ CurrentTask(v)' = CurrentTask(v)
  <1>1. worker[w].pc \in Busy
    BY DEF Pop, Busy
  <1>2. worker[v].seq # worker[w].seq /\ worker[v].seq \in Seqs
    BY <1>1, BusyWorker
  <1>3. worker'[v] = worker[v]
    BY DEF Pop, WorkerGoes, TypeOK
  <1>4. queue'[worker[v].seq] = queue[worker[v].seq]
    BY <1>2 DEF Pop, TypeOK
  <1> QED BY <1>3, <1>4 DEF CurrentTask

\* WorkersHold where the workers' tasks do not change.
LEMMA WorkersHoldFrame ==
    ASSUME TypeOK, Placed, WorkersHold, worker' = worker,
           queue' = queue \/ \E p \in Posters : PostersHold /\ PushTask(p)
    PROVE  WorkersHold'
  <1>1. ASSUME NEW w \in Workers, worker[w].pc = "unblock"
        PROVE  CurrentTask(w)' = CurrentTask(w)
    BY <1>1, HeadKeptByPush DEF CurrentTask, Busy
  <1> QED BY <1>1 DEF WorkersHold, Skips

\* A worker that goes on with its task keeps its sequence and first task.
LEMMA WorkersHoldGoesOn ==
    ASSUME TypeOK, Placed, WorkersHold, NEW w \in Workers, NEW pc \in Busy, GoesOn(w, pc),
           pc = "unblock" => Skips(CurrentTask(w))
    PROVE  WorkersHold'
  <1>1. worker' = [worker EXCEPT ![w] = [pc |-> pc, seq |-> worker[w].seq]]
    BY WorkerGoesMoves DEF GoesOn, Busy, WorkerPcs
  <1>2. queue' = queue
    BY DEF GoesOn
  <1>3. worker[w].seq # None /\ worker[w].pc \notin {"idle", "get"}
    BY DEF GoesOn, WorkersHold, Busy
  <1>4. \A v \in Workers : CurrentTask(v)' = CurrentTask(v)
    BY <1>1, <1>2 DEF CurrentTask, TypeOK
  <1>5. /\ worker'[w].pc = pc /\ worker'[w].seq = worker[w].seq
        /\ \A v \in Workers \ {w} : worker'[v] = worker[v]
    BY <1>1 DEF TypeOK
  <1>6. pc \notin {"idle", "get", "manage", "manage_empty"}
    BY DEF Busy
  <1> QED BY <1>3, <1>4, <1>5, <1>6 DEF WorkersHold, Skips

\* What Pop does to its worker.
LEMMA PopMoves ==
    ASSUME TypeOK, NEW w \in Workers, Pop(w)
    PROVE  \E r \in WorkerState :
             /\ worker' = [worker EXCEPT ![w] = r]
             /\ \/ r.pc = "idle" /\ r.seq = None
                \/ /\ r.pc \in {"manage", "manage_empty"}
                   /\ r.seq = worker[w].seq /\ r.seq \in Background
             /\ r.pc \in {"idle", "manage", "manage_empty"}
  <1>1. CASE worker[w].seq \in Background
    <2> DEFINE pc == IF Tail(queue[worker[w].seq]) = <<>> THEN "manage_empty" ELSE "manage"
               r == [pc |-> pc, seq |-> worker[w].seq]
    <2>1. pc \in WorkerPcs /\ WorkerGoes(w, pc)
      BY <1>1 DEF Pop, WorkerPcs
    <2>2. worker' = [worker EXCEPT ![w] = r]
      BY <2>1, WorkerGoesMoves
    <2>3. r \in WorkerState /\ r.pc = pc /\ r.seq = worker[w].seq
      BY <1>1, <2>1, RecordFields, TraitsAssumption
    <2>4. pc \in {"manage", "manage_empty"}
      OBVIOUS
    <2> HIDE DEF r, pc
    <2> QED BY <1>1, <2>2, <2>3, <2>4
  <1>2. CASE worker[w].seq \notin Background
    <2>1. [pc |-> "idle", seq |-> None] \in WorkerState
      BY RecordFields DEF WorkerPcs
    <2> QED BY <1>2, <2>1 DEF Pop
  <1> QED BY <1>1, <1>2

\* A worker ends with a sequence, or takes one.
LEMMA WorkersHoldMoves ==
    ASSUME TypeOK, Placed, WorkersHold, NEW w \in Workers,
           TakeTask(w) \/ Pop(w) \/ ManageBackgroundSequences(w)
    PROVE  WorkersHold'
  <1>1. PICK r \in WorkerState :
          /\ worker' = [worker EXCEPT ![w] = r]
          /\ r.pc # "unblock" /\ (r.pc \in {"idle", "get"} <=> r.seq = None)
          /\ r.pc \in {"manage", "manage_empty"} => r.seq \in Background
    <2>1. CASE TakeTask(w)
      <3>1. PICK s \in scheduled : worker' = [worker EXCEPT ![w] = [pc |-> "before", seq |-> s]]
        BY <2>1 DEF TakeTask
      <3> DEFINE r == [pc |-> "before", seq |-> s]
      <3>2. s \in Seqs /\ s # None
        BY TraitsAssumption DEF TypeOK
      <3>3. r \in WorkerState /\ r.pc = "before" /\ r.seq = s
        BY <3>2, RecordFields DEF WorkerPcs
      <3> HIDE DEF r
      <3>4. worker' = [worker EXCEPT ![w] = r]
        BY <3>1 DEF r
      <3> QED BY <3>2, <3>3, <3>4
    <2>2. [pc |-> "idle", seq |-> None] \in WorkerState
      BY RecordFields DEF WorkerPcs
    <2>3. CASE Pop(w)
      BY <2>3, PopMoves, TraitsAssumption
    <2>4. CASE ManageBackgroundSequences(w)
      BY <2>2, <2>4 DEF ManageBackgroundSequences
    <2> QED BY <2>1, <2>3, <2>4
  <1>2. worker'[w] = r /\ \A v \in Workers \ {w} : worker'[v] = worker[v]
    BY <1>1, WorkerMoves
  <1>3. ASSUME NEW v \in Workers \ {w}, worker[v].pc = "unblock"
        PROVE  CurrentTask(v)' = CurrentTask(v)
    <2>1. CASE Pop(w)
      BY <1>3, <2>1, HeadKeptByPop DEF Busy
    <2>2. CASE TakeTask(w) \/ ManageBackgroundSequences(w)
      <3>1. queue' = queue
        BY <2>2 DEF TakeTask, ManageBackgroundSequences
      <3> QED BY <1>2, <3>1 DEF CurrentTask
    <2> QED BY <2>1, <2>2
  <1> QED BY <1>1, <1>2, <1>3 DEF WorkersHold, Skips

------------------------------------------------------------------------------
(* No task is in two places                                                  *)

\* Facts about the tasks that posters hold.
LEMMA HolderFacts ==
    ASSUME TypeOK, PostersHold, NEW p \in Posters, Holds(p)
    PROVE  /\ poster[p].task \in Task
           /\ poster[p].task.id \in 1 .. MaxPosts
           /\ poster[p].task.seq \in Seqs
  <1>1. poster[p].task \in Task
    BY DEF PostersHold, Holds
  <1> QED BY <1>1, TaskFields

\* A poster lets go of its task or keeps it, or its task is new.
LEMMA UniqueByPoster ==
    ASSUME TypeOK, TasksUnique, PostersHold, NEW p \in Posters, NEW r \in PosterState,
           poster' = [poster EXCEPT ![p] = r],
           r.pc \in Held => \/ Holds(p) /\ r.task = poster[p].task
                            \/ posts' = posts + 1 /\ r.task.id = posts',
           UNCHANGED <<queue, delayed>>,
           posts' \in {posts, posts + 1}
    PROVE  TasksUnique'
  <1>1. poster'[p] = r /\ \A q \in Posters \ {p} : poster'[q] = poster[q]
    BY PosterMoves
  <1>2. /\ Holds(p)' <=> r.pc \in Held
        /\ \A q \in Posters \ {p} : Holds(q)' <=> Holds(q)
    BY <1>1 DEF Holds, Held
  <1>3. posts \in Nat
    BY DEF TypeOK
  <1>4. /\ \A q \in Posters : Holds(q) => poster[q].task.id \in Nat
        /\ \A t \in delayed : t.id \in Nat
        /\ \A s \in Seqs : \A i \in 1 .. Len(queue[s]) : queue[s][i].id \in Nat
    <2>1. \A s \in Seqs : \A i \in 1 .. Len(queue[s]) : queue[s][i] \in Task
      BY DEF TypeOK
    <2> QED BY <2>1, HolderFacts, TaskFields DEF TypeOK
  <1>5. HeldOnce'
    BY <1>1, <1>2, <1>3, <1>4 DEF TasksUnique, HeldOnce, IdsUsed
  <1>6. QueuedOnce'
    <2>1. \A q \in Posters : Holds(q)' =>
            \A s \in Seqs : \A i \in 1 .. Len(queue[s]) : queue[s][i].id # poster'[q].task.id
      BY <1>1, <1>2, <1>3, <1>4 DEF TasksUnique, QueuedOnce, IdsUsed
    <2> QED BY <2>1 DEF TasksUnique, QueuedOnce
  <1>7. IdsUsed'
    <2>1. \A q \in Posters : Holds(q)' => poster'[q].task.id <= posts'
      BY <1>1, <1>2, <1>3, <1>4 DEF TasksUnique, IdsUsed
    <2>2. \A n \in Nat : n <= posts => n <= posts'
      BY <1>3
    <2>3. \A t \in delayed : t.id <= posts'
      BY <1>4, <2>2 DEF TasksUnique, IdsUsed
    <2>4. \A s \in Seqs : \A i \in 1 .. Len(queue[s]) : queue[s][i].id <= posts'
      BY <1>4, <2>2 DEF TasksUnique, IdsUsed
    <2> QED BY <2>1, <2>3, <2>4 DEF IdsUsed
  <1> QED BY <1>5, <1>6, <1>7 DEF TasksUnique

\* A delayed task goes to the DelayedTaskManager, ...
LEMMA UniqueByDelay ==
    ASSUME TypeOK, TasksUnique, NEW p \in Posters, Holds(p),
           poster' = [poster EXCEPT ![p] = [pc |-> "idle", task |-> NoTask]],
           delayed' = delayed \cup {poster[p].task},
           UNCHANGED <<queue, posts>>
    PROVE  TasksUnique'
  <1>1. ~Holds(p)' /\ \A q \in Posters \ {p} : poster'[q] = poster[q] /\ (Holds(q)' <=> Holds(q))
    <2>1. [pc |-> "idle", task |-> NoTask] \in PosterState
      BY RecordFields DEF PosterPcs
    <2> QED BY <2>1, PosterMoves DEF Holds
  <1>2. HeldOnce'
    BY <1>1 DEF TasksUnique, HeldOnce
  <1>3. QueuedOnce'
    BY <1>1 DEF TasksUnique, QueuedOnce
  <1>4. IdsUsed'
    BY <1>1 DEF TasksUnique, IdsUsed
  <1> QED BY <1>2, <1>3, <1>4 DEF TasksUnique

\* ... and comes back.
LEMMA UniqueByRipe ==
    ASSUME TypeOK, TasksUnique, NEW p \in Posters, NEW task \in delayed,
           poster' = [poster EXCEPT ![p] = [pc |-> "push", task |-> task]],
           delayed' = delayed \ {task},
           UNCHANGED <<queue, posts>>
    PROVE  TasksUnique'
  <1>1. /\ Holds(p)' /\ poster'[p].task = task
        /\ \A q \in Posters \ {p} : poster'[q] = poster[q] /\ (Holds(q)' <=> Holds(q))
    <2>1. [pc |-> "push", task |-> task] \in PosterState
      BY RecordFields DEF PosterPcs, TypeOK
    <2> QED BY <2>1, PosterMoves DEF Holds
  <1>2. HeldOnce'
    BY <1>1 DEF TasksUnique, HeldOnce
  <1>3. QueuedOnce'
    BY <1>1 DEF TasksUnique, QueuedOnce
  <1>4. IdsUsed'
    BY <1>1 DEF TasksUnique, IdsUsed
  <1> QED BY <1>2, <1>3, <1>4 DEF TasksUnique

\* PushTask moves the task from its poster to the end of the queue.
LEMMA UniqueByPush ==
    ASSUME TypeOK, TasksUnique, PostersHold, NEW p \in Posters, PushTask(p)
    PROVE  TasksUnique'
  <1> DEFINE task == poster[p].task
             s0 == task.seq
             u == [task EXCEPT !.time = posts]
             n == Len(queue[s0]) + 1
  <1>1. Holds(p) /\ task \in Task /\ s0 \in Seqs /\ u \in Task /\ u.id = task.id
    BY TaskFields DEF PushTask, Holds, PostersHold, TypeOK
  <1>2. /\ queue \in [Seqs -> Seq(Task)]
        /\ queue' = [queue EXCEPT ![s0] = Append(@, u)]
    BY DEF PushTask, TypeOK
  <1>3. ~Holds(p)' /\ \A q \in Posters \ {p} : poster'[q] = poster[q] /\ (Holds(q)' <=> Holds(q))
    <2> DEFINE r == IF SequenceWasEmpty(s0) THEN [pc |-> "schedule", task |-> task]
                    ELSE [pc |-> "idle", task |-> NoTask]
    <2>1. /\ r \in PosterState /\ r.pc \in {"schedule", "idle"}
          /\ poster' = [poster EXCEPT ![p] = r]
      BY <1>1, RecordFields DEF PushTask, PosterPcs
    <2> HIDE DEF r
    <2> QED BY <2>1, PosterMoves DEF Holds
  <1>4. delayed' = delayed /\ posts' = posts
    BY DEF PushTask
  <1> HIDE DEF u, s0, task
  <1>5. \A s \in Seqs : \A i \in 1 .. Len(queue'[s]) :
          \/ s = s0 /\ i = n /\ queue'[s][i] = u
          \/ i \in 1 .. Len(queue[s]) /\ queue'[s][i] = queue[s][i]
    <2>1. /\ \A s \in Seqs \ {s0} : queue'[s] = queue[s]
          /\ Len(queue[s0]) \in Nat
          /\ Len(queue'[s0]) = n
          /\ queue'[s0][n] = u
          /\ \A i \in 1 .. Len(queue[s0]) : queue'[s0][i] = queue[s0][i]
      BY <1>1, <1>2, Pushed
    <2> QED BY <2>1
  <1> HIDE DEF n
  <1>6. HeldOnce'
    BY <1>3, <1>4 DEF TasksUnique, HeldOnce
  <1>7. QueuedOnce'
    <2>1. ASSUME NEW q \in Posters, Holds(q)', NEW s \in Seqs, NEW i \in 1 .. Len(queue'[s])
          PROVE  queue'[s][i].id # poster'[q].task.id
      BY <1>1, <1>3, <1>5, <2>1 DEF TasksUnique, QueuedOnce, HeldOnce, task
    <2>2. ASSUME NEW t \in delayed, NEW s \in Seqs, NEW i \in 1 .. Len(queue'[s])
          PROVE  queue'[s][i].id # t.id
      BY <1>1, <1>5, <2>2 DEF TasksUnique, QueuedOnce, HeldOnce, task
    <2>3. ASSUME NEW q \in Seqs, NEW s \in Seqs, NEW i \in 1 .. Len(queue'[q]),
                 NEW j \in 1 .. Len(queue'[s]), queue'[q][i].id = queue'[s][j].id
          PROVE  q = s /\ i = j
      <3>1. QueuedOnce
        BY DEF TasksUnique
      <3>2. \A r \in Seqs : \A k \in 1 .. Len(queue[r]) : queue[r][k].id # u.id
        BY <1>1, <3>1 DEF QueuedOnce, task
      <3>3. CASE q = s0 /\ i = n /\ queue'[q][i] = u
        BY <1>5, <2>3, <3>2, <3>3
      <3>4. CASE s = s0 /\ j = n /\ queue'[s][j] = u
        BY <1>5, <2>3, <3>2, <3>4
      <3>5. CASE /\ i \in 1 .. Len(queue[q]) /\ queue'[q][i] = queue[q][i]
                 /\ j \in 1 .. Len(queue[s]) /\ queue'[s][j] = queue[s][j]
        BY <2>3, <3>1, <3>5 DEF QueuedOnce
      <3> QED BY <1>5, <2>3, <3>3, <3>4, <3>5
    <2>4. \A p0 \in Posters : Holds(p0)' =>
            \A s \in Seqs : \A i \in 1 .. Len(queue'[s]) : queue'[s][i].id # poster'[p0].task.id
      BY <2>1
    <2>5. \A t \in delayed' :
            \A s \in Seqs : \A i \in 1 .. Len(queue'[s]) : queue'[s][i].id # t.id
      BY <1>4, <2>2
    <2>6. \A q, s \in Seqs : \A i \in 1 .. Len(queue'[q]) : \A j \in 1 .. Len(queue'[s]) :
            queue'[q][i].id = queue'[s][j].id => q = s /\ i = j
      BY <2>3
    <2> QED BY <2>4, <2>5, <2>6, Zenon DEF QueuedOnce
  <1>8. IdsUsed'
    <2>1. \A s \in Seqs : \A i \in 1 .. Len(queue'[s]) : queue'[s][i].id <= posts
      BY <1>1, <1>5 DEF TasksUnique, IdsUsed, task
    <2> QED BY <1>3, <1>4, <2>1 DEF TasksUnique, IdsUsed
  <1> QED BY <1>6, <1>7, <1>8 DEF TasksUnique

\* Pop takes one task out of a queue and moves the others up.
LEMMA UniqueByPop ==
    ASSUME TypeOK, Placed, WorkersHold, TasksUnique, NEW w \in Workers, Pop(w)
    PROVE  TasksUnique'
  <1> DEFINE s0 == worker[w].seq
  <1>1. s0 \in Seqs /\ queue[s0] # <<>>
    BY BusyWorker DEF Pop, Busy
  <1>2. /\ queue \in [Seqs -> Seq(Task)]
        /\ queue' = [queue EXCEPT ![s0] = Tail(@)]
        /\ UNCHANGED <<delayed, poster, posts>>
    BY DEF Pop, TypeOK
  <1> DEFINE k(s) == IF s = s0 THEN 1 ELSE 0
  <1>3. \A s \in Seqs : \A i \in 1 .. Len(queue'[s]) :
          /\ i \in Nat
          /\ i + k(s) \in 1 .. Len(queue[s]) /\ queue'[s][i] = queue[s][i + k(s)]
    <2> HIDE DEF s0
    <2>1. /\ \A s \in Seqs \ {s0} : queue'[s] = queue[s]
          /\ \A i \in 1 .. Len(queue'[s0]) :
                i + 1 \in 1 .. Len(queue[s0]) /\ queue'[s0][i] = queue[s0][i + 1]
      BY <1>1, <1>2, Popped
    <2> QED BY <2>1
  <1>4. \A s \in Seqs : k(s) \in Nat
    OBVIOUS
  <1> HIDE DEF k, s0
  <1>5. \A p \in Posters : Holds(p)' <=> Holds(p)
    BY <1>2 DEF Holds
  <1>6. HeldOnce'
    BY <1>2, <1>5 DEF TasksUnique, HeldOnce
  <1>7. QueuedOnce'
    <2>1. ASSUME NEW r \in Seqs, NEW s \in Seqs, NEW i \in 1 .. Len(queue'[r]),
                 NEW j \in 1 .. Len(queue'[s]), queue'[r][i].id = queue'[s][j].id
          PROVE  r = s /\ i = j
      <3>1. queue[r][i + k(r)].id = queue[s][j + k(s)].id
        BY <1>3, <2>1
      <3>2. r = s /\ i + k(r) = j + k(s)
        BY <1>3, <3>1 DEF TasksUnique, QueuedOnce
      <3> QED BY <1>3, <1>4, <3>2
    <2>2. \A p \in Posters : Holds(p) =>
         \A s \in Seqs : \A i \in 1 .. Len(queue'[s]) : queue'[s][i].id # poster[p].task.id
      BY <1>3 DEF TasksUnique, QueuedOnce
    <2>3. \A t \in delayed :
         \A s \in Seqs : \A i \in 1 .. Len(queue'[s]) : queue'[s][i].id # t.id
      BY <1>3 DEF TasksUnique, QueuedOnce
    <2>4. \A p0 \in Posters : Holds(p0)' =>
            \A s \in Seqs : \A i \in 1 .. Len(queue'[s]) : queue'[s][i].id # poster'[p0].task.id
      BY <1>2, <1>5, <2>2
    <2>5. \A t \in delayed' :
            \A s \in Seqs : \A i \in 1 .. Len(queue'[s]) : queue'[s][i].id # t.id
      BY <1>2, <2>3
    <2>6. \A q, s \in Seqs : \A i \in 1 .. Len(queue'[q]) : \A j \in 1 .. Len(queue'[s]) :
            queue'[q][i].id = queue'[s][j].id => q = s /\ i = j
      BY <2>1
    <2> QED BY <2>4, <2>5, <2>6, Zenon DEF QueuedOnce
  <1>8. IdsUsed'
    BY <1>2, <1>3, <1>5 DEF TasksUnique, IdsUsed
  <1> QED BY <1>6, <1>7, <1>8 DEF TasksUnique

\* Tasks that do not move stay unique.
LEMMA UniqueFrame ==
    ASSUME TasksUnique, UNCHANGED <<queue, delayed, poster, posts>>
    PROVE  TasksUnique'
  BY DEF TasksUnique, HeldOnce, QueuedOnce, IdsUsed, Holds

------------------------------------------------------------------------------
(* The part of the invariant that does not count                             *)

Structure == Placed /\ PostersHold /\ WorkersHold /\ WaitersKnown /\ TasksUnique

\* A poster that moves still has a task if it needs one.
LEMMA PostersHoldMoves ==
    ASSUME TypeOK, PostersHold, NEW p \in Posters, NEW r \in PosterState,
           poster' = [poster EXCEPT ![p] = r],
           r.pc # "idle" => r.task \in Task,
           r.pc = "check" => Blocks(r.task) /\ ~r.task.early
    PROVE  PostersHold'
  <1>1. poster'[p] = r /\ \A q \in Posters \ {p} : poster'[q] = poster[q]
    BY PosterMoves
  <1> QED BY <1>1 DEF PostersHold, Blocks

\* The structure depends on nothing but the places.
LEMMA StructureFrame ==
    ASSUME TypeOK, Structure, UNCHANGED places
    PROVE  Structure'
  <1> USE DEF places
  <1>1. Placed'
    BY PlacedFrame DEF Structure, Schedules, Owns
  <1>2. PostersHold' /\ WaitersKnown'
    BY DEF Structure, PostersHold, WaitersKnown, Blocks
  <1>3. WorkersHold'
    BY WorkersHoldFrame DEF Structure
  <1> QED BY <1>1, <1>2, <1>3, UniqueFrame DEF Structure

\* The record of a poster that goes on with its task, or has none any more.
IdlePoster == [pc |-> "idle", task |-> NoTask]

\* The record of an idle poster is one of a poster.
LEMMA IdlePosterFacts == IdlePoster \in PosterState /\ IdlePoster.pc = "idle"
  BY RecordFields DEF PosterPcs, IdlePoster

\* BeforePostTask: a new task.
LEMMA NewTask ==
    ASSUME TypeOK, NEW p \in Posters, NEW s \in Seqs, NEW d \in BOOLEAN,
           BeforePostTask(p, s, d)
    PROVE  \E task \in Task : \E r \in PosterState :
             /\ task.id = posts + 1
             /\ started => ~task.early /\ Blocks(task)
             /\ posts' = posts + 1
             /\ posts < MaxPosts
             /\ num_blocking' = IF Blocks(task) THEN num_blocking + 1 ELSE num_blocking
             /\ poster[p].pc = "idle"
             /\ poster' = [poster EXCEPT ![p] = r]
             /\ r.task = task
             /\ r.pc = IF started THEN "check" ELSE "count"
  <1> DEFINE task == [id |-> posts + 1, seq |-> s, is_delayed |-> d, time |-> 0,
                      early |-> ~started]
             r == [pc |-> IF started THEN "check" ELSE "count", task |-> task]
  <1>1. task \in Task /\ task.id = posts + 1 /\ (started => ~task.early)
    <2>1. posts + 1 \in 1 .. MaxPosts /\ 0 \in 0 .. MaxPosts
      BY BoundsAssumption DEF TypeOK, BeforePostTask
    <2>2. started \in BOOLEAN /\ (~started) \in BOOLEAN
      BY DEF TypeOK
    <2> QED BY <2>1, <2>2, Zenon DEF Task
  <1>2. /\ started => Blocks(task)
        /\ posts' = posts + 1
        /\ posts < MaxPosts
        /\ num_blocking' = IF Blocks(task) THEN num_blocking + 1 ELSE num_blocking
        /\ poster[p].pc = "idle"
        /\ poster' = [poster EXCEPT ![p] = r]
    BY DEF BeforePostTask
  <1> HIDE DEF task
  <1>3. r \in PosterState /\ r.task = task /\ r.pc = IF started THEN "check" ELSE "count"
    BY <1>1, RecordFields DEF PosterPcs
  <1> HIDE DEF r
  <1> QED BY <1>1, <1>2, <1>3

\* BeforePostTask gives an idle poster a task with a new id.
LEMMA StructureBeforePost ==
    ASSUME TypeOK, Structure, NEW p \in Posters, NEW s \in Seqs, NEW d \in BOOLEAN,
           BeforePostTask(p, s, d)
    PROVE  Structure'
  <1>1. PICK task \in Task, r \in PosterState :
          /\ task.id = posts + 1
          /\ started => ~task.early /\ Blocks(task)
          /\ posts' = posts + 1
          /\ poster[p].pc = "idle"
          /\ poster' = [poster EXCEPT ![p] = r]
          /\ r.task = task
          /\ r.pc = IF started THEN "check" ELSE "count"
    BY NewTask
  <1>2. r.pc \in {"check", "count"} /\ (r.pc = "check" => started)
    BY <1>1
  <1>3. UNCHANGED <<preempted, queue, scheduled, worker, delayed>>
    BY DEF BeforePostTask, background
  <1>4. Placed'
    BY <1>1, <1>2, <1>3, PlacedByPoster DEF Structure
  <1>5. PostersHold'
    BY <1>1, <1>2, PostersHoldMoves DEF Structure
  <1>6. WorkersHold'
    BY <1>3, WorkersHoldFrame DEF Structure
  <1>7. WaitersKnown'
    BY <1>3 DEF Structure, WaitersKnown
  <1>8. TasksUnique'
    BY <1>1, <1>2, <1>3, UniqueByPoster DEF Structure
  <1> QED BY <1>4, <1>5, <1>6, <1>7, <1>8 DEF Structure

\* What PostDuringShutdown and WillPostTask do with the poster's task.
LEMMA PosterGoesOn ==
    ASSUME TypeOK, PostersHold, NEW p \in Posters, Holds(p), NEW pc \in {"count", "push"},
           Goto(p, pc)
    PROVE  \E r \in PosterState : /\ poster' = [poster EXCEPT ![p] = r]
                                  /\ r.pc = pc /\ r.task = poster[p].task
                                  /\ r.task \in Task
  <1> DEFINE r == [pc |-> pc, task |-> poster[p].task]
  <1>1. poster[p].task \in Task
    BY HolderFacts
  <1>2. r \in PosterState /\ r.pc = pc /\ r.task = poster[p].task
    BY <1>1, RecordFields DEF PosterPcs
  <1>3. poster' = [poster EXCEPT ![p] = r]
    BY PosterGoes DEF PosterPcs
  <1> HIDE DEF r
  <1> QED BY <1>1, <1>2, <1>3

\* PostDuringShutdown drops the poster's task or lets it go on.
LEMMA StructurePostDuring ==
    ASSUME TypeOK, Structure, NEW p \in Posters, PostDuringShutdown(p)
    PROVE  Structure'
  <1>1. UNCHANGED <<preempted, queue, scheduled, worker, delayed, posts>>
    BY DEF PostDuringShutdown, background
  <1>2. poster[p].pc = "check" /\ Holds(p)
    BY DEF PostDuringShutdown, Holds
  <1>3. PICK r \in PosterState :
          /\ poster' = [poster EXCEPT ![p] = r]
          /\ \/ r.pc = "idle"
             \/ r.pc = "count" /\ r.task = poster[p].task /\ r.task \in Task
    <2>1. poster' = [poster EXCEPT ![p] = IdlePoster] \/ Goto(p, "count")
      BY DEF PostDuringShutdown, IdlePoster
    <2> QED BY <1>2, <2>1, IdlePosterFacts, PosterGoesOn DEF Structure
  <1>4. Placed'
    BY <1>1, <1>2, <1>3, PlacedByPoster DEF Structure
  <1>5. PostersHold'
    BY <1>3, PostersHoldMoves DEF Structure
  <1>6. WorkersHold'
    BY <1>1, WorkersHoldFrame DEF Structure
  <1>7. WaitersKnown'
    BY <1>1 DEF Structure, WaitersKnown
  <1>8. TasksUnique'
    BY <1>1, <1>2, <1>3, UniqueByPoster DEF Structure, Held
  <1> QED BY <1>4, <1>5, <1>6, <1>7, <1>8 DEF Structure

\* WillPostTask hands a delayed task over, or lets the poster go on.
LEMMA StructureWillPost ==
    ASSUME TypeOK, Structure, NEW p \in Posters, WillPostTask(p)
    PROVE  Structure'
  <1>1. UNCHANGED <<preempted, queue, scheduled, worker, posts>>
    BY DEF WillPostTask, background
  <1>2. poster[p].pc = "count" /\ Holds(p)
    BY DEF WillPostTask, Holds
  <1>3. WorkersHold'
    BY <1>1, WorkersHoldFrame DEF Structure
  <1>4. CASE poster[p].task.is_delayed
    <2>1. /\ delayed' = delayed \cup {poster[p].task}
          /\ poster' = [poster EXCEPT ![p] = IdlePoster]
      BY <1>4 DEF WillPostTask, IdlePoster
    <2>2. Placed' /\ PostersHold'
      BY <1>1, <1>2, <2>1, PlacedByPoster, PostersHoldMoves, IdlePosterFacts DEF Structure
    <2>3. WaitersKnown'
      BY <1>1, <1>4, <2>1 DEF Structure, WaitersKnown
    <2>4. TasksUnique'
      BY <1>1, <1>2, <2>1, UniqueByDelay DEF Structure, IdlePoster
    <2> QED BY <1>3, <2>2, <2>3, <2>4 DEF Structure
  <1>5. CASE ~poster[p].task.is_delayed
    <2>1. Goto(p, "push") /\ delayed' = delayed
      BY <1>5 DEF WillPostTask
    <2>2. PICK r \in PosterState : /\ poster' = [poster EXCEPT ![p] = r]
                                   /\ r.pc = "push" /\ r.task = poster[p].task
                                   /\ r.task \in Task
      BY <1>2, <2>1, PosterGoesOn DEF Structure
    <2>3. Placed' /\ PostersHold'
      BY <1>1, <1>2, <2>2, PlacedByPoster, PostersHoldMoves DEF Structure
    <2>4. WaitersKnown'
      BY <1>1, <2>1 DEF Structure, WaitersKnown
    <2>5. TasksUnique'
      BY <1>1, <1>2, <2>1, <2>2, UniqueByPoster DEF Structure
    <2> QED BY <1>3, <2>3, <2>4, <2>5 DEF Structure
  <1> QED BY <1>4, <1>5

\* A ripe delayed task comes back to an idle poster.
LEMMA StructureRipe ==
    ASSUME TypeOK, Structure, NEW p \in Posters, DelayedTaskRipe(p)
    PROVE  Structure'
  <1>1. UNCHANGED <<preempted, queue, scheduled, worker, posts>> /\ poster[p].pc = "idle"
    BY DEF DelayedTaskRipe, background
  <1>2. PICK task \in delayed :
          /\ delayed' = delayed \ {task}
          /\ poster' = [poster EXCEPT ![p] = [pc |-> "push", task |-> task]]
    BY DEF DelayedTaskRipe
  <1> DEFINE r == [pc |-> "push", task |-> task]
  <1>3. task \in Task /\ r \in PosterState /\ r.pc = "push" /\ r.task = task
    BY RecordFields DEF TypeOK, PosterPcs
  <1>4. poster' = [poster EXCEPT ![p] = r]
    BY <1>2
  <1>5. TasksUnique'
    BY <1>1, <1>2, UniqueByRipe DEF Structure
  <1> HIDE DEF r
  <1>6. Placed' /\ PostersHold'
    BY <1>1, <1>3, <1>4, PlacedByPoster, PostersHoldMoves DEF Structure
  <1>7. WorkersHold'
    BY <1>1, WorkersHoldFrame DEF Structure
  <1>8. WaitersKnown'
    BY <1>1, <1>2 DEF Structure, WaitersKnown
  <1> QED BY <1>5, <1>6, <1>7, <1>8 DEF Structure

\* What PushTask does to its poster.
LEMMA PushMoves ==
    ASSUME TypeOK, PostersHold, NEW p \in Posters, PushTask(p)
    PROVE  \E r \in PosterState : /\ poster' = [poster EXCEPT ![p] = r]
                                  /\ r.pc \in {"schedule", "idle"}
                                  /\ r.pc # "idle" => r.task \in Task
  <1> DEFINE task == poster[p].task
             r == IF SequenceWasEmpty(task.seq) THEN [pc |-> "schedule", task |-> task]
                  ELSE [pc |-> "idle", task |-> NoTask]
  <1>1. task \in Task
    BY DEF PushTask, PostersHold
  <1>2. /\ r \in PosterState /\ r.pc \in {"schedule", "idle"}
        /\ r.pc # "idle" => r.task = task
        /\ poster' = [poster EXCEPT ![p] = r]
    BY <1>1, RecordFields DEF PushTask, PosterPcs
  <1> HIDE DEF r
  <1> QED BY <1>1, <1>2

\* PushTask moves the poster's task into its queue.
LEMMA StructurePush ==
    ASSUME TypeOK, Structure, NEW p \in Posters, PushTask(p)
    PROVE  Structure'
  <1>1. Placed' /\ TasksUnique'
    BY PlacedByPush, UniqueByPush DEF Structure
  <1>2. PostersHold'
    BY PushMoves, PostersHoldMoves DEF Structure
  <1>3. worker' = worker
    BY DEF PushTask
  <1>4. WorkersHold'
    BY <1>3, WorkersHoldFrame DEF Structure
  <1>5. WaitersKnown'
    BY DEF PushTask, background, Structure, WaitersKnown
  <1> QED BY <1>1, <1>2, <1>4, <1>5 DEF Structure

\* WillScheduleSequence moves the sequence to the pool, or preempts it.
LEMMA StructureWillSchedule ==
    ASSUME TypeOK, Structure, NEW p \in Posters, WillScheduleSequence(p)
    PROVE  Structure'
  <1>1. /\ poster' = [poster EXCEPT ![p] = IdlePoster]
        /\ UNCHANGED <<queue, delayed, worker, posts>>
    BY DEF WillScheduleSequence, IdlePoster
  <1>2. Placed'
    BY PlacedByWillSchedule DEF Structure
  <1>3. PostersHold' /\ TasksUnique'
    BY <1>1, IdlePosterFacts, PostersHoldMoves, UniqueByPoster DEF Structure, Held
  <1>4. WorkersHold'
    BY <1>1, WorkersHoldFrame DEF Structure
  <1>5. WaitersKnown'
    <2> DEFINE s == poster[p].task.seq
    <2>1. \/ preempted' = preempted
          \/ s \in Background /\ preempted' = preempted \cup {<<s, SequencedTime(s)>>}
      BY DEF WillScheduleSequence, CanSchedule
    <2>2. <<s, SequencedTime(s)>>[1] = s
      OBVIOUS
    <2> HIDE DEF s
    <2> QED BY <1>1, <2>1, <2>2 DEF Structure, WaitersKnown
  <1> QED BY <1>2, <1>3, <1>4, <1>5 DEF Structure

\* TakeTask moves a sequence from the pool to a worker.
LEMMA StructureTake ==
    ASSUME TypeOK, Structure, NEW w \in Workers, TakeTask(w)
    PROVE  Structure'
  <1>1. Placed' /\ WorkersHold'
    BY PlacedByTake, WorkersHoldMoves DEF Structure
  <1>2. UNCHANGED <<preempted, queue, delayed, poster, posts>>
    BY DEF TakeTask, background
  <1> QED BY <1>1, <1>2, UniqueFrame DEF Structure, PostersHold, WaitersKnown, Blocks

\* A worker's step with its task moves nothing.
LEMMA StructureGoesOn ==
    ASSUME TypeOK, Structure, NEW w \in Workers, NEW pc \in Busy, GoesOn(w, pc),
           pc = "unblock" => Skips(CurrentTask(w))
    PROVE  Structure'
  <1>1. Placed' /\ WorkersHold'
    BY PlacedByWorker, WorkersHoldGoesOn DEF Structure
  <1>2. UNCHANGED <<preempted, queue, delayed, poster, posts>>
    BY DEF GoesOn, background
  <1> QED BY <1>1, <1>2, UniqueFrame DEF Structure, PostersHold, WaitersKnown, Blocks

\* Pop takes the first task away and gives the sequence back, or keeps it.
LEMMA StructurePop ==
    ASSUME TypeOK, Structure, NEW w \in Workers, Pop(w)
    PROVE  Structure'
  <1>1. Placed' /\ WorkersHold' /\ TasksUnique'
    BY PlacedByPop, WorkersHoldMoves, UniqueByPop DEF Structure
  <1>2. UNCHANGED <<preempted, delayed, poster>>
    BY DEF Pop, background
  <1> QED BY <1>1, <1>2 DEF Structure, PostersHold, WaitersKnown, Blocks

\* ManageBackgroundSequences moves sequences between the pool and the
\* preempted ones.
LEMMA StructureManage ==
    ASSUME TypeOK, Structure, NEW w \in Workers, ManageBackgroundSequences(w)
    PROVE  Structure'
  <1>1. Placed' /\ WorkersHold'
    BY PlacedByManage, WorkersHoldMoves DEF Structure
  <1>2. UNCHANGED <<queue, delayed, poster, posts>>
    BY DEF ManageBackgroundSequences
  <1>3. WaitersKnown'
    <2> DEFINE s == worker[w].seq
               y == <<s, SequencedTime(s)>>
    <2>1. y[1] \in Background
      BY DEF ManageBackgroundSequences, Structure, WorkersHold
    <2>2. preempted' \subseteq preempted \cup {y}
      BY DEF ManageBackgroundSequences, SequencesWaiting
    <2> HIDE DEF y
    <2> QED BY <1>2, <2>1, <2>2 DEF Structure, WaitersKnown
  <1> QED BY <1>1, <1>2, <1>3, UniqueFrame DEF Structure, PostersHold, Blocks

\* Lifting the cap moves every preempted sequence to the pool.
LEMMA StructureSetMax ==
    ASSUME TypeOK, Structure, SetMaxNumScheduledBackgroundSequences
    PROVE  Structure'
  <1>1. Placed'
    BY PlacedBySetMax DEF Structure
  <1>2. /\ UNCHANGED <<queue, delayed, poster, worker, posts>>
        /\ preempted' = {}
    BY DEF SetMaxNumScheduledBackgroundSequences, PreemptedToSchedule
  <1>3. WorkersHold'
    BY <1>2, WorkersHoldFrame DEF Structure
  <1> QED BY <1>1, <1>2, <1>3, UniqueFrame DEF Structure, PostersHold, WaitersKnown, Blocks

------------------------------------------------------------------------------
(* The cap on background sequences                                           *)

BackgroundPool == scheduled \cap Background
BackgroundWorkers == {w \in Workers : worker[w].seq \in Background}

\* What num_background counts is finite.
LEMMA BackgroundFinite ==
    ASSUME TypeOK
    PROVE  /\ IsFiniteSet(BackgroundPool) /\ Cardinality(BackgroundPool) \in Nat
           /\ IsFiniteSet(BackgroundWorkers) /\ Cardinality(BackgroundWorkers) \in Nat
  <1>1. BackgroundPool \in SUBSET Seqs /\ BackgroundWorkers \in SUBSET Workers
    BY DEF TypeOK, BackgroundPool, BackgroundWorkers
  <1> QED BY <1>1, BoundsAssumption, FS_Subset, FS_CardinalityType

\* BackgroundCapKept in terms of the two sets.
LEMMA CapIs ==
    /\ BackgroundCapKept <=>
         /\ num_background = Cardinality(BackgroundPool) + Cardinality(BackgroundWorkers)
         /\ num_background <= max_background
         /\ preempted # {} => num_background = max_background
    /\ BackgroundCapKept' <=>
         /\ num_background' = Cardinality(BackgroundPool') + Cardinality(BackgroundWorkers')
         /\ num_background' <= max_background'
         /\ preempted' # {} => num_background' = max_background'
  BY DEF BackgroundCapKept, BackgroundPool, BackgroundWorkers

\* A step that moves no sequence keeps the cap.
LEMMA CapFrame ==
    ASSUME BackgroundCapKept, UNCHANGED <<background, scheduled>>,
           \A w \in Workers : worker'[w].seq = worker[w].seq
    PROVE  BackgroundCapKept'
  <1>1. BackgroundPool' = BackgroundPool /\ BackgroundWorkers' = BackgroundWorkers
    BY DEF BackgroundPool, BackgroundWorkers
  <1> QED BY <1>1, CapIs DEF background

\* A worker that goes on with its task stays counted.
LEMMA CapGoesOn ==
    ASSUME TypeOK, BackgroundCapKept, NEW w \in Workers, NEW pc \in Busy, GoesOn(w, pc)
    PROVE  BackgroundCapKept'
  <1>1. worker' = [worker EXCEPT ![w] = [pc |-> pc, seq |-> worker[w].seq]]
    BY WorkerGoesMoves DEF GoesOn, Busy, WorkerPcs
  <1>2. \A v \in Workers : worker'[v].seq = worker[v].seq
    BY <1>1 DEF TypeOK
  <1> QED BY <1>2, CapFrame DEF GoesOn

\* A sequence is added to the pool only below the cap.
LEMMA CapWillSchedule ==
    ASSUME TypeOK, Structure, BackgroundCapKept, NEW p \in Posters, WillScheduleSequence(p)
    PROVE  BackgroundCapKept'
  <1> DEFINE s == poster[p].task.seq
  <1>1. s \in Seqs /\ s \notin scheduled
    <2>1. s \in Seqs /\ Schedules(p, s)
      BY TaskFields DEF WillScheduleSequence, Structure, PostersHold, Schedules
    <2> QED BY <2>1 DEF Structure, Placed, PlacedApart
  <1>2. BackgroundWorkers' = BackgroundWorkers /\ max_background' = max_background
    BY DEF WillScheduleSequence, BackgroundWorkers
  <1>3. /\ num_background \in Nat /\ max_background \in Nat
        /\ num_background = Cardinality(BackgroundPool) + Cardinality(BackgroundWorkers)
        /\ num_background <= max_background
        /\ preempted # {} => num_background = max_background
    BY CapIs DEF TypeOK
  <1>4. CASE ~CanSchedule(s)
    <2>1. scheduled' = scheduled /\ num_background' = num_background
      BY <1>4 DEF WillScheduleSequence
    <2>2. BackgroundPool' = BackgroundPool
      BY <2>1 DEF BackgroundPool
    <2>3. num_background = max_background
      BY <1>3, <1>4 DEF CanSchedule
    <2> QED BY <1>2, <1>3, <2>1, <2>2, <2>3, CapIs
  <1>5. CASE CanSchedule(s) /\ s \notin Background
    <2>1. scheduled' = scheduled \cup {s} /\ UNCHANGED <<num_background, preempted>>
      BY <1>5 DEF WillScheduleSequence
    <2>2. BackgroundPool' = BackgroundPool
      BY <1>5, <2>1 DEF BackgroundPool
    <2> QED BY <1>2, <1>3, <2>1, <2>2, CapIs
  <1>6. CASE CanSchedule(s) /\ s \in Background
    <2>1. /\ scheduled' = scheduled \cup {s} /\ preempted' = preempted
          /\ num_background' = num_background + 1
      BY <1>6 DEF WillScheduleSequence
    <2>2. BackgroundPool' = BackgroundPool \cup {s} /\ s \notin BackgroundPool
      BY <1>1, <1>6, <2>1 DEF BackgroundPool
    <2>3. Cardinality(BackgroundPool') = Cardinality(BackgroundPool) + 1
      BY <2>2, BackgroundFinite, FS_AddElement
    <2>4. num_background < max_background
      BY <1>6 DEF CanSchedule
    <2> QED BY <1>2, <1>3, <2>1, <2>3, <2>4, BackgroundFinite, CapIs
  <1> QED BY <1>4, <1>5, <1>6

\* A sequence that a worker takes from the pool stays counted.
LEMMA CapTake ==
    ASSUME TypeOK, Structure, BackgroundCapKept, NEW w \in Workers, TakeTask(w)
    PROVE  BackgroundCapKept'
  <1>1. PICK s \in scheduled :
          /\ scheduled' = scheduled \ {s}
          /\ worker' = [worker EXCEPT ![w] = [pc |-> "before", seq |-> s]]
    BY DEF TakeTask
  <1>2. worker'[w].seq = s /\ \A v \in Workers \ {w} : worker'[v] = worker[v]
    <2>1. [pc |-> "before", seq |-> s] \in WorkerState
      BY RecordFields DEF TypeOK, WorkerPcs
    <2> QED BY <1>1, <2>1, WorkerMoves
  <1>3. worker[w].seq \notin Background
    BY TraitsAssumption DEF TakeTask, Structure, WorkersHold
  <1>4. UNCHANGED <<num_background, max_background, preempted>>
    BY DEF TakeTask, background
  <1>5. CASE s \notin Background
    <2>1. BackgroundPool' = BackgroundPool /\ BackgroundWorkers' = BackgroundWorkers
      BY <1>1, <1>2, <1>3, <1>5 DEF BackgroundPool, BackgroundWorkers
    <2> QED BY <1>4, <2>1, CapIs
  <1>6. CASE s \in Background
    <2>1. /\ BackgroundPool' = BackgroundPool \ {s} /\ s \in BackgroundPool
          /\ BackgroundWorkers' = BackgroundWorkers \cup {w} /\ w \notin BackgroundWorkers
      BY <1>1, <1>2, <1>3, <1>6 DEF BackgroundPool, BackgroundWorkers
    <2>2. /\ Cardinality(BackgroundPool') = Cardinality(BackgroundPool) - 1
          /\ Cardinality(BackgroundWorkers') = Cardinality(BackgroundWorkers) + 1
      BY <2>1, BackgroundFinite, FS_AddElement, FS_RemoveElement
    <2> QED BY <1>4, <2>2, BackgroundFinite, CapIs
  <1> QED BY <1>5, <1>6

\* A foreground sequence is not counted; a background one stays with its worker.
LEMMA CapPop ==
    ASSUME TypeOK, Structure, BackgroundCapKept, NEW w \in Workers, Pop(w)
    PROVE  BackgroundCapKept'
  <1> DEFINE s == worker[w].seq
  <1>1. UNCHANGED background
    BY DEF Pop
  <1>2. CASE s \in Background
    <2>1. scheduled' = scheduled /\ \A v \in Workers : worker'[v].seq = worker[v].seq
      BY <1>2 DEF Pop, WorkerGoes, TypeOK
    <2> QED BY <1>1, <2>1, CapFrame
  <1>3. CASE s \notin Background
    <2>1. /\ worker' = [worker EXCEPT ![w] = [pc |-> "idle", seq |-> None]]
          /\ scheduled' \in {scheduled, scheduled \cup {s}}
      BY <1>3 DEF Pop
    <2>2. worker'[w].seq = None /\ \A v \in Workers \ {w} : worker'[v] = worker[v]
      BY <2>1 DEF TypeOK
    <2>3. BackgroundPool' = BackgroundPool /\ BackgroundWorkers' = BackgroundWorkers
      BY <1>3, <2>1, <2>2, TraitsAssumption DEF BackgroundPool, BackgroundWorkers
    <2> QED BY <1>1, <2>3, CapIs DEF background
  <1> QED BY <1>2, <1>3

\* The slot stays with the sequence, goes to another, or is given up.
LEMMA CapManage ==
    ASSUME TypeOK, Structure, BackgroundCapKept, NEW w \in Workers,
           ManageBackgroundSequences(w)
    PROVE  BackgroundCapKept'
  <1> DEFINE s == worker[w].seq
             y == <<s, SequencedTime(s)>>
             just_ran == IF worker[w].pc = "manage" THEN {y} ELSE {}
  <1>1. /\ s \in Background /\ s \in Seqs
        /\ worker[w].pc = "manage" => s \notin scheduled
    <2>1. s \in Background /\ s \in Seqs
      BY TraitsAssumption DEF ManageBackgroundSequences, Structure, WorkersHold
    <2>2. worker[w].pc = "manage" => Owns(w, s)
      BY DEF Owns
    <2> QED BY <2>1, <2>2 DEF Structure, Placed, PlacedApart
  <1>2. Cardinality(BackgroundWorkers') = Cardinality(BackgroundWorkers) - 1
    <2>1. worker'[w].seq = None /\ \A v \in Workers \ {w} : worker'[v] = worker[v]
      BY DEF ManageBackgroundSequences, TypeOK
    <2>2. BackgroundWorkers' = BackgroundWorkers \ {w} /\ w \in BackgroundWorkers
      BY <1>1, <2>1, TraitsAssumption DEF BackgroundWorkers
    <2> QED BY <2>2, BackgroundFinite, FS_RemoveElement
  <1>3. /\ num_background = Cardinality(BackgroundPool) + Cardinality(BackgroundWorkers)
        /\ num_background <= max_background
        /\ preempted # {} => num_background = max_background
        /\ max_background' = max_background
        /\ num_background \in Nat /\ max_background \in Nat
    BY CapIs DEF ManageBackgroundSequences, TypeOK
  <1>4. ASSUME NEW t \in Background, t \notin scheduled, scheduled' = scheduled \cup {t},
               num_background' = num_background, preempted' # {} => preempted # {}
        PROVE  BackgroundCapKept'
    <2>1. BackgroundPool' = BackgroundPool \cup {t} /\ t \notin BackgroundPool
      BY <1>4 DEF BackgroundPool
    <2>2. Cardinality(BackgroundPool') = Cardinality(BackgroundPool) + 1
      BY <2>1, BackgroundFinite, FS_AddElement
    <2> QED BY <1>2, <1>3, <1>4, <2>2, BackgroundFinite, CapIs
  <1>5. CASE /\ KeepsItsSlot(w) /\ scheduled' = scheduled \cup {s}
             /\ UNCHANGED <<preempted, num_background>>
    <2>1. s \notin scheduled
      BY <1>1, <1>5 DEF KeepsItsSlot
    <2> QED BY <1>1, <1>4, <1>5, <2>1
  <1>6. ASSUME ~KeepsItsSlot(w), NEW x \in preempted \cup just_ran,
               preempted' = (preempted \cup just_ran) \ {x},
               scheduled' = scheduled \cup {x[1]}, num_background' = num_background
        PROVE  BackgroundCapKept'
    <2>1. preempted # {}
      <3>1. SUFFICES ASSUME preempted = {} PROVE FALSE
        OBVIOUS
      <3>2. worker[w].pc = "manage"
        BY <1>6, <3>1
      <3> QED BY <1>6, <3>1, <3>2 DEF KeepsItsSlot
    <2>2. x[1] \in Background /\ x[1] \notin scheduled
      <3>1. CASE x \in preempted
        <4>1. x[1] \in Background /\ x[1] \in Seqs
          BY <3>1, TraitsAssumption DEF Structure, WaitersKnown
        <4> QED BY <3>1, <4>1 DEF Structure, Placed, PlacedApart, Preempted
      <3>2. CASE x \notin preempted
        BY <1>1, <1>6, <3>2
      <3> QED BY <3>1, <3>2
    <2> QED BY <1>4, <1>6, <2>1, <2>2
  <1>7. CASE /\ preempted = {} /\ num_background' = num_background - 1
             /\ UNCHANGED <<preempted, scheduled>>
    <2>1. BackgroundPool' = BackgroundPool
      BY <1>7 DEF BackgroundPool
    <2> QED BY <1>2, <1>3, <1>7, <2>1, BackgroundFinite, CapIs
  <1> QED
    <2>1. \/ /\ KeepsItsSlot(w) /\ scheduled' = scheduled \cup {s}
             /\ UNCHANGED <<preempted, num_background>>
          \/ /\ ~KeepsItsSlot(w)
             /\ \E x \in preempted \cup just_ran :
                   /\ preempted' = (preempted \cup just_ran) \ {x}
                   /\ scheduled' = scheduled \cup {x[1]}
             /\ num_background' = num_background
          \/ /\ preempted = {} /\ num_background' = num_background - 1
             /\ UNCHANGED <<preempted, scheduled>>
      BY DEF ManageBackgroundSequences, SequencesWaiting, Earliest
    <2> QED BY <1>5, <1>6, <1>7, <2>1

\* The lifted cap has room for every sequence and every worker, and nothing
\* stays preempted.
LEMMA CapSetMax ==
    ASSUME TypeOK, Structure, BackgroundCapKept, SetMaxNumScheduledBackgroundSequences
    PROVE  BackgroundCapKept'
  <1> DEFINE names == {x[1] : x \in preempted}
  <1>1. names \subseteq Background \cap Seqs
    BY TraitsAssumption DEF Structure, WaitersKnown
  <1>2. IsFiniteSet(names) /\ Cardinality(names) \in Nat
    <2>1. names \in SUBSET Seqs
      BY <1>1
    <2> HIDE DEF names
    <2> QED BY <2>1, BoundsAssumption, FS_Subset, FS_CardinalityType
  <1>3. Cardinality(preempted) = Cardinality(names)
    <2> DEFINE f == [n \in names |-> CHOOSE x \in preempted : x[1] = n]
    <2>1. \A n \in names : f[n] \in preempted /\ f[n][1] = n
      OBVIOUS
    <2>2. \A x \in preempted : x[1] \in names /\ f[x[1]] = x
      BY <2>1 DEF Structure, Placed, PlacedOnce
    <2>3. f \in [names -> preempted]
      BY <2>1
    <2> HIDE DEF f
    <2>4. f \in Bijection(names, preempted)
      <3>1. f \in Injection(names, preempted)
        BY <2>1, <2>3 DEF Injection, IsInjective
      <3>2. f \in Surjection(names, preempted)
        BY <2>2, <2>3 DEF Surjection
      <3> QED BY <3>1, <3>2 DEF Bijection
    <2>5. ExistsBijection(names, preempted)
      BY <2>4 DEF ExistsBijection
    <2> HIDE DEF names
    <2> QED BY <1>2, <2>5, FS_Bijection
  <1>4. /\ max_background' = Unbounded
        /\ num_background' = num_background + Cardinality(preempted)
        /\ scheduled' = scheduled \cup names
        /\ preempted' = {}
        /\ worker' = worker
    BY DEF SetMaxNumScheduledBackgroundSequences, PreemptedToSchedule
  <1>5. BackgroundPool' = BackgroundPool \cup names /\ BackgroundPool \cap names = {}
    <2>1. \A s \in names : s \notin scheduled
      BY <1>1 DEF Structure, Placed, PlacedApart, Preempted
    <2> QED BY <1>1, <1>4, <2>1 DEF BackgroundPool
  <1> HIDE DEF names
  <1>6. Cardinality(BackgroundPool') = Cardinality(BackgroundPool) + Cardinality(names)
    <2>1. Cardinality(BackgroundPool \cup names) =
            Cardinality(BackgroundPool) + Cardinality(names) - Cardinality(BackgroundPool \cap names)
      BY <1>2, BackgroundFinite, FS_Union
    <2>2. Cardinality(BackgroundPool \cap names) = 0
      BY <1>5, FS_EmptySet
    <2> QED BY <1>2, <1>5, <2>1, <2>2, BackgroundFinite
  <1>7. BackgroundWorkers' = BackgroundWorkers
    BY <1>4 DEF BackgroundWorkers
  <1>8. /\ Cardinality(BackgroundPool') <= Cardinality(Seqs)
        /\ Cardinality(BackgroundWorkers) <= Cardinality(Workers)
        /\ Cardinality(Seqs) \in Nat /\ Cardinality(Workers) \in Nat
    <2>1. BackgroundPool' \in SUBSET Seqs /\ BackgroundWorkers \in SUBSET Workers
      BY <1>1, <1>5 DEF TypeOK, BackgroundPool, BackgroundWorkers
    <2> QED BY <2>1, BoundsAssumption, FS_Subset, FS_CardinalityType
  <1> QED BY <1>2, <1>3, <1>4, <1>6, <1>7, <1>8, BackgroundFinite, CapIs DEF Unbounded

------------------------------------------------------------------------------
(* The sets of tasks that the counters count                                 *)

\* The tasks with posters at a pc in A, and those in the queues apart from the
\* first ones of workers at a pc in B.
TasksAt(A, B) == Posting(A) \cup InQueues(B)

\* A worker at a pc in B has sequence s.
Hidden(s, B) == \E w \in Workers : worker[w].seq = s /\ worker[w].pc \in B

\* The pcs at which the first task may be excepted, after which Pop takes it away.
Late == Busy \ {"before"}

\* A task is in the hands of a poster at one of the pcs in A, now and next.
LEMMA PostingIs ==
    ASSUME NEW A, NEW t
    PROVE  /\ t \in Posting(A) <=> \E p \in Posters : poster[p].pc \in A /\ t = poster[p].task
           /\ t \in Posting(A)' <=> \E p \in Posters : poster'[p].pc \in A /\ t = poster'[p].task
  BY DEF Posting

\* What InQueues means, without UNION, ...
LEMMA InQueuesIs ==
    ASSUME queue \in [Seqs -> Seq(Task)], NEW B, NEW t
    PROVE  t \in InQueues(B) <=>
             \E s \in Seqs : \E i \in 1 .. Len(queue[s]) :
                t = queue[s][i] /\ (i = 1 => ~Hidden(s, B))
  <1>1. \A s \in Seqs : DOMAIN queue[s] = 1 .. Len(queue[s])
    OBVIOUS
  <1> QED BY <1>1 DEF InQueues, Hidden

\* ... and in the next state.
LEMMA InQueuesIsNext ==
    ASSUME queue' \in [Seqs -> Seq(Task)], NEW B, NEW t
    PROVE  t \in InQueues(B)' <=>
             \E s \in Seqs : \E i \in 1 .. Len(queue'[s]) :
                t = queue'[s][i] /\ (i = 1 => ~Hidden(s, B)')
  <1>1. \A s \in Seqs : DOMAIN queue'[s] = 1 .. Len(queue'[s])
    OBVIOUS
  <1> QED BY <1>1 DEF InQueues, Hidden

\* Every task there has a number that was given out.
LEMMA TasksAtFacts ==
    ASSUME TypeOK, Structure, NEW A, A \subseteq Held, NEW B
    PROVE  /\ \A t \in TasksAt(A, B) : t \in Task /\ t.id \in Nat /\ t.id <= posts
           /\ \A t \in InQueues(B) : \A p \in Posters : Holds(p) => poster[p].task.id # t.id
           /\ \A t \in Posting(A) : \A p \in Posters :
                 Holds(p) /\ poster[p].task.id = t.id => t = poster[p].task
  <1> USE DEF Structure
  <1>1. \A p \in Posters : poster[p].pc \in A => Holds(p)
    BY DEF Holds, Held
  <1>2. ASSUME NEW t \in Posting(A)
        PROVE  /\ t \in Task /\ t.id \in Nat /\ t.id <= posts
               /\ \A p \in Posters : Holds(p) /\ poster[p].task.id = t.id => t = poster[p].task
    <2>1. PICK q \in Posters : poster[q].pc \in A /\ t = poster[q].task
      BY PostingIs
    <2>2. Holds(q)
      BY <1>1, <2>1
    <2>3. t \in Task /\ t.id \in Nat
      BY <2>1, <2>2, HolderFacts
    <2> QED BY <2>1, <2>2, <2>3 DEF TasksUnique, IdsUsed, HeldOnce
  <1>3. ASSUME NEW t \in InQueues(B)
        PROVE  /\ t \in Task /\ t.id \in Nat /\ t.id <= posts
               /\ \A p \in Posters : Holds(p) => poster[p].task.id # t.id
    <2>1. queue \in [Seqs -> Seq(Task)]
      BY DEF TypeOK
    <2>2. PICK s \in Seqs, i \in Nat : i \in 1 .. Len(queue[s]) /\ t = queue[s][i]
      BY <2>1, InQueuesIs
    <2>3. t \in Task
      BY <2>1, <2>2
    <2> QED BY <2>2, <2>3, TaskFields DEF TasksUnique, IdsUsed, QueuedOnce
  <1> QED BY <1>2, <1>3 DEF TasksAt

\* A poster that moves takes its task out of the set, or puts one in.
LEMMA TasksByPoster ==
    ASSUME TypeOK, Structure, NEW p \in Posters, NEW r \in PosterState,
           poster' = [poster EXCEPT ![p] = r], queue' = queue, worker' = worker,
           NEW A, A \subseteq Held, NEW B
    PROVE  \A t : t \in TasksAt(A, B)' <=>
             \/ t \in TasksAt(A, B) /\ ~(poster[p].pc \in A /\ t = poster[p].task)
             \/ r.pc \in A /\ t = r.task
  <1> DEFINE old == IF poster[p].pc \in A THEN {poster[p].task} ELSE {}
             new == IF r.pc \in A THEN {r.task} ELSE {}
  <1>1. InQueues(B)' = InQueues(B)
    BY DEF InQueues
  <1>2. poster'[p] = r /\ \A q \in Posters \ {p} : poster'[q] = poster[q]
    BY PosterMoves
  <1>3. poster[p].pc \in A => Holds(p)
    BY DEF Holds, Held
  <1>4. InQueues(B) \cap old = {}
    BY <1>3, TasksAtFacts
  <1>5. ASSUME NEW t
        PROVE  t \in Posting(A)' <=> (t \in Posting(A) /\ t \notin old) \/ t \in new
    <2>1. ASSUME t \in Posting(A)', t \notin new
          PROVE  t \in Posting(A) /\ t \notin old
      <3>1. PICK q \in Posters : poster'[q].pc \in A /\ t = poster'[q].task
        BY <2>1, PostingIs
      <3>2. q # p /\ poster[q].pc \in A /\ t = poster[q].task
        BY <1>2, <2>1, <3>1
      <3>3. Holds(q)
        BY <3>2 DEF Holds, Held
      <3>4. t \notin old
        BY <1>3, <3>2, <3>3 DEF Structure, TasksUnique, HeldOnce
      <3> QED BY <3>2, <3>4, PostingIs
    <2>2. ASSUME t \in Posting(A), t \notin old
          PROVE  t \in Posting(A)'
      <3>1. PICK q \in Posters : poster[q].pc \in A /\ t = poster[q].task
        BY <2>2, PostingIs
      <3>2. q # p
        BY <2>2, <3>1
      <3> QED BY <1>2, <3>1, <3>2, PostingIs
    <2>3. ASSUME t \in new
          PROVE  t \in Posting(A)'
      BY <1>2, <2>3, PostingIs
    <2> QED BY <2>1, <2>2, <2>3
  <1> HIDE DEF old, new
  <1>6. TasksAt(A, B)' = (TasksAt(A, B) \ old) \cup new
    BY <1>1, <1>4, <1>5 DEF TasksAt
  <1> QED BY <1>6 DEF old, new

\* PushTask replaces the task by one with its sequenced time set.
LEMMA TasksByPush ==
    ASSUME TypeOK, Structure, NEW p \in Posters, PushTask(p),
           NEW A, A \subseteq Held, "push" \in A, NEW B, B \subseteq Busy
    PROVE  LET task == poster[p].task
               u == [task EXCEPT !.time = posts]
           IN  /\ TasksAt(A, B)' = (TasksAt(A, B) \ {task}) \cup {u}
               /\ task \in TasksAt(A, B)
               /\ u \notin TasksAt(A, B) \ {task}
               /\ task \in Task /\ u \in Task
               /\ u.seq = task.seq /\ u.is_delayed = task.is_delayed /\ u.early = task.early
  <1> DEFINE task == poster[p].task
             s0 == task.seq
             u == [task EXCEPT !.time = posts]
             n == Len(queue[s0]) + 1
  <1>1. Holds(p) /\ poster[p].pc = "push" /\ task \in Task /\ s0 \in Seqs
    BY TaskFields DEF PushTask, Holds, Structure, PostersHold
  <1>2. /\ u \in Task /\ u.id = task.id /\ u.seq = task.seq
        /\ u.is_delayed = task.is_delayed /\ u.early = task.early
    BY <1>1, TaskFields DEF TypeOK
  <1>3. task \in TasksAt(A, B)
    BY <1>1, PostingIs DEF TasksAt
  <1>4. \A t \in TasksAt(A, B) : t.id = task.id => t = task /\ t \notin InQueues(B)
    BY <1>1, TasksAtFacts DEF TasksAt
  <1>5. PICK r \in PosterState : /\ poster' = [poster EXCEPT ![p] = r]
                                 /\ r.pc \in {"schedule", "idle"}
    BY PushMoves DEF Structure
  <1>6. Posting(A)' = Posting(A) \ {task}
    <2>1. poster'[p] = r /\ \A q \in Posters \ {p} : poster'[q] = poster[q]
      BY <1>5, PosterMoves
    <2>2. r.pc \notin A
      BY <1>5 DEF Held
    <2>3. \A q \in Posters : poster[q].pc \in A => Holds(q)
      BY DEF Holds, Held
    <2>4. \A q \in Posters : poster[q].pc \in A /\ poster[q].task = task => q = p
      BY <1>1, <2>3 DEF Structure, TasksUnique, HeldOnce
    <2>5. ASSUME NEW t PROVE t \in Posting(A)' <=> t \in Posting(A) /\ t # task
      <3>1. t \in Posting(A)' <=> \E q \in Posters : poster'[q].pc \in A /\ t = poster'[q].task
        BY PostingIs
      <3>2. t \in Posting(A) <=> \E q \in Posters : poster[q].pc \in A /\ t = poster[q].task
        BY PostingIs
      <3> HIDE DEF task
      <3> QED BY <2>1, <2>2, <2>4, <3>1, <3>2 DEF task
    <2> QED BY <2>5
  <1>7. InQueues(B)' = InQueues(B) \cup {u}
    <2>1. /\ queue \in [Seqs -> Seq(Task)]
          /\ queue' = [queue EXCEPT ![s0] = Append(@, u)]
      BY DEF PushTask, TypeOK
    <2> HIDE DEF task, s0, u
    <2>2. /\ queue' \in [Seqs -> Seq(Task)]
          /\ \A s \in Seqs \ {s0} : queue'[s] = queue[s]
          /\ Len(queue[s0]) \in Nat
          /\ Len(queue'[s0]) = n
          /\ queue'[s0][n] = u
          /\ \A i \in 1 .. Len(queue[s0]) : queue'[s0][i] = queue[s0][i]
      BY <1>1, <1>2, <2>1, Pushed
    <2>3. \A s \in Seqs : Hidden(s, B)' <=> Hidden(s, B)
      BY DEF Hidden, PushTask
    <2>4. n = 1 => ~Hidden(s0, B)
      <3>1. ASSUME n = 1 PROVE queue[s0] = <<>>
        BY <1>1, <2>1, <2>2, <3>1
      <3>2. ASSUME NEW w \in Workers, worker[w].seq = s0, worker[w].pc \in B
            PROVE  queue[s0] # <<>>
        BY <3>2, BusyWorker DEF Structure
      <3> QED BY <3>1, <3>2 DEF Hidden
    <2>5. ASSUME NEW s \in Seqs, NEW i \in 1 .. Len(queue'[s])
          PROVE  \/ s = s0 /\ i = n /\ queue'[s][i] = u
                 \/ i \in 1 .. Len(queue[s]) /\ queue'[s][i] = queue[s][i]
      BY <2>2
    <2>6. ASSUME NEW s \in Seqs, NEW i \in 1 .. Len(queue[s])
          PROVE  i \in 1 .. Len(queue'[s]) /\ queue'[s][i] = queue[s][i]
      BY <2>2
    <2>7. n \in 1 .. Len(queue'[s0])
      BY <2>2
    <2> HIDE DEF n
    <2>8. ASSUME NEW t, t \in InQueues(B)' PROVE t \in InQueues(B) \/ t = u
      <3>1. PICK s \in Seqs, i \in Nat : i \in 1 .. Len(queue'[s]) /\
              t = queue'[s][i] /\ (i = 1 => ~Hidden(s, B)')
        BY <2>2, <2>8, InQueuesIsNext
      <3> QED BY <2>1, <2>3, <2>5, <3>1, InQueuesIs
    <2>9. ASSUME NEW t \in InQueues(B) PROVE t \in InQueues(B)'
      <3>1. PICK s \in Seqs, i \in Nat : i \in 1 .. Len(queue[s]) /\
              t = queue[s][i] /\ (i = 1 => ~Hidden(s, B))
        BY <2>1, InQueuesIs
      <3> QED BY <2>2, <2>3, <2>6, <3>1, InQueuesIsNext
    <2>10. u \in InQueues(B)'
      BY <1>1, <2>2, <2>3, <2>4, <2>7, InQueuesIsNext
    <2> QED BY <2>8, <2>9, <2>10
  <1>8. task \notin InQueues(B)
    BY <1>3, <1>4
  <1> HIDE DEF task, u, s0, n
  <1>9. TasksAt(A, B)' = (TasksAt(A, B) \ {task}) \cup {u}
    BY <1>6, <1>7, <1>8 DEF TasksAt
  <1> QED BY <1>1, <1>2, <1>3, <1>4, <1>9 DEF task, u

\* Tasks stay where they are if no queue changes and no first task is hidden.
LEMMA TasksFrame ==
    ASSUME TypeOK, queue' = queue, NEW A, Posting(A)' = Posting(A),
           NEW B, \A s \in Seqs : Hidden(s, B)' <=> Hidden(s, B)
    PROVE  TasksAt(A, B)' = TasksAt(A, B)
  <1>1. queue \in [Seqs -> Seq(Task)] /\ queue' \in [Seqs -> Seq(Task)]
    BY DEF TypeOK
  <1>2. \A t : t \in InQueues(B)' <=> t \in InQueues(B)
    BY <1>1, InQueuesIs, InQueuesIsNext
  <1> QED BY <1>2 DEF TasksAt

\* A worker with its task in hand takes it out of the set when it comes to B.
LEMMA TasksGoOn ==
    ASSUME TypeOK, Structure, NEW w \in Workers, NEW pc \in Busy, GoesOn(w, pc),
           NEW A, A \subseteq Held, NEW B, B \subseteq Busy,
           worker[w].pc \in B => pc \in B
    PROVE  /\ worker[w].pc \notin B => CurrentTask(w) \in TasksAt(A, B)
           /\ TasksAt(A, B)' = IF pc \in B /\ worker[w].pc \notin B
                               THEN TasksAt(A, B) \ {CurrentTask(w)}
                               ELSE TasksAt(A, B)
  <1> DEFINE task == CurrentTask(w)
  <1>0. PICK s0 \in Seqs : s0 = worker[w].seq
    BY BusyWorker DEF Structure, GoesOn
  <1>1. queue \in [Seqs -> Seq(Task)] /\ queue' \in [Seqs -> Seq(Task)] /\ queue' = queue
    BY DEF TypeOK, GoesOn
  <1>2. /\ s0 \in Seqs /\ task = queue[s0][1] /\ 1 \in 1 .. Len(queue[s0])
        /\ \A v \in Workers : Owns(v, s0) => v = w
    BY <1>0, BusyWorker DEF Structure, GoesOn
  <1>3. /\ worker'[w].pc = pc /\ worker'[w].seq = s0
        /\ \A v \in Workers \ {w} : worker'[v] = worker[v]
    <2>1. worker' = [worker EXCEPT ![w] = [pc |-> pc, seq |-> worker[w].seq]]
      BY WorkerGoesMoves DEF GoesOn, Busy, WorkerPcs
    <2> QED BY <1>0, <2>1 DEF TypeOK
  <1>4. /\ \A s \in Seqs \ {s0} : Hidden(s, B)' <=> Hidden(s, B)
        /\ Hidden(s0, B) <=> worker[w].pc \in B
        /\ Hidden(s0, B)' <=> pc \in B
    <2>1. \A v \in Workers \ {w} : ~(worker[v].seq = s0 /\ worker[v].pc \in B)
      <3>1. "manage_empty" \notin B
        BY DEF Busy
      <3> QED BY <1>2, <3>1 DEF Owns
    <2> QED BY <1>0, <1>3, <2>1 DEF Hidden
  <1>5. Posting(A)' = Posting(A)
    BY DEF Posting, GoesOn
  <1>6. ASSUME worker[w].pc \notin B PROVE task \in InQueues(B)
    BY <1>1, <1>2, <1>4, <1>6, InQueuesIs
  <1>7. CASE pc \in B <=> worker[w].pc \in B
    <2>1. \A s \in Seqs : Hidden(s, B)' <=> Hidden(s, B)
      BY <1>4, <1>7
    <2>2. TasksAt(A, B)' = TasksAt(A, B)
      BY <1>1, <1>5, <2>1, TasksFrame
    <2> QED BY <1>6, <1>7, <2>2 DEF TasksAt
  <1>8. CASE pc \in B /\ worker[w].pc \notin B
    <2>1. task \notin Posting(A)
      <3>1. \A p \in Posters : poster[p].pc \in A => Holds(p)
        BY DEF Holds, Held
      <3>2. \A p \in Posters : Holds(p) => poster[p].task # task
        BY <1>6, <1>8, TasksAtFacts
      <3> QED BY <3>1, <3>2, PostingIs
    <2>2. ASSUME NEW t PROVE t \in InQueues(B)' <=> t \in InQueues(B) /\ t # task
      <3> DEFINE At(s, i) == s \in Seqs /\ i \in 1 .. Len(queue[s]) /\ t = queue[s][i]
      <3>1. t \in InQueues(B)' <=> \E s \in Seqs : \E i \in 1 .. Len(queue[s]) :
                At(s, i) /\ (i = 1 => ~Hidden(s, B)')
        BY <1>1, InQueuesIsNext
      <3>2. t \in InQueues(B) <=> \E s \in Seqs : \E i \in 1 .. Len(queue[s]) :
                At(s, i) /\ (i = 1 => ~Hidden(s, B))
        BY <1>1, InQueuesIs
      <3>3. \A s \in Seqs : \A i \in 1 .. Len(queue[s]) :
                At(s, i) /\ t = task => s = s0 /\ i = 1
        <4>1. ASSUME NEW s \in Seqs, NEW i \in 1 .. Len(queue[s]), queue[s][i] = queue[s0][1]
              PROVE  s = s0 /\ i = 1
          <5>1. queue[s][i].id = queue[s0][1].id
            BY <4>1
          <5> QED BY <1>2, <5>1 DEF Structure, TasksUnique, QueuedOnce
        <4> QED BY <1>2, <4>1
      <3>4. At(s0, 1) => t = task
        BY <1>2
      <3> HIDE DEF At, task
      <3> QED BY <1>2, <1>4, <1>8, <3>1, <3>2, <3>3, <3>4
    <2> HIDE DEF task
    <2>3. TasksAt(A, B)' = TasksAt(A, B) \ {task}
      BY <1>5, <2>1, <2>2 DEF TasksAt
    <2> QED BY <1>6, <1>8, <2>3 DEF TasksAt, task
  <1> QED BY <1>7, <1>8

\* The task that Pop takes away is not in the set any more.
LEMMA TasksByPop ==
    ASSUME TypeOK, Structure, NEW w \in Workers, Pop(w),
           NEW A, NEW B, B \subseteq Busy, "pop" \in B
    PROVE  TasksAt(A, B)' = TasksAt(A, B)
  <1>0. PICK s0 \in Seqs : s0 = worker[w].seq
    BY BusyWorker DEF Structure, Pop, Busy
  <1>1. /\ worker[w].pc = "pop"
        /\ s0 \in Seqs /\ queue[s0] # <<>>
        /\ \A v \in Workers : Owns(v, s0) => v = w
    BY <1>0, BusyWorker DEF Structure, Pop, Busy
  <1>2. /\ queue \in [Seqs -> Seq(Task)]
        /\ queue' = [queue EXCEPT ![s0] = Tail(@)]
    BY <1>0 DEF Pop, TypeOK
  <1>3. /\ worker'[w].pc \notin B
        /\ \A v \in Workers \ {w} : worker'[v] = worker[v]
    <2>1. PICK r \in WorkerState : /\ worker' = [worker EXCEPT ![w] = r]
                                   /\ r.pc \in {"idle", "manage", "manage_empty"}
      BY PopMoves
    <2> QED BY <2>1, WorkerMoves DEF Busy
  <1>4. /\ \A s \in Seqs \ {s0} : Hidden(s, B)' <=> Hidden(s, B)
        /\ Hidden(s0, B)
        /\ ~Hidden(s0, B)'
    <2>1. \A v \in Workers \ {w} : ~(worker[v].seq = s0 /\ worker[v].pc \in B)
      <3>1. "manage_empty" \notin B
        BY DEF Busy
      <3> QED BY <1>1, <3>1 DEF Owns
    <2> QED BY <1>0, <1>1, <1>3, <2>1 DEF Hidden
  <1>5. Posting(A)' = Posting(A)
    BY DEF Posting, Pop
  <1>6. /\ queue' \in [Seqs -> Seq(Task)]
        /\ \A s \in Seqs \ {s0} : queue'[s] = queue[s]
        /\ Len(queue[s0]) \in Nat \ {0}
        /\ Len(queue'[s0]) = Len(queue[s0]) - 1
        /\ \A i \in 1 .. Len(queue'[s0]) :
              i + 1 \in 1 .. Len(queue[s0]) /\ queue'[s0][i] = queue[s0][i + 1]
    BY <1>1, <1>2, Popped
  <1>7. ASSUME NEW t, t \in InQueues(B)' PROVE t \in InQueues(B)
    <2>1. PICK s \in Seqs, i \in Nat : /\ i \in 1 .. Len(queue'[s]) /\ t = queue'[s][i]
                                       /\ i = 1 => ~Hidden(s, B)'
      BY <1>6, <1>7, InQueuesIsNext
    <2>2. CASE s = s0
      <3>1. i + 1 \in 1 .. Len(queue[s0]) /\ t = queue[s0][i + 1] /\ i + 1 # 1
        BY <1>6, <2>1, <2>2
      <3> QED BY <1>1, <1>2, <3>1, InQueuesIs
    <2>3. CASE s # s0
      BY <1>2, <1>4, <1>6, <2>1, <2>3, InQueuesIs
    <2> QED BY <2>2, <2>3
  <1>8. ASSUME NEW t \in InQueues(B) PROVE t \in InQueues(B)'
    <2>1. PICK s \in Seqs, i \in Nat : /\ i \in 1 .. Len(queue[s]) /\ t = queue[s][i]
                                       /\ i = 1 => ~Hidden(s, B)
      BY <1>2, InQueuesIs
    <2>2. CASE s = s0
      <3>1. i # 1
        BY <1>4, <2>1, <2>2
      <3>2. i - 1 \in 1 .. Len(queue'[s0]) /\ (i - 1) + 1 = i
        BY <1>6, <2>1, <2>2, <3>1
      <3>3. t = queue'[s0][i - 1]
        BY <1>6, <2>1, <2>2, <3>2
      <3> QED BY <1>1, <1>4, <1>6, <3>2, <3>3, InQueuesIsNext
    <2>3. CASE s # s0
      BY <1>4, <1>6, <2>1, <2>3, InQueuesIsNext
    <2> QED BY <2>2, <2>3
  <1> QED BY <1>5, <1>7, <1>8 DEF TasksAt

\* Taking a sequence from the pool, or giving it back, changes nothing.
LEMMA TasksByOthers ==
    ASSUME TypeOK, Structure, NEW A, A \subseteq Held, NEW B, B \subseteq Late,
           \/ UNCHANGED <<queue, poster, worker>>
           \/ \E p \in Posters : WillScheduleSequence(p)
           \/ \E w \in Workers : TakeTask(w) \/ ManageBackgroundSequences(w)
    PROVE  TasksAt(A, B)' = TasksAt(A, B)
  <1>1. CASE UNCHANGED <<queue, poster, worker>>
    BY <1>1 DEF TasksAt, Posting, InQueues
  <1>2. ASSUME NEW p \in Posters, WillScheduleSequence(p)
        PROVE  TasksAt(A, B)' = TasksAt(A, B)
    <2>1. /\ poster' = [poster EXCEPT ![p] = IdlePoster] /\ UNCHANGED <<queue, worker>>
          /\ poster[p].pc = "schedule"
      BY <1>2 DEF WillScheduleSequence, IdlePoster
    <2>2. IdlePoster.pc \notin A /\ poster[p].pc \notin A
      BY <2>1, IdlePosterFacts DEF Held
    <2>3. \A t : t \in TasksAt(A, B)' <=>
             \/ t \in TasksAt(A, B) /\ ~(poster[p].pc \in A /\ t = poster[p].task)
             \/ IdlePoster.pc \in A /\ t = IdlePoster.task
      BY <2>1, IdlePosterFacts, TasksByPoster
    <2> QED BY <2>2, <2>3
  <1>3. ASSUME NEW w \in Workers, TakeTask(w) \/ ManageBackgroundSequences(w)
        PROVE  TasksAt(A, B)' = TasksAt(A, B)
    <2>1. /\ worker[w].pc \notin B
          /\ queue' = queue /\ poster' = poster
      BY <1>3 DEF TakeTask, ManageBackgroundSequences, Late, Busy
    <2>2. worker'[w].pc \notin B /\ \A v \in Workers \ {w} : worker'[v] = worker[v]
      BY <1>3 DEF TakeTask, ManageBackgroundSequences, TypeOK, Late, Busy
    <2>3. \A s \in Seqs : Hidden(s, B)' <=> Hidden(s, B)
      BY <2>1, <2>2 DEF Hidden
    <2> QED BY <2>1, <2>3, TasksFrame DEF Posting
  <1> QED BY <1>1, <1>2, <1>3

------------------------------------------------------------------------------
(* What blocks shutdown                                                      *)

Accepted == {"count", "push"}
Completed == {"complete", "count", "signal", "callback", "pop"}

Checking == {p \in Posters : poster[p].pc = "check"}
Undoing == {w \in Workers : RunsSkipTask(w) \/ worker[w].pc = "unblock"}

Blocked == BlockingTasksFinite /\ BlockingCountExact /\ NothingPriorLeft

\* BlockingTasks as the tasks at some pcs.
LEMMA BlockingTasksAre ==
    /\ BlockingTasks = {t \in TasksAt(Accepted, Completed) : Blocks(t)}
    /\ BlockingTasks' = {t \in TasksAt(Accepted, Completed)' : Blocks(t)}
    /\ Accepted \subseteq Held /\ "push" \in Accepted
    /\ Completed \subseteq Late /\ Completed \subseteq Busy /\ "pop" \in Completed
  <1>1. /\ Accepted \subseteq Held /\ "push" \in Accepted
        /\ Completed \subseteq Late /\ Completed \subseteq Busy /\ "pop" \in Completed
    BY DEF Accepted, Completed, Held, Late, Busy
  <1>2. BlockingTasks = {t \in TasksAt(Accepted, Completed) : Blocks(t)}
    BY DEF BlockingTasks, TasksAt, Accepted, Completed
  <1>3. BlockingTasks' = {t \in TasksAt(Accepted, Completed)' : Blocks(t)}
    BY DEF BlockingTasks, TasksAt, Accepted, Completed, Blocks
  <1> QED BY <1>1, <1>2, <1>3

\* BlockingCountExact with its three sets named.
LEMMA BlockingIs ==
    /\ BlockingCountExact <=>
         num_blocking = Cardinality(BlockingTasks) + Cardinality(Checking) + Cardinality(Undoing)
    /\ BlockingCountExact' <=>
         num_blocking' = Cardinality(BlockingTasks') + Cardinality(Checking') + Cardinality(Undoing')
  BY DEF BlockingCountExact, Checking, Undoing

\* The three sets are finite.
LEMMA BlockingFinite ==
    ASSUME BlockingTasksFinite
    PROVE  /\ IsFiniteSet(BlockingTasks) /\ Cardinality(BlockingTasks) \in Nat
           /\ IsFiniteSet(Checking) /\ Cardinality(Checking) \in Nat
           /\ IsFiniteSet(Undoing) /\ Cardinality(Undoing) \in Nat
  <1>1. Checking \in SUBSET Posters /\ Undoing \in SUBSET Workers
    BY DEF Checking, Undoing
  <1> QED BY <1>1, BoundsAssumption, FS_Subset, FS_CardinalityType DEF BlockingTasksFinite

\* Who runs a SKIP_ON_SHUTDOWN task where the workers stand still, ...
LEMMA SkipRunsFrame ==
    ASSUME TypeOK, Structure, worker' = worker,
           queue' = queue \/ \E p \in Posters : PushTask(p)
    PROVE  /\ \A w \in Workers : RunsSkipTask(w)' <=> RunsSkipTask(w)
           /\ Undoing' = Undoing
           /\ (\E w \in Workers : worker'[w].pc = "complete")
                 <=> \E w \in Workers : worker[w].pc = "complete"
  <1>1. ASSUME NEW w \in Workers, worker[w].pc = "running"
        PROVE  CurrentTask(w)' = CurrentTask(w)
    BY <1>1, HeadKeptByPush DEF CurrentTask, Busy, Structure
  <1>2. \A w \in Workers : RunsSkipTask(w)' <=> RunsSkipTask(w)
    BY <1>1 DEF RunsSkipTask, Skips
  <1> QED BY <1>2 DEF Undoing

\* ... where one goes on, ...
LEMMA SkipRunsGoesOn ==
    ASSUME TypeOK, Structure, NEW w \in Workers, NEW pc \in Busy, GoesOn(w, pc)
    PROVE  /\ \A v \in Workers \ {w} : RunsSkipTask(v)' <=> RunsSkipTask(v)
           /\ RunsSkipTask(w)' <=> pc = "running" /\ Skips(CurrentTask(w))
           /\ \A v \in Workers \ {w} : v \in Undoing' <=> v \in Undoing
           /\ w \in Undoing' <=> \/ pc = "running" /\ Skips(CurrentTask(w))
                                 \/ pc = "unblock"
           /\ \A v \in Workers \ {w} : worker'[v].pc = worker[v].pc
           /\ worker'[w].pc = pc
  <1>1. worker' = [worker EXCEPT ![w] = [pc |-> pc, seq |-> worker[w].seq]]
    BY WorkerGoesMoves DEF GoesOn, Busy, WorkerPcs
  <1>2. /\ worker'[w].pc = pc /\ worker'[w].seq = worker[w].seq
        /\ \A v \in Workers \ {w} : worker'[v] = worker[v]
    BY <1>1 DEF TypeOK
  <1>3. \A v \in Workers : CurrentTask(v)' = CurrentTask(v)
    BY <1>2 DEF CurrentTask, GoesOn
  <1>4. /\ \A v \in Workers \ {w} : RunsSkipTask(v)' <=> RunsSkipTask(v)
        /\ RunsSkipTask(w)' <=> pc = "running" /\ Skips(CurrentTask(w))
    BY <1>2, <1>3 DEF RunsSkipTask, Skips
  <1> QED BY <1>2, <1>4 DEF Undoing

\* ... and where one begins or ends with a sequence.
LEMMA SkipRunsMoves ==
    ASSUME TypeOK, Structure, NEW w \in Workers,
           TakeTask(w) \/ Pop(w) \/ ManageBackgroundSequences(w)
    PROVE  /\ \A v \in Workers : RunsSkipTask(v)' <=> RunsSkipTask(v)
           /\ Undoing' = Undoing
           /\ (\E v \in Workers : worker'[v].pc = "complete")
                 <=> \E v \in Workers : worker[v].pc = "complete"
  <1>1. worker[w].pc \in {"get", "pop", "manage", "manage_empty"}
    BY DEF TakeTask, Pop, ManageBackgroundSequences
  <1>2. /\ worker'[w].pc \in {"before", "idle", "manage", "manage_empty"}
        /\ \A v \in Workers \ {w} : worker'[v] = worker[v]
    <2>1. CASE Pop(w)
      <3>1. PICK r \in WorkerState : /\ worker' = [worker EXCEPT ![w] = r]
                                     /\ r.pc \in {"idle", "manage", "manage_empty"}
        BY <2>1, PopMoves
      <3> QED BY <3>1, WorkerMoves
    <2>2. CASE TakeTask(w) \/ ManageBackgroundSequences(w)
      BY <2>2 DEF TakeTask, ManageBackgroundSequences, TypeOK
    <2> QED BY <2>1, <2>2
  <1>3. ASSUME NEW v \in Workers \ {w}, worker[v].pc = "running"
        PROVE  CurrentTask(v)' = CurrentTask(v)
    <2>1. CASE Pop(w)
      BY <1>3, <2>1, HeadKeptByPop DEF Busy, Structure
    <2>2. CASE TakeTask(w) \/ ManageBackgroundSequences(w)
      <3>1. queue' = queue
        BY <2>2 DEF TakeTask, ManageBackgroundSequences
      <3> QED BY <1>2, <3>1 DEF CurrentTask
    <2> QED BY <2>1, <2>2
  <1>4. \A v \in Workers : RunsSkipTask(v)' <=> RunsSkipTask(v)
    BY <1>1, <1>2, <1>3 DEF RunsSkipTask, Skips
  <1> QED BY <1>1, <1>2, <1>4 DEF Undoing

\* Nothing that blocks shutdown changes.
LEMMA BlockedFrame ==
    ASSUME Blocked, BlockingTasks' = BlockingTasks, Checking' = Checking,
           Undoing' = Undoing, UNCHANGED <<started, num_blocking, event>>,
           \A w \in Workers : RunsSkipTask(w)' <=> RunsSkipTask(w),
           (\E w \in Workers : worker'[w].pc = "complete")
                 <=> \E w \in Workers : worker[w].pc = "complete"
    PROVE  Blocked'
  <1>1. BlockingTasksFinite'
    BY DEF Blocked, BlockingTasksFinite
  <1>2. BlockingCountExact'
    BY BlockingIs DEF Blocked
  <1>3. Completing' <=> Completing
    BY DEF Completing, IsShutdownComplete
  <1>4. NothingPriorLeft'
    BY <1>3 DEF Blocked, NothingPriorLeft
  <1> QED BY <1>1, <1>2, <1>4 DEF Blocked

\* Nothing changes where the tasks stay in the sets and no counter does.
LEMMA BlockedByOthers ==
    ASSUME TypeOK, Structure, Blocked, UNCHANGED <<started, num_blocking, event>>,
           \/ UNCHANGED <<queue, poster, worker>>
           \/ \E p \in Posters : WillScheduleSequence(p)
           \/ \E w \in Workers : TakeTask(w) \/ Pop(w) \/ ManageBackgroundSequences(w)
    PROVE  Blocked'
  <1>1. TasksAt(Accepted, Completed)' = TasksAt(Accepted, Completed)
    BY BlockingTasksAre, TasksByOthers, TasksByPop
  <1>2. BlockingTasks' = BlockingTasks
    BY <1>1, BlockingTasksAre
  <1>3. Checking' = Checking
    <2>1. CASE UNCHANGED <<queue, poster, worker>>
      BY <2>1 DEF Checking
    <2>2. ASSUME NEW p \in Posters, WillScheduleSequence(p) PROVE Checking' = Checking
      <3>1. poster' = [poster EXCEPT ![p] = IdlePoster] /\ poster[p].pc = "schedule"
        BY <2>2 DEF WillScheduleSequence, IdlePoster
      <3> QED BY <3>1, IdlePosterFacts, PosterMoves DEF Checking
    <2>3. ASSUME NEW w \in Workers, TakeTask(w) \/ Pop(w) \/ ManageBackgroundSequences(w)
          PROVE  Checking' = Checking
      BY <2>3 DEF TakeTask, Pop, ManageBackgroundSequences, Checking
    <2> QED BY <2>1, <2>2, <2>3
  <1>4. /\ \A w \in Workers : RunsSkipTask(w)' <=> RunsSkipTask(w)
        /\ Undoing' = Undoing
        /\ (\E w \in Workers : worker'[w].pc = "complete")
                 <=> \E w \in Workers : worker[w].pc = "complete"
    <2>1. CASE UNCHANGED <<queue, poster, worker>>
      BY <2>1, SkipRunsFrame
    <2>2. ASSUME NEW p \in Posters, WillScheduleSequence(p) PROVE UNCHANGED <<queue, worker>>
      BY <2>2 DEF WillScheduleSequence
    <2>3. CASE UNCHANGED <<queue, worker>>
      BY <2>3, SkipRunsFrame
    <2> QED BY <2>1, <2>2, <2>3, SkipRunsMoves
  <1> QED BY <1>2, <1>3, <1>4, BlockedFrame

\* What a poster's move does to the posters that look whether shutdown is complete.
LEMMA CheckingMoves ==
    ASSUME TypeOK, NEW p \in Posters, NEW r \in PosterState,
           poster' = [poster EXCEPT ![p] = r]
    PROVE  /\ r.pc = "check" => Checking' = Checking \cup {p}
           /\ r.pc # "check" => Checking' = Checking \ {p}
           /\ p \in Checking <=> poster[p].pc = "check"
  <1>1. poster'[p] = r /\ \A q \in Posters \ {p} : poster'[q] = poster[q]
    BY PosterMoves
  <1> QED BY <1>1 DEF Checking

\* BeforePostTask counts a BLOCK_SHUTDOWN task; none is accepted at once when
\* shutdown has started.
LEMMA BlockedBeforePost ==
    ASSUME TypeOK, Structure, Blocked, NEW p \in Posters, NEW s \in Seqs, NEW d \in BOOLEAN,
           BeforePostTask(p, s, d)
    PROVE  Blocked'
  <1>1. PICK task \in Task, r \in PosterState :
          /\ task.id = posts + 1
          /\ started => ~task.early /\ Blocks(task)
          /\ num_blocking' = IF Blocks(task) THEN num_blocking + 1 ELSE num_blocking
          /\ poster[p].pc = "idle"
          /\ poster' = [poster EXCEPT ![p] = r]
          /\ r.task = task
          /\ r.pc = IF started THEN "check" ELSE "count"
    BY NewTask
  <1>2. /\ queue' = queue /\ worker' = worker
        /\ UNCHANGED <<started, event>>
    BY DEF BeforePostTask
  <1>3. \A t : t \in TasksAt(Accepted, Completed)' <=>
             \/ t \in TasksAt(Accepted, Completed)
                  /\ ~(poster[p].pc \in Accepted /\ t = poster[p].task)
             \/ r.pc \in Accepted /\ t = r.task
    BY <1>1, <1>2, BlockingTasksAre, TasksByPoster
  <1>4. \A t : t \in TasksAt(Accepted, Completed)' <=>
             \/ t \in TasksAt(Accepted, Completed)
             \/ ~started /\ t = task
    BY <1>1, <1>3 DEF Accepted
  <1>5. task \notin TasksAt(Accepted, Completed)
    <2>1. \A t \in TasksAt(Accepted, Completed) : t.id \in Nat /\ t.id <= posts
      BY BlockingTasksAre, TasksAtFacts
    <2> QED BY <1>1, <2>1 DEF TypeOK
  <1>6. IF ~started /\ Blocks(task)
        THEN BlockingTasks' = BlockingTasks \cup {task} /\ task \notin BlockingTasks
        ELSE BlockingTasks' = BlockingTasks
    BY <1>4, <1>5, BlockingTasksAre
  <1>7. IF started THEN Checking' = Checking \cup {p} /\ p \notin Checking
                   ELSE Checking' = Checking
    BY <1>1, CheckingMoves
  <1>8. /\ \A w \in Workers : RunsSkipTask(w)' <=> RunsSkipTask(w)
        /\ Undoing' = Undoing
        /\ Completing' <=> Completing
    BY <1>2, SkipRunsFrame DEF Completing, IsShutdownComplete
  <1>9. /\ BlockingTasksFinite
        /\ num_blocking = Cardinality(BlockingTasks) + Cardinality(Checking) + Cardinality(Undoing)
    BY BlockingIs DEF Blocked
  <1>10. BlockingTasksFinite'
    BY <1>6, <1>9, FS_AddElement DEF BlockingTasksFinite
  <1>11. BlockingCountExact'
    <2>1. Cardinality(BlockingTasks') = Cardinality(BlockingTasks)
                                        + IF ~started /\ Blocks(task) THEN 1 ELSE 0
      BY <1>6, <1>9, BlockingFinite, FS_AddElement
    <2>2. Cardinality(Checking') = Cardinality(Checking) + IF started THEN 1 ELSE 0
      BY <1>7, <1>9, BlockingFinite, FS_AddElement
    <2> QED BY <1>1, <1>8, <1>9, <2>1, <2>2, BlockingFinite, BlockingIs
  <1>12. NothingPriorLeft'
    BY <1>2, <1>6, <1>8 DEF Blocked, NothingPriorLeft
  <1> QED BY <1>10, <1>11, <1>12 DEF Blocked

\* A BLOCK_SHUTDOWN task posted during shutdown is accepted or taken off the count.
LEMMA BlockedPostDuring ==
    ASSUME TypeOK, Structure, Blocked, NEW p \in Posters, PostDuringShutdown(p)
    PROVE  Blocked'
  <1> DEFINE task == poster[p].task
  <1>1. /\ queue' = queue /\ worker' = worker /\ poster[p].pc = "check"
        /\ UNCHANGED <<started, event>>
    BY DEF PostDuringShutdown
  <1>2. Holds(p) /\ task \in Task /\ Blocks(task) /\ ~task.early
    BY <1>1, HolderFacts DEF Structure, PostersHold, Holds
  <1>3. PICK r \in PosterState :
          /\ poster' = [poster EXCEPT ![p] = r]
          /\ \/ r.pc = "idle" /\ num_blocking' = num_blocking - 1
             \/ r.pc = "count" /\ r.task = task /\ num_blocking' = num_blocking
    <2>1. \/ /\ poster' = [poster EXCEPT ![p] = IdlePoster]
             /\ num_blocking' = num_blocking - 1
          \/ Goto(p, "count") /\ num_blocking' = num_blocking
      BY DEF PostDuringShutdown, IdlePoster
    <2> QED BY <1>2, <2>1, IdlePosterFacts, PosterGoesOn DEF Structure
  <1>4. \A t : t \in TasksAt(Accepted, Completed)' <=>
             \/ t \in TasksAt(Accepted, Completed)
                  /\ ~(poster[p].pc \in Accepted /\ t = poster[p].task)
             \/ r.pc \in Accepted /\ t = r.task
    BY <1>1, <1>3, BlockingTasksAre, TasksByPoster
  <1>5. task \notin TasksAt(Accepted, Completed)
    <2>1. task \notin InQueues(Completed)
      BY <1>2, BlockingTasksAre, TasksAtFacts
    <2>2. ASSUME NEW q \in Posters, poster[q].pc \in Accepted PROVE poster[q].task # task
      <3>1. Holds(q) /\ q # p
        BY <1>1, <2>2 DEF Holds, Accepted
      <3> QED BY <1>2, <3>1 DEF Structure, TasksUnique, HeldOnce
    <2> QED BY <2>1, <2>2, PostingIs DEF TasksAt
  <1>6. IF r.pc = "count"
        THEN BlockingTasks' = BlockingTasks \cup {task} /\ task \notin BlockingTasks
        ELSE BlockingTasks' = BlockingTasks
    <2>1. \A t : t \in TasksAt(Accepted, Completed)' <=>
             t \in TasksAt(Accepted, Completed) \/ (r.pc = "count" /\ t = task)
      BY <1>1, <1>3, <1>4 DEF Accepted
    <2> HIDE DEF task
    <2> QED BY <1>2, <1>5, <2>1, BlockingTasksAre
  <1>7. Checking' = Checking \ {p} /\ p \in Checking
    BY <1>1, <1>3, CheckingMoves
  <1>8. /\ \A w \in Workers : RunsSkipTask(w)' <=> RunsSkipTask(w)
        /\ Undoing' = Undoing
        /\ Completing' <=> Completing
    BY <1>1, SkipRunsFrame DEF Completing, IsShutdownComplete
  <1>9. /\ BlockingTasksFinite
        /\ num_blocking = Cardinality(BlockingTasks) + Cardinality(Checking) + Cardinality(Undoing)
    BY BlockingIs DEF Blocked
  <1> HIDE DEF task
  <1>10. BlockingTasksFinite'
    BY <1>6, <1>9, FS_AddElement DEF BlockingTasksFinite
  <1>11. BlockingCountExact'
    <2>1. Cardinality(BlockingTasks') = Cardinality(BlockingTasks)
                                        + IF r.pc = "count" THEN 1 ELSE 0
      BY <1>6, <1>9, BlockingFinite, FS_AddElement
    <2>2. Cardinality(Checking') = Cardinality(Checking) - 1
      BY <1>7, <1>9, BlockingFinite, FS_RemoveElement
    <2> QED BY <1>3, <1>8, <1>9, <2>1, <2>2, BlockingFinite, BlockingIs
  <1>12. NothingPriorLeft'
    BY <1>1, <1>2, <1>6, <1>8 DEF Blocked, NothingPriorLeft
  <1> QED BY <1>10, <1>11, <1>12 DEF Blocked

\* The rest of posting moves a task that counts along, and never a delayed one.
LEMMA BlockedPosting ==
    ASSUME TypeOK, Structure, Blocked, NEW p \in Posters,
           WillPostTask(p) \/ DelayedTaskRipe(p)
    PROVE  Blocked'
  <1>1. /\ queue' = queue /\ worker' = worker
        /\ UNCHANGED <<started, num_blocking, event>>
    BY DEF WillPostTask, DelayedTaskRipe, tracker
  <1>2. PICK r \in PosterState :
          /\ poster' = [poster EXCEPT ![p] = r]
          /\ poster[p].pc # "check" /\ r.pc # "check"
          /\ \/ /\ poster[p].pc = "count" /\ r.pc = "idle"
                /\ poster[p].task.is_delayed
             \/ /\ poster[p].pc = "count" /\ r.pc = "push"
                /\ r.task = poster[p].task
             \/ /\ poster[p].pc = "idle" /\ r.pc = "push"
                /\ r.task.is_delayed
    <2>1. CASE WillPostTask(p) /\ poster[p].task.is_delayed
      <3>1. poster' = [poster EXCEPT ![p] = IdlePoster] /\ poster[p].pc = "count"
        BY <2>1 DEF WillPostTask, IdlePoster
      <3> QED BY <2>1, <3>1, IdlePosterFacts
    <2>2. CASE WillPostTask(p) /\ ~poster[p].task.is_delayed
      <3>1. Goto(p, "push") /\ poster[p].pc = "count" /\ Holds(p)
        BY <2>2 DEF WillPostTask, Holds
      <3> QED BY <3>1, PosterGoesOn DEF Structure
    <2>3. CASE DelayedTaskRipe(p)
      <3>1. PICK task \in delayed :
              poster' = [poster EXCEPT ![p] = [pc |-> "push", task |-> task]]
        BY <2>3 DEF DelayedTaskRipe
      <3> DEFINE r == [pc |-> "push", task |-> task]
      <3>2. task \in Task /\ task.is_delayed
        BY DEF TypeOK, Structure, WaitersKnown
      <3>3. r \in PosterState /\ r.pc = "push" /\ r.task = task
        BY <3>2, RecordFields DEF PosterPcs
      <3>4. poster' = [poster EXCEPT ![p] = r] /\ poster[p].pc = "idle"
        BY <2>3, <3>1 DEF DelayedTaskRipe
      <3> HIDE DEF r
      <3> QED BY <3>2, <3>3, <3>4
    <2> QED BY <2>1, <2>2, <2>3
  <1>3. \A t : t \in TasksAt(Accepted, Completed)' <=>
             \/ t \in TasksAt(Accepted, Completed)
                  /\ ~(poster[p].pc \in Accepted /\ t = poster[p].task)
             \/ r.pc \in Accepted /\ t = r.task
    BY <1>1, <1>2, BlockingTasksAre, TasksByPoster
  <1>4. poster[p].pc = "count" => poster[p].task \in TasksAt(Accepted, Completed)
    BY PostingIs DEF TasksAt, Accepted
  <1>5. BlockingTasks' = BlockingTasks
    <2>1. ASSUME NEW t, Blocks(t)
          PROVE  t \in TasksAt(Accepted, Completed)' <=> t \in TasksAt(Accepted, Completed)
      BY <1>2, <1>3, <1>4, <2>1 DEF Blocks, Accepted
    <2> QED BY <2>1, BlockingTasksAre
  <1>6. Checking' = Checking
    BY <1>2, CheckingMoves
  <1> QED BY <1>1, <1>5, <1>6, SkipRunsFrame, BlockedFrame

\* PushTask replaces a counted task by the same task with a time.
LEMMA BlockedPush ==
    ASSUME TypeOK, Structure, Blocked, NEW p \in Posters, PushTask(p)
    PROVE  Blocked'
  <1> DEFINE task == poster[p].task
             u == [task EXCEPT !.time = posts]
  <1>1. /\ worker' = worker /\ poster[p].pc = "push"
        /\ UNCHANGED <<started, num_blocking, event>>
    BY DEF PushTask, tracker
  <1>2. /\ TasksAt(Accepted, Completed)' = (TasksAt(Accepted, Completed) \ {task}) \cup {u}
        /\ task \in TasksAt(Accepted, Completed)
        /\ u \notin TasksAt(Accepted, Completed) \ {task}
        /\ u.seq = task.seq /\ u.is_delayed = task.is_delayed /\ u.early = task.early
    BY BlockingTasksAre, TasksByPush
  <1>3. PICK r \in PosterState : /\ poster' = [poster EXCEPT ![p] = r]
                                 /\ r.pc \in {"schedule", "idle"}
    BY PushMoves DEF Structure
  <1>4. Checking' = Checking
    BY <1>1, <1>3, CheckingMoves
  <1>5. /\ \A w \in Workers : RunsSkipTask(w)' <=> RunsSkipTask(w)
        /\ Undoing' = Undoing
        /\ (\E w \in Workers : worker'[w].pc = "complete")
                 <=> \E w \in Workers : worker[w].pc = "complete"
    BY <1>1, SkipRunsFrame
  <1>6. Blocks(u) <=> Blocks(task)
    BY <1>2 DEF Blocks
  <1> HIDE DEF task, u
  <1>7. CASE ~Blocks(task)
    <2>1. BlockingTasks' = BlockingTasks
      BY <1>2, <1>6, <1>7, BlockingTasksAre
    <2> QED BY <1>1, <1>4, <1>5, <2>1, BlockedFrame
  <1>8. CASE Blocks(task)
    <2> DEFINE rest == BlockingTasks \ {task}
    <2>1. BlockingTasks' = rest \cup {u} /\ task \in BlockingTasks /\ u \notin rest
      BY <1>2, <1>6, <1>8, BlockingTasksAre
    <2>2. /\ BlockingTasksFinite
          /\ num_blocking = Cardinality(BlockingTasks) + Cardinality(Checking) + Cardinality(Undoing)
      BY BlockingIs DEF Blocked
    <2>3. IsFiniteSet(rest) /\ Cardinality(rest) = Cardinality(BlockingTasks) - 1
      BY <2>1, <2>2, BlockingFinite, FS_RemoveElement
    <2> HIDE DEF rest
    <2>4. /\ IsFiniteSet(BlockingTasks')
          /\ Cardinality(BlockingTasks') = Cardinality(rest) + 1
      BY <2>1, <2>3, FS_AddElement
    <2>5. BlockingTasksFinite' /\ BlockingCountExact'
      BY <1>1, <1>4, <1>5, <2>2, <2>3, <2>4, BlockingFinite, BlockingIs DEF BlockingTasksFinite
    <2>6. Completing' <=> Completing
      BY <1>1, <1>5 DEF Completing, IsShutdownComplete
    <2>7. NothingPriorLeft'
      BY <1>1, <1>2, <1>5, <2>1, <2>6 DEF Blocked, NothingPriorLeft, rest
    <2> QED BY <2>5, <2>7 DEF Blocked
  <1> QED BY <1>7, <1>8

\* The steps of a worker with its task, as moves from pc to pc.
LEMMA WorkerGoesOn ==
    ASSUME TypeOK, NEW w \in Workers
    PROVE  /\ BeforeRunTask(w) =>
                \E pc \in Busy : /\ GoesOn(w, pc) /\ worker[w].pc = "before"
                                 /\ pc = IF Blocks(CurrentTask(w)) \/ ~started THEN "running"
                                         ELSE IF Skips(CurrentTask(w)) THEN "unblock" ELSE "count"
           /\ DecrementNumTasksBlockingShutdown(w) =>
                \E pc \in Busy : /\ GoesOn(w, pc) /\ worker[w].pc \in {"unblock", "running"}
                                 /\ pc \in {"complete", "count"}
           /\ OnBlockingShutdownTasksComplete(w) =>
                GoesOn(w, "count") /\ worker[w].pc = "complete"
           /\ DecrementNumIncompleteUndelayedTasks(w) =>
                \E pc \in Busy : /\ GoesOn(w, pc) /\ worker[w].pc = "count"
                                 /\ pc \in {"signal", "pop"}
           /\ WorkerSignalsFlush(w) => GoesOn(w, "callback") /\ worker[w].pc = "signal"
           /\ WorkerCallsFlushCallback(w) => GoesOn(w, "pop") /\ worker[w].pc = "callback"
  <1> USE DEF GoesOn, Busy
  <1>1. ASSUME BeforeRunTask(w)
        PROVE  \E pc \in Busy : /\ GoesOn(w, pc) /\ worker[w].pc = "before"
                                /\ pc = IF Blocks(CurrentTask(w)) \/ ~started THEN "running"
                                        ELSE IF Skips(CurrentTask(w)) THEN "unblock" ELSE "count"
    <2> DEFINE pc == IF Blocks(CurrentTask(w)) \/ ~started THEN "running"
                     ELSE IF Skips(CurrentTask(w)) THEN "unblock" ELSE "count"
    <2>1. GoesOn(w, pc) /\ worker[w].pc = "before" /\ pc \in Busy
      BY <1>1 DEF BeforeRunTask
    <2> HIDE DEF GoesOn
    <2> QED BY <2>1
  <1>2. ASSUME DecrementNumTasksBlockingShutdown(w)
        PROVE  \E pc \in Busy : /\ GoesOn(w, pc) /\ worker[w].pc \in {"unblock", "running"}
                                /\ pc \in {"complete", "count"}
    <2>1. \/ GoesOn(w, "complete") /\ worker[w].pc \in {"unblock", "running"}
          \/ GoesOn(w, "count") /\ worker[w].pc \in {"unblock", "running"}
      BY <1>2 DEF DecrementNumTasksBlockingShutdown
    <2> HIDE DEF GoesOn
    <2> QED BY <2>1
  <1>3. ASSUME OnBlockingShutdownTasksComplete(w)
        PROVE  GoesOn(w, "count") /\ worker[w].pc = "complete"
    BY <1>3 DEF OnBlockingShutdownTasksComplete
  <1>4. ASSUME DecrementNumIncompleteUndelayedTasks(w)
        PROVE  \E pc \in Busy : /\ GoesOn(w, pc) /\ worker[w].pc = "count"
                                /\ pc \in {"signal", "pop"}
    <2>1. \/ GoesOn(w, "signal") /\ worker[w].pc = "count"
          \/ GoesOn(w, "pop") /\ worker[w].pc = "count"
      BY <1>4 DEF DecrementNumIncompleteUndelayedTasks
    <2> HIDE DEF GoesOn
    <2> QED BY <2>1
  <1>5. ASSUME WorkerSignalsFlush(w)
        PROVE  GoesOn(w, "callback") /\ worker[w].pc = "signal"
    BY <1>5 DEF WorkerSignalsFlush
  <1>6. ASSUME WorkerCallsFlushCallback(w)
        PROVE  GoesOn(w, "pop") /\ worker[w].pc = "callback"
    BY <1>6 DEF WorkerCallsFlushCallback
  <1> QED BY <1>1, <1>2, <1>3, <1>4, <1>5, <1>6

\* No posters are involved in what a worker does.
LEMMA CheckingGoesOn ==
    ASSUME NEW w \in Workers, NEW pc \in Busy, GoesOn(w, pc)
    PROVE  Checking' = Checking
  BY DEF GoesOn, Checking

\* BeforeRunTask counts a SKIP_ON_SHUTDOWN task, which may only run before shutdown.
LEMMA BlockedBeforeRun ==
    ASSUME TypeOK, Structure, Blocked, NEW w \in Workers, BeforeRunTask(w)
    PROVE  Blocked'
  <1> DEFINE task == CurrentTask(w)
  <1>1. PICK pc \in Busy :
          /\ GoesOn(w, pc) /\ worker[w].pc = "before"
          /\ pc = IF Blocks(task) \/ ~started THEN "running"
                  ELSE IF Skips(task) THEN "unblock" ELSE "count"
    BY WorkerGoesOn
  <1>2. /\ num_blocking' = IF Skips(task) THEN num_blocking + 1 ELSE num_blocking
        /\ UNCHANGED <<started, event>>
    BY DEF BeforeRunTask
  <1>3. ~(Blocks(task) /\ Skips(task))
    <2>1. task \in Task
      BY <1>1, BusyWorker DEF Structure, GoesOn
    <2> QED BY <2>1, TraitsAssumption DEF Blocks, Skips
  <1>4. BlockingTasks' = BlockingTasks
    <2>1. TasksAt(Accepted, Completed)' = IF pc \in Completed /\ worker[w].pc \notin Completed
                                          THEN TasksAt(Accepted, Completed) \ {task}
                                          ELSE TasksAt(Accepted, Completed)
      <3>1. worker[w].pc \notin Completed
        BY <1>1 DEF Completed
      <3> QED BY <1>1, <3>1, BlockingTasksAre, TasksGoOn
    <2>2. pc \in Completed => ~Blocks(task)
      BY <1>1 DEF Completed
    <2> HIDE DEF task
    <2> QED BY <2>1, <2>2, BlockingTasksAre
  <1>5. /\ \A v \in Workers \ {w} : RunsSkipTask(v)' <=> RunsSkipTask(v)
        /\ RunsSkipTask(w)' <=> pc = "running" /\ Skips(task)
        /\ \A v \in Workers \ {w} : v \in Undoing' <=> v \in Undoing
        /\ w \in Undoing' <=> \/ pc = "running" /\ Skips(task)
                              \/ pc = "unblock"
        /\ \A v \in Workers \ {w} : worker'[v].pc = worker[v].pc
        /\ worker'[w].pc = pc
    BY <1>1, SkipRunsGoesOn
  <1>6. w \notin Undoing /\ Undoing \subseteq Workers /\ Undoing' \subseteq Workers
    BY <1>1 DEF Undoing, RunsSkipTask
  <1>7. w \in Undoing' <=> Skips(task)
    BY <1>1, <1>3, <1>5
  <1>8. Undoing' = Undoing \cup IF Skips(task) THEN {w} ELSE {}
    BY <1>5, <1>6, <1>7
  <1>9. /\ BlockingTasksFinite
        /\ num_blocking = Cardinality(BlockingTasks) + Cardinality(Checking) + Cardinality(Undoing)
    BY BlockingIs DEF Blocked
  <1> HIDE DEF task
  <1>10. Cardinality(Undoing') = Cardinality(Undoing) + IF Skips(task) THEN 1 ELSE 0
    <2>1. CASE Skips(task)
      BY <1>6, <1>8, <1>9, <2>1, BlockingFinite, FS_AddElement
    <2>2. CASE ~Skips(task)
      BY <1>8, <1>9, <2>2, BlockingFinite
    <2> QED BY <2>1, <2>2
  <1>11. BlockingTasksFinite' /\ BlockingCountExact'
    BY <1>1, <1>2, <1>4, <1>9, <1>10, CheckingGoesOn, BlockingFinite, BlockingIs
       DEF BlockingTasksFinite
  <1>12. NothingPriorLeft'
    <2>1. Completing' <=> Completing
      <3>1. pc # "complete" /\ worker[w].pc # "complete"
        BY <1>1
      <3> QED BY <1>2, <1>5, <3>1 DEF Completing, IsShutdownComplete
    <2>2. ASSUME Completing PROVE ~RunsSkipTask(w)'
      <3>1. started
        BY <2>2 DEF Blocked, NothingPriorLeft
      <3> QED BY <1>1, <1>3, <1>5, <3>1
    <2> QED BY <1>2, <1>4, <1>5, <2>1, <2>2 DEF Blocked, NothingPriorLeft
  <1> QED BY <1>11, <1>12 DEF Blocked

\* The end of a task: what it counted is taken back, and the worker that takes the
\* last one back once shutdown has started finds that nothing is left.
LEMMA BlockedDecrement ==
    ASSUME TypeOK, Structure, Blocked, NEW w \in Workers,
           DecrementNumTasksBlockingShutdown(w)
    PROVE  Blocked'
  <1> DEFINE task == CurrentTask(w)
             counted == Blocks(task) \/ Skips(task)
  <1>1. PICK pc \in Busy : /\ GoesOn(w, pc) /\ worker[w].pc \in {"unblock", "running"}
                           /\ pc \in {"complete", "count"}
    BY WorkerGoesOn
  <1>2. /\ num_blocking' = IF counted THEN num_blocking - 1 ELSE num_blocking
        /\ UNCHANGED <<started, event>>
    BY DEF DecrementNumTasksBlockingShutdown
  <1>3. ~(Blocks(task) /\ Skips(task)) /\ (worker[w].pc = "unblock" => Skips(task))
    <2>1. task \in Task
      BY <1>1, BusyWorker DEF Structure, GoesOn
    <2> QED BY <2>1, TraitsAssumption DEF Blocks, Skips, Structure, WorkersHold
  <1>4. /\ TasksAt(Accepted, Completed)' = TasksAt(Accepted, Completed) \ {task}
        /\ task \in TasksAt(Accepted, Completed)
    <2>1. pc \in Completed /\ worker[w].pc \notin Completed
      BY <1>1 DEF Completed
    <2> QED BY <1>1, <2>1, BlockingTasksAre, TasksGoOn
  <1>5. /\ \A v \in Workers \ {w} : RunsSkipTask(v)' <=> RunsSkipTask(v)
        /\ ~RunsSkipTask(w)'
        /\ \A v \in Workers \ {w} : v \in Undoing' <=> v \in Undoing
        /\ w \notin Undoing'
        /\ \A v \in Workers \ {w} : worker'[v].pc = worker[v].pc
        /\ worker'[w].pc = pc
    BY <1>1, SkipRunsGoesOn
  <1>6. (w \in Undoing <=> Skips(task)) /\ Undoing \subseteq Workers /\ Undoing' \subseteq Workers
    BY <1>1, <1>3 DEF Undoing, RunsSkipTask
  <1>7. Undoing' = Undoing \ {w}
    BY <1>5, <1>6
  <1>8. pc = "complete" => started /\ counted /\ num_blocking = 1
    <2>1. pc = worker'[w].pc
      BY <1>5
    <2>2. worker'[w].pc = IF counted /\ LastBlocker THEN "complete" ELSE "count"
      BY DEF DecrementNumTasksBlockingShutdown, WorkerGoes, TypeOK
    <2> QED BY <2>1, <2>2 DEF LastBlocker
  <1>9. /\ BlockingTasksFinite
        /\ num_blocking = Cardinality(BlockingTasks) + Cardinality(Checking) + Cardinality(Undoing)
    BY BlockingIs DEF Blocked
  <1>10. IF Blocks(task) THEN BlockingTasks' = BlockingTasks \ {task} /\ task \in BlockingTasks
                         ELSE BlockingTasks' = BlockingTasks
    <2> HIDE DEF task
    <2> QED BY <1>4, BlockingTasksAre
  <1> HIDE DEF task
  <1>11. Cardinality(Undoing') = Cardinality(Undoing) - IF Skips(task) THEN 1 ELSE 0
    <2>1. Cardinality(Undoing') = IF w \in Undoing THEN Cardinality(Undoing) - 1
                                                   ELSE Cardinality(Undoing)
      BY <1>7, <1>9, BlockingFinite, FS_RemoveElement
    <2> QED BY <1>6, <1>9, <2>1, BlockingFinite
  <1>12. /\ IsFiniteSet(BlockingTasks')
         /\ Cardinality(BlockingTasks') = Cardinality(BlockingTasks) - IF Blocks(task) THEN 1 ELSE 0
    BY <1>9, <1>10, BlockingFinite, FS_RemoveElement
  <1>13. Checking' = Checking
    BY <1>1, CheckingGoesOn
  <1>14. num_blocking' = Cardinality(BlockingTasks') + Cardinality(Checking') + Cardinality(Undoing')
    BY <1>2, <1>3, <1>9, <1>11, <1>12, <1>13, BlockingFinite
  <1>15. BlockingTasksFinite' /\ BlockingCountExact'
    BY <1>12, <1>14, BlockingIs DEF BlockingTasksFinite
  <1>16. NothingPriorLeft'
    <2>1. CASE pc = "complete"
      <3>1. num_blocking' = 0 /\ started
        BY <1>2, <1>8, <2>1
      <3>2. /\ IsFiniteSet(Undoing') /\ Cardinality(Undoing') \in Nat
            /\ Cardinality(Checking') \in Nat /\ Cardinality(BlockingTasks') \in Nat
        <4>1. IsFiniteSet(Undoing')
          BY <1>7, <1>9, BlockingFinite, FS_RemoveElement
        <4> QED BY <1>9, <1>12, <1>13, <4>1, BlockingFinite, FS_CardinalityType
      <3>3. Cardinality(BlockingTasks') = 0 /\ Cardinality(Undoing') = 0
        BY <1>14, <3>1, <3>2
      <3>4. BlockingTasks' = {} /\ Undoing' = {}
        BY <1>12, <3>2, <3>3, FS_EmptySet
      <3>5. \A v \in Workers : ~RunsSkipTask(v)'
        BY <3>4 DEF Undoing
      <3> QED BY <1>2, <3>1, <3>4, <3>5 DEF NothingPriorLeft
    <2>2. CASE pc # "complete"
      <3>1. Completing' => Completing
        BY <1>2, <1>5, <2>2 DEF Completing, IsShutdownComplete
      <3> QED BY <1>2, <1>5, <1>10, <3>1 DEF Blocked, NothingPriorLeft
    <2> QED BY <2>1, <2>2
  <1> QED BY <1>15, <1>16 DEF Blocked

\* From then on the worker's task does not block shutdown.
LEMMA BlockedAfterTask ==
    ASSUME TypeOK, Structure, Blocked, NEW w \in Workers,
           \/ OnBlockingShutdownTasksComplete(w)
           \/ DecrementNumIncompleteUndelayedTasks(w)
           \/ WorkerSignalsFlush(w)
           \/ WorkerCallsFlushCallback(w)
    PROVE  Blocked'
  <1>1. PICK pc \in Busy : /\ GoesOn(w, pc) /\ worker[w].pc \in Completed
                           /\ pc \in Completed /\ pc # "complete"
    <2>1. {"count", "callback", "pop"} \subseteq Busy
      BY DEF Busy
    <2> QED BY <2>1, WorkerGoesOn DEF Completed
  <1>2. num_blocking' = num_blocking /\ started' = started
    BY DEF OnBlockingShutdownTasksComplete, DecrementNumIncompleteUndelayedTasks,
           WorkerSignalsFlush, WorkerCallsFlushCallback, tracker
  <1>3. Completing' => Completing
    <2>1. /\ worker'[w].pc # "complete"
          /\ \A v \in Workers \ {w} : worker'[v].pc = worker[v].pc
      BY <1>1, SkipRunsGoesOn
    <2>2. event' = event \/ worker[w].pc = "complete"
      BY DEF OnBlockingShutdownTasksComplete, DecrementNumIncompleteUndelayedTasks,
             WorkerSignalsFlush, WorkerCallsFlushCallback, tracker
    <2> QED BY <2>1, <2>2 DEF Completing, IsShutdownComplete
  <1>4. BlockingTasks' = BlockingTasks
    <2>1. TasksAt(Accepted, Completed)' = TasksAt(Accepted, Completed)
      BY <1>1, BlockingTasksAre, TasksGoOn
    <2> QED BY <2>1, BlockingTasksAre
  <1>5. pc \notin {"running", "unblock"} /\ worker[w].pc \notin {"running", "unblock"}
    BY <1>1 DEF Completed
  <1>6. /\ \A v \in Workers : RunsSkipTask(v)' <=> RunsSkipTask(v)
        /\ Undoing' = Undoing
    <2>1. /\ \A v \in Workers \ {w} : RunsSkipTask(v)' <=> RunsSkipTask(v)
          /\ ~RunsSkipTask(w)'
          /\ \A v \in Workers \ {w} : v \in Undoing' <=> v \in Undoing
          /\ w \notin Undoing'
      BY <1>1, <1>5, SkipRunsGoesOn
    <2>2. ~RunsSkipTask(w) /\ w \notin Undoing /\ Undoing \subseteq Workers /\ Undoing' \subseteq Workers
      BY <1>5 DEF RunsSkipTask, Undoing
    <2> QED BY <2>1, <2>2
  <1>7. BlockingTasksFinite' /\ BlockingCountExact'
    BY <1>1, <1>2, <1>4, <1>6, CheckingGoesOn, BlockingIs DEF Blocked, BlockingTasksFinite
  <1>8. NothingPriorLeft'
    BY <1>2, <1>3, <1>4, <1>6 DEF Blocked, NothingPriorLeft
  <1> QED BY <1>7, <1>8 DEF Blocked

\* Shutdown starts: it is complete at once only if nothing blocks it.
LEMMA BlockedStart ==
    ASSUME TypeOK, Structure, Blocked, StartShutdown \/ SetHasShutdownStartedForTesting
    PROVE  Blocked'
  <1>1. /\ queue' = queue /\ worker' = worker /\ poster' = poster
        /\ num_blocking' = num_blocking /\ started'
        /\ event' = "signaled" => num_blocking = 0
    BY DEF StartShutdown, SetHasShutdownStartedForTesting
  <1>2. BlockingTasks' = BlockingTasks
    <2>1. TasksAt(Accepted, Completed)' = TasksAt(Accepted, Completed)
      BY <1>1, BlockingTasksAre, TasksByOthers
    <2> QED BY <2>1, BlockingTasksAre
  <1>3. Checking' = Checking
    BY <1>1 DEF Checking
  <1>4. /\ \A v \in Workers : RunsSkipTask(v)' <=> RunsSkipTask(v)
        /\ Undoing' = Undoing
    BY <1>1, SkipRunsFrame
  <1>5. BlockingTasksFinite' /\ BlockingCountExact'
    BY <1>1, <1>2, <1>3, <1>4, BlockingIs DEF Blocked, BlockingTasksFinite
  <1>6. ASSUME num_blocking = 0 PROVE BlockingTasks = {} /\ \A v \in Workers : ~RunsSkipTask(v)
    <2>1. /\ BlockingTasksFinite
          /\ num_blocking = Cardinality(BlockingTasks) + Cardinality(Checking) + Cardinality(Undoing)
      BY BlockingIs DEF Blocked
    <2>2. Cardinality(BlockingTasks) = 0 /\ Cardinality(Undoing) = 0
      BY <1>6, <2>1, BlockingFinite
    <2>3. BlockingTasks = {} /\ Undoing = {}
      BY <2>1, <2>2, BlockingFinite, FS_EmptySet
    <2> QED BY <2>3 DEF Undoing
  <1>7. Completing' => Completing \/ num_blocking = 0
    BY <1>1 DEF Completing, IsShutdownComplete
  <1>8. NothingPriorLeft'
    BY <1>1, <1>2, <1>4, <1>6, <1>7 DEF Blocked, NothingPriorLeft
  <1> QED BY <1>5, <1>8 DEF Blocked

------------------------------------------------------------------------------
(* The incomplete undelayed tasks                                            *)

Counted == {"push"}
Ended == {"signal", "callback", "pop"}

\* UndelayedTasks as the tasks at some pcs.
LEMMA UndelayedTasksAre ==
    /\ UndelayedTasks = {t \in TasksAt(Counted, Ended) : ~t.is_delayed}
    /\ UndelayedTasks' = {t \in TasksAt(Counted, Ended)' : ~t.is_delayed}
    /\ Counted \subseteq Held /\ "push" \in Counted
    /\ Ended \subseteq Late /\ Ended \subseteq Busy /\ "pop" \in Ended
  <1>1. /\ Counted \subseteq Held /\ "push" \in Counted
        /\ Ended \subseteq Late /\ Ended \subseteq Busy /\ "pop" \in Ended
    BY DEF Counted, Ended, Held, Late, Busy
  <1>2. UndelayedTasks = {t \in TasksAt(Counted, Ended) : ~t.is_delayed}
    BY DEF UndelayedTasks, TasksAt, Counted, Ended
  <1>3. UndelayedTasks' = {t \in TasksAt(Counted, Ended)' : ~t.is_delayed}
    BY DEF UndelayedTasks, TasksAt, Counted, Ended
  <1> QED BY <1>1, <1>2, <1>3

\* The count stays exact if no undelayed task comes or goes.
LEMMA UndelayedFrame ==
    ASSUME UndelayedCountExact, num_undelayed' = num_undelayed,
           \A t : ~t.is_delayed =>
             (t \in TasksAt(Counted, Ended)' <=> t \in TasksAt(Counted, Ended))
    PROVE  UndelayedCountExact'
  <1>1. UndelayedTasks' = UndelayedTasks
    BY UndelayedTasksAre
  <1> QED BY <1>1 DEF UndelayedCountExact

\* Nothing to count for a poster before it has passed WillPostTask.
LEMMA UndelayedBeforePost ==
    ASSUME TypeOK, Structure, UndelayedCountExact, NEW p \in Posters,
           \/ \E s \in Seqs : \E d \in BOOLEAN : BeforePostTask(p, s, d)
           \/ PostDuringShutdown(p)
    PROVE  UndelayedCountExact'
  <1>1. /\ queue' = queue /\ worker' = worker /\ num_undelayed' = num_undelayed
        /\ poster[p].pc \in {"idle", "check"}
    BY DEF BeforePostTask, PostDuringShutdown, flush
  <1>2. PICK r \in PosterState : /\ poster' = [poster EXCEPT ![p] = r]
                                 /\ r.pc \in {"check", "count", "idle"}
    <2>1. ASSUME NEW s \in Seqs, NEW d \in BOOLEAN, BeforePostTask(p, s, d)
          PROVE  \E r \in PosterState : /\ poster' = [poster EXCEPT ![p] = r]
                                        /\ r.pc \in {"check", "count", "idle"}
      BY <2>1, NewTask
    <2>2. ASSUME PostDuringShutdown(p)
          PROVE  \E r \in PosterState : /\ poster' = [poster EXCEPT ![p] = r]
                                        /\ r.pc \in {"check", "count", "idle"}
      <3>1. /\ poster' = [poster EXCEPT ![p] = IdlePoster] \/ Goto(p, "count")
            /\ Holds(p)
        BY <2>2 DEF PostDuringShutdown, IdlePoster, Holds
      <3> QED BY <3>1, IdlePosterFacts, PosterGoesOn DEF Structure
    <2> QED BY <2>1, <2>2
  <1>3. \A t : t \in TasksAt(Counted, Ended)' <=>
             \/ t \in TasksAt(Counted, Ended) /\ ~(poster[p].pc \in Counted /\ t = poster[p].task)
             \/ r.pc \in Counted /\ t = r.task
    BY <1>1, <1>2, UndelayedTasksAre, TasksByPoster
  <1>4. poster[p].pc \notin Counted /\ r.pc \notin Counted
    BY <1>1, <1>2 DEF Counted
  <1> QED BY <1>1, <1>3, <1>4, UndelayedFrame

\* WillPostTask counts an undelayed task.
LEMMA UndelayedWillPost ==
    ASSUME TypeOK, Structure, UndelayedCountExact, NEW p \in Posters, WillPostTask(p)
    PROVE  UndelayedCountExact'
  <1> DEFINE task == poster[p].task
  <1>1. /\ queue' = queue /\ worker' = worker
        /\ poster[p].pc = "count" /\ Holds(p)
    BY DEF WillPostTask, Holds
  <1>2. poster[p].pc \notin Counted
    BY <1>1 DEF Counted
  <1>3. CASE task.is_delayed
    <2>1. poster' = [poster EXCEPT ![p] = IdlePoster] /\ num_undelayed' = num_undelayed
      BY <1>3 DEF WillPostTask, IdlePoster
    <2>2. \A t : t \in TasksAt(Counted, Ended)' <=>
             \/ t \in TasksAt(Counted, Ended) /\ ~(poster[p].pc \in Counted /\ t = poster[p].task)
             \/ IdlePoster.pc \in Counted /\ t = IdlePoster.task
      BY <1>1, <2>1, IdlePosterFacts, UndelayedTasksAre, TasksByPoster
    <2>3. IdlePoster.pc \notin Counted
      BY IdlePosterFacts DEF Counted
    <2> QED BY <1>2, <2>1, <2>2, <2>3, UndelayedFrame
  <1>4. CASE ~task.is_delayed
    <2>1. Goto(p, "push") /\ num_undelayed' = num_undelayed + 1
      BY <1>4 DEF WillPostTask
    <2>2. PICK r \in PosterState : /\ poster' = [poster EXCEPT ![p] = r]
                                   /\ r.pc = "push" /\ r.task = task
      BY <1>1, <2>1, PosterGoesOn DEF Structure
    <2>3. \A t : t \in TasksAt(Counted, Ended)' <=>
             \/ t \in TasksAt(Counted, Ended) /\ ~(poster[p].pc \in Counted /\ t = poster[p].task)
             \/ r.pc \in Counted /\ t = r.task
      BY <1>1, <2>2, UndelayedTasksAre, TasksByPoster
    <2>4. \A t : t \in TasksAt(Counted, Ended)' <=> t \in TasksAt(Counted, Ended) \/ t = task
      BY <1>2, <2>2, <2>3 DEF Counted
    <2>5. task \notin TasksAt(Counted, Ended)
      <3>1. task \notin InQueues(Ended)
        BY <1>1, UndelayedTasksAre, TasksAtFacts
      <3>2. ASSUME NEW q \in Posters, poster[q].pc \in Counted PROVE poster[q].task # task
        <4>1. Holds(q) /\ q # p
          BY <1>1, <3>2 DEF Holds, Counted
        <4> QED BY <1>1, <4>1 DEF Structure, TasksUnique, HeldOnce
      <3> QED BY <3>1, <3>2, PostingIs DEF TasksAt
    <2> HIDE DEF task
    <2>6. UndelayedTasks' = UndelayedTasks \cup {task} /\ task \notin UndelayedTasks
      BY <1>4, <2>4, <2>5, UndelayedTasksAre
    <2> QED BY <2>1, <2>6, FS_AddElement DEF UndelayedCountExact
  <1> QED BY <1>3, <1>4

\* A delayed task that becomes ripe is not counted.
LEMMA UndelayedRipe ==
    ASSUME TypeOK, Structure, UndelayedCountExact, NEW p \in Posters, DelayedTaskRipe(p)
    PROVE  UndelayedCountExact'
  <1>1. /\ queue' = queue /\ worker' = worker /\ num_undelayed' = num_undelayed
        /\ poster[p].pc = "idle"
    BY DEF DelayedTaskRipe, flush
  <1>2. PICK task \in delayed :
          poster' = [poster EXCEPT ![p] = [pc |-> "push", task |-> task]]
    BY DEF DelayedTaskRipe
  <1> DEFINE r == [pc |-> "push", task |-> task]
  <1>3. task \in Task /\ task.is_delayed
    BY DEF TypeOK, Structure, WaitersKnown
  <1>4. r \in PosterState /\ r.task = task /\ poster' = [poster EXCEPT ![p] = r]
    BY <1>2, <1>3, RecordFields DEF PosterPcs
  <1> HIDE DEF r
  <1>5. \A t : t \in TasksAt(Counted, Ended)' <=>
             \/ t \in TasksAt(Counted, Ended) /\ ~(poster[p].pc \in Counted /\ t = poster[p].task)
             \/ r.pc \in Counted /\ t = r.task
    BY <1>1, <1>4, UndelayedTasksAre, TasksByPoster
  <1>6. poster[p].pc \notin Counted
    BY <1>1 DEF Counted
  <1> QED BY <1>1, <1>3, <1>4, <1>5, <1>6, UndelayedFrame

\* PushTask replaces a counted task by the same task with a time.
LEMMA UndelayedPush ==
    ASSUME TypeOK, Structure, UndelayedCountExact, NEW p \in Posters, PushTask(p)
    PROVE  UndelayedCountExact'
  <1> DEFINE task == poster[p].task
             u == [task EXCEPT !.time = posts]
  <1>1. /\ TasksAt(Counted, Ended)' = (TasksAt(Counted, Ended) \ {task}) \cup {u}
        /\ task \in TasksAt(Counted, Ended)
        /\ u \notin TasksAt(Counted, Ended) \ {task}
        /\ u.is_delayed = task.is_delayed
    BY UndelayedTasksAre, TasksByPush
  <1>2. num_undelayed' = num_undelayed
    BY DEF PushTask, flush
  <1> HIDE DEF task, u
  <1>3. CASE task.is_delayed
    BY <1>1, <1>2, <1>3, UndelayedFrame
  <1>4. CASE ~task.is_delayed
    <2> DEFINE rest == UndelayedTasks \ {task}
    <2>1. UndelayedTasks' = rest \cup {u} /\ task \in UndelayedTasks /\ u \notin rest
      BY <1>1, <1>4, UndelayedTasksAre
    <2>2. IsFiniteSet(UndelayedTasks) /\ Cardinality(UndelayedTasks) \in Nat
      BY FS_CardinalityType DEF UndelayedCountExact
    <2>3. IsFiniteSet(rest) /\ Cardinality(rest) = Cardinality(UndelayedTasks) - 1
      BY <2>1, <2>2, FS_RemoveElement
    <2> HIDE DEF rest
    <2>4. /\ IsFiniteSet(UndelayedTasks')
          /\ Cardinality(UndelayedTasks') = Cardinality(rest) + 1
      BY <2>1, <2>3, FS_AddElement
    <2> QED BY <1>2, <2>2, <2>3, <2>4 DEF UndelayedCountExact
  <1> QED BY <1>3, <1>4

\* The end of an undelayed task takes it off the count.
LEMMA UndelayedDecrement ==
    ASSUME TypeOK, Structure, UndelayedCountExact, NEW w \in Workers,
           DecrementNumIncompleteUndelayedTasks(w)
    PROVE  UndelayedCountExact'
  <1> DEFINE task == CurrentTask(w)
  <1>1. PICK pc \in Busy : /\ GoesOn(w, pc) /\ worker[w].pc = "count"
                           /\ pc \in {"signal", "pop"}
    BY WorkerGoesOn
  <1>2. num_undelayed' = IF task.is_delayed THEN num_undelayed ELSE num_undelayed - 1
    BY DEF DecrementNumIncompleteUndelayedTasks
  <1>3. /\ TasksAt(Counted, Ended)' = TasksAt(Counted, Ended) \ {task}
        /\ task \in TasksAt(Counted, Ended)
    <2>1. pc \in Ended /\ worker[w].pc \notin Ended
      BY <1>1 DEF Ended
    <2> QED BY <1>1, <2>1, UndelayedTasksAre, TasksGoOn
  <1> HIDE DEF task
  <1>4. CASE task.is_delayed
    BY <1>2, <1>3, <1>4, UndelayedFrame
  <1>5. CASE ~task.is_delayed
    <2>1. UndelayedTasks' = UndelayedTasks \ {task} /\ task \in UndelayedTasks
      BY <1>3, <1>5, UndelayedTasksAre
    <2>2. IsFiniteSet(UndelayedTasks) /\ Cardinality(UndelayedTasks) \in Nat
      BY FS_CardinalityType DEF UndelayedCountExact
    <2> QED BY <1>2, <1>5, <2>1, <2>2, FS_RemoveElement DEF UndelayedCountExact
  <1> QED BY <1>4, <1>5

\* No other step of a worker changes the count or the tasks counted.
LEMMA UndelayedGoesOn ==
    ASSUME TypeOK, Structure, UndelayedCountExact, NEW w \in Workers,
           \/ BeforeRunTask(w)
           \/ DecrementNumTasksBlockingShutdown(w)
           \/ OnBlockingShutdownTasksComplete(w)
           \/ WorkerSignalsFlush(w)
           \/ WorkerCallsFlushCallback(w)
    PROVE  UndelayedCountExact'
  <1>1. PICK pc \in Busy : GoesOn(w, pc) /\ (worker[w].pc \in Ended <=> pc \in Ended)
    <2>1. {"count", "callback", "pop"} \subseteq Busy
      BY DEF Busy
    <2> QED BY <2>1, WorkerGoesOn DEF Ended
  <1>2. TasksAt(Counted, Ended)' = TasksAt(Counted, Ended)
    BY <1>1, UndelayedTasksAre, TasksGoOn
  <1>3. num_undelayed' = num_undelayed
    BY DEF BeforeRunTask, DecrementNumTasksBlockingShutdown,
           OnBlockingShutdownTasksComplete, WorkerSignalsFlush, WorkerCallsFlushCallback, flush
  <1> QED BY <1>2, <1>3, UndelayedFrame

\* Steps that move sequences neither add nor complete a task.
LEMMA UndelayedByOthers ==
    ASSUME TypeOK, Structure, UndelayedCountExact, num_undelayed' = num_undelayed,
           \/ UNCHANGED <<queue, poster, worker>>
           \/ \E p \in Posters : WillScheduleSequence(p)
           \/ \E w \in Workers : TakeTask(w) \/ Pop(w) \/ ManageBackgroundSequences(w)
    PROVE  UndelayedCountExact'
  <1>1. TasksAt(Counted, Ended)' = TasksAt(Counted, Ended)
    BY UndelayedTasksAre, TasksByOthers, TasksByPop
  <1> QED BY <1>1, UndelayedFrame

------------------------------------------------------------------------------
(* Types                                                                     *)

\* The types of what the tasks and sequences are made of, ...
PlacesTyped ==
    /\ preempted \subseteq Seqs \X (0 .. MaxPosts)
    /\ queue \in [Seqs -> Seq(Task)]
    /\ scheduled \subseteq Seqs
    /\ delayed \subseteq Task
    /\ poster \in [Posters -> PosterState]
    /\ worker \in [Workers -> WorkerState]
    /\ posts \in 0 .. MaxPosts

\* ... of the counters, ...
CountsTyped == num_blocking \in Nat /\ num_undelayed \in Nat /\ num_background \in Nat

\* ... and of everything else.
RestTyped ==
    /\ started \in BOOLEAN
    /\ event \in {"null", "unsignaled", "signaled"}
    /\ callback \in BOOLEAN
    /\ max_background \in Nat
    /\ shutter \in ShutterPcs
    /\ flusher \in [Flushers -> FlusherPcs]
    /\ async \in AsyncPcs

\* These are the conjuncts of the type invariant.
LEMMA TypeParts ==
    /\ TypeOK <=> PlacesTyped /\ CountsTyped /\ RestTyped
    /\ TypeOK' <=> PlacesTyped' /\ CountsTyped' /\ RestTyped'
  <1> USE DEF PosterState, WorkerState
  <1>1. TypeOK <=> PlacesTyped /\ CountsTyped /\ RestTyped
    BY DEF TypeOK, PlacesTyped, CountsTyped, RestTyped
  <1>2. TypeOK' <=> PlacesTyped' /\ CountsTyped' /\ RestTyped'
    BY DEF TypeOK, PlacesTyped, CountsTyped, RestTyped
  <1> QED BY <1>1, <1>2

\* A counter that counts a finite set is a natural number: no decrement takes
\* it below zero.
LEMMA CountsAreNaturals ==
    ASSUME Blocked', UndelayedCountExact', BackgroundCapKept'
    PROVE  CountsTyped'
  <1>1. num_blocking' \in Nat
    <2>1. IsFiniteSet(BlockingTasks')
      BY DEF Blocked, BlockingTasksFinite
    <2>2. IsFiniteSet(Checking') /\ IsFiniteSet(Undoing')
      BY BoundsAssumption, FS_Subset DEF Checking, Undoing
    <2>3. /\ Cardinality(BlockingTasks') \in Nat
          /\ Cardinality(Checking') \in Nat
          /\ Cardinality(Undoing') \in Nat
      BY <2>1, <2>2, FS_CardinalityType
    <2> QED BY <2>3, BlockingIs DEF Blocked
  <1>2. num_undelayed' \in Nat
    BY FS_CardinalityType DEF UndelayedCountExact
  <1>3. num_background' \in Nat
    <2>1. IsFiniteSet(BackgroundPool') /\ IsFiniteSet(BackgroundWorkers')
      <3>1. IsFiniteSet(Background)
        BY BoundsAssumption, TraitsAssumption, FS_Subset
      <3> QED BY <3>1, BoundsAssumption, FS_Subset DEF BackgroundPool, BackgroundWorkers
    <2>2. Cardinality(BackgroundPool') \in Nat /\ Cardinality(BackgroundWorkers') \in Nat
      BY <2>1, FS_CardinalityType
    <2> QED BY <2>2, CapIs
  <1> QED BY <1>1, <1>2, <1>3 DEF CountsTyped

\* The cap that shutdown sets is a number.
LEMMA UnboundedIsNatural == Unbounded \in Nat
  BY BoundsAssumption, FS_CardinalityType DEF Unbounded

\* What is left of a flusher's state when it moves.
LEMMA FlusherMoves ==
    ASSUME RestTyped, NEW f \in Flushers, NEW pc \in FlusherPcs,
           flusher' = [flusher EXCEPT ![f] = pc]
    PROVE  /\ flusher' \in [Flushers -> FlusherPcs]
           /\ flusher'[f] = pc
           /\ \A g \in Flushers \ {f} : flusher'[g] = flusher[g]
  BY DEF RestTyped

\* Signaling the condition variable lets no flusher return.
LEMMA SignalMoves ==
    ASSUME RestTyped, SignalFlushCv
    PROVE  /\ flusher' \in [Flushers -> FlusherPcs]
           /\ \A f \in Flushers : flusher'[f] \in {flusher[f], "check"}
  <1>1. CASE flusher' = flusher
    BY <1>1 DEF RestTyped
  <1>2. CASE \E f \in Flushers : flusher' = [flusher EXCEPT ![f] = "check"]
    BY <1>2, FlusherMoves DEF FlusherPcs
  <1> QED BY <1>1, <1>2 DEF SignalFlushCv, WakeOneFlusher

\* The steps that touch neither a task nor a sequence nor a count.
QuietStep ==
    \/ ShutdownWaits
    \/ ShutdownSignalsFlush
    \/ ShutdownCallsFlushCallback
    \/ \E f \in Flushers : FlushForTesting(f) \/ FlushReadsCount(f) \/ FlushReadsShutdown(f)
    \/ FlushAsyncForTesting
    \/ FlushAsyncReadsCount
    \/ FlushAsyncReadsShutdown
    \/ FlushAsyncCallsCallback

\* They leave all of that alone.
LEMMA QuietSteps ==
    ASSUME QuietStep
    PROVE  UNCHANGED <<core, started, event>>
  <1> USE DEF core, places, tracker, flush, background
  <1>1. CASE ShutdownWaits \/ ShutdownSignalsFlush \/ ShutdownCallsFlushCallback
    BY <1>1 DEF ShutdownWaits, ShutdownSignalsFlush, ShutdownCallsFlushCallback
  <1>2. CASE \E f \in Flushers : FlushForTesting(f) \/ FlushReadsCount(f) \/ FlushReadsShutdown(f)
    BY <1>2 DEF FlushForTesting, FlushReadsCount, FlushReadsShutdown
  <1>3. CASE FlushAsyncForTesting \/ FlushAsyncReadsCount \/ FlushAsyncReadsShutdown
             \/ FlushAsyncCallsCallback
    BY <1>3 DEF FlushAsyncForTesting, FlushAsyncReadsCount, FlushAsyncReadsShutdown,
                FlushAsyncCallsCallback
  <1> QED BY <1>1, <1>2, <1>3 DEF QuietStep

\* Every step keeps the types of the variables that are no place or count.
LEMMA RestStep ==
    ASSUME RestTyped, Next
    PROVE  RestTyped'
  <1> USE DEF tracker, flush, background
  <1>1. ASSUME NEW p \in Posters, NEW s \in Seqs, NEW d \in BOOLEAN, BeforePostTask(p, s, d)
        PROVE  RestTyped'
    BY <1>1 DEF BeforePostTask, RestTyped
  <1>2. ASSUME NEW p \in Posters, PosterStep(p)
        PROVE  RestTyped'
    BY <1>2 DEF PosterStep, PostDuringShutdown, WillPostTask, DelayedTaskRipe, PushTask,
                WillScheduleSequence, RestTyped
  <1>3. ASSUME NEW w \in Workers,
               \/ BeginRound(w) \/ TakeTask(w) \/ GetsNoWork(w)
               \/ BeforeRunTask(w)
               \/ DecrementNumTasksBlockingShutdown(w)
               \/ DecrementNumIncompleteUndelayedTasks(w)
               \/ Pop(w)
               \/ ManageBackgroundSequences(w)
        PROVE  RestTyped'
    <2>1. UNCHANGED <<started, event, callback, max_background, shutter, flusher, async>>
      BY <1>3 DEF BeginRound, TakeTask, GetsNoWork, BeforeRunTask,
                  DecrementNumTasksBlockingShutdown, DecrementNumIncompleteUndelayedTasks,
                  Pop, ManageBackgroundSequences
    <2> QED BY <2>1 DEF RestTyped
  <1>4. ASSUME NEW w \in Workers,
               \/ OnBlockingShutdownTasksComplete(w)
               \/ WorkerCallsFlushCallback(w)
        PROVE  RestTyped'
    BY <1>4 DEF OnBlockingShutdownTasksComplete, WorkerCallsFlushCallback, RestTyped
  <1>5. ASSUME NEW w \in Workers, WorkerSignalsFlush(w)
        PROVE  RestTyped'
    BY <1>5, SignalMoves DEF WorkerSignalsFlush, RestTyped
  <1>6. ASSUME StartShutdown \/ SetHasShutdownStartedForTesting
        PROVE  RestTyped'
    BY <1>6 DEF StartShutdown, SetHasShutdownStartedForTesting, RestTyped, ShutterPcs
  <1>7. ASSUME SetMaxNumScheduledBackgroundSequences
        PROVE  RestTyped'
    BY <1>7, UnboundedIsNatural DEF SetMaxNumScheduledBackgroundSequences, RestTyped, ShutterPcs
  <1>8. ASSUME ShutdownWaits \/ ShutdownCallsFlushCallback
        PROVE  RestTyped'
    BY <1>8 DEF ShutdownWaits, ShutdownCallsFlushCallback, RestTyped, ShutterPcs
  <1>9. ASSUME ShutdownSignalsFlush
        PROVE  RestTyped'
    BY <1>9, SignalMoves DEF ShutdownSignalsFlush, RestTyped, ShutterPcs
  <1>10. ASSUME NEW f \in Flushers,
                FlushForTesting(f) \/ FlushReadsCount(f) \/ FlushReadsShutdown(f)
         PROVE  RestTyped'
    <2>1. PICK pc \in FlusherPcs : flusher' = [flusher EXCEPT ![f] = pc]
      BY <1>10 DEF FlushForTesting, FlushReadsCount, FlushReadsShutdown, FlusherPcs
    <2>2. UNCHANGED <<started, event, callback, max_background, shutter, async>>
      BY <1>10 DEF FlushForTesting, FlushReadsCount, FlushReadsShutdown
    <2> QED BY <2>1, <2>2, FlusherMoves DEF RestTyped
  <1>11. ASSUME FlushAsyncForTesting \/ AsyncStep
         PROVE  RestTyped'
    BY <1>11 DEF FlushAsyncForTesting, AsyncStep, FlushAsyncReadsCount,
                 FlushAsyncReadsShutdown, FlushAsyncCallsCallback, RestTyped, AsyncPcs
  <1> QED BY <1>1, <1>2, <1>3, <1>4, <1>5, <1>6, <1>7, <1>8, <1>9, <1>10, <1>11
          DEF Next, Request, WorkerStep, ShutterStep, FlusherStep

\* Posters' steps keep the types of tasks and sequences.
LEMMA PlacesByPoster ==
    ASSUME TypeOK, Structure, NEW p \in Posters,
           \/ \E s \in Seqs : \E d \in BOOLEAN : BeforePostTask(p, s, d)
           \/ PosterStep(p)
    PROVE  PlacesTyped'
  <1>0. PlacesTyped
    BY TypeParts
  <1>1. ASSUME NEW s \in Seqs, NEW d \in BOOLEAN, BeforePostTask(p, s, d)
        PROVE  PlacesTyped'
    <2>1. PICK r \in PosterState : poster' = [poster EXCEPT ![p] = r]
      BY <1>1, NewTask
    <2>2. posts' \in 0 .. MaxPosts
      BY <1>1, BoundsAssumption DEF BeforePostTask, TypeOK
    <2>3. UNCHANGED <<preempted, queue, scheduled, delayed, worker>>
      BY <1>1 DEF BeforePostTask, background
    <2> QED BY <1>0, <2>1, <2>2, <2>3, PosterMoves DEF PlacesTyped
  <1>2. ASSUME PostDuringShutdown(p)
        PROVE  PlacesTyped'
    <2>1. PICK r \in PosterState : poster' = [poster EXCEPT ![p] = r]
      <3>1. Holds(p) /\ (poster' = [poster EXCEPT ![p] = IdlePoster] \/ Goto(p, "count"))
        BY <1>2 DEF PostDuringShutdown, IdlePoster, Holds
      <3> QED BY <3>1, IdlePosterFacts, PosterGoesOn DEF Structure
    <2>2. UNCHANGED <<preempted, queue, scheduled, delayed, worker, posts>>
      BY <1>2 DEF PostDuringShutdown, background
    <2> QED BY <1>0, <2>1, <2>2, PosterMoves DEF PlacesTyped
  <1>3. ASSUME WillPostTask(p)
        PROVE  PlacesTyped'
    <2>1. Holds(p) /\ poster[p].task \in Task
      BY <1>3 DEF WillPostTask, Holds, Structure, PostersHold
    <2>2. PICK r \in PosterState : poster' = [poster EXCEPT ![p] = r]
      <3>1. poster' = [poster EXCEPT ![p] = IdlePoster] \/ Goto(p, "push")
        BY <1>3 DEF WillPostTask, IdlePoster
      <3> QED BY <2>1, <3>1, IdlePosterFacts, PosterGoesOn DEF Structure
    <2>3. delayed' \subseteq Task
      BY <1>0, <1>3, <2>1 DEF WillPostTask, PlacesTyped
    <2>4. UNCHANGED <<preempted, queue, scheduled, worker, posts>>
      BY <1>3 DEF WillPostTask, background
    <2> QED BY <1>0, <2>2, <2>3, <2>4, PosterMoves DEF PlacesTyped
  <1>4. ASSUME DelayedTaskRipe(p)
        PROVE  PlacesTyped'
    <2>1. PICK task \in delayed :
            /\ delayed' = delayed \ {task}
            /\ poster' = [poster EXCEPT ![p] = [pc |-> "push", task |-> task]]
      BY <1>4 DEF DelayedTaskRipe
    <2>2. [pc |-> "push", task |-> task] \in PosterState
      BY RecordFields DEF TypeOK, PosterPcs
    <2>3. UNCHANGED <<preempted, queue, scheduled, worker, posts>>
      BY <1>4 DEF DelayedTaskRipe, background
    <2>4. poster' \in [Posters -> PosterState]
      BY <2>1, <2>2, PosterMoves
    <2> QED BY <1>0, <2>1, <2>3, <2>4 DEF PlacesTyped
  <1>5. ASSUME PushTask(p)
        PROVE  PlacesTyped'
    <2>1. poster' \in [Posters -> PosterState]
      BY <1>5, PushMoves, PosterMoves DEF Structure
    <2>2. poster[p].task \in Task
      BY <1>5 DEF PushTask, Structure, PostersHold
    <2>3. poster[p].task.seq \in Seqs /\ [poster[p].task EXCEPT !.time = posts] \in Task
      BY <2>2, TaskFields DEF TypeOK
    <2>4. queue' = [queue EXCEPT ![poster[p].task.seq] =
                      Append(@, [poster[p].task EXCEPT !.time = posts])]
      BY <1>5 DEF PushTask
    <2>5. queue' \in [Seqs -> Seq(Task)]
      BY <1>0, <2>3, <2>4, Pushed DEF PlacesTyped
    <2>6. UNCHANGED <<preempted, scheduled, delayed, worker, posts>>
      BY <1>5 DEF PushTask, background
    <2> QED BY <1>0, <2>1, <2>5, <2>6 DEF PlacesTyped
  <1>6. ASSUME WillScheduleSequence(p)
        PROVE  PlacesTyped'
    <2>1. poster' \in [Posters -> PosterState]
      BY <1>6, IdlePosterFacts, PosterMoves DEF WillScheduleSequence, IdlePoster
    <2>2. PICK s \in Seqs : s = poster[p].task.seq /\ Schedules(p, s)
      BY <1>6, TaskFields DEF WillScheduleSequence, Structure, PostersHold, Schedules
    <2>3. queue[s] # <<>> /\ queue[s] \in Seq(Task)
      BY <1>0, <2>2 DEF Structure, Placed, PlacedIfBusy, PlacesTyped
    <2>4. SequencedTime(s) \in 0 .. MaxPosts
      <3>1. Head(queue[s]) \in Task
        BY <2>3
      <3> QED BY <3>1, TaskFields DEF SequencedTime
    <2>5. /\ \/ scheduled' = scheduled \cup {s} /\ preempted' = preempted
             \/ scheduled' = scheduled /\ preempted' = preempted \cup {<<s, SequencedTime(s)>>}
          /\ UNCHANGED <<queue, delayed, worker, posts>>
      BY <1>6, <2>2 DEF WillScheduleSequence
    <2>6. scheduled' \subseteq Seqs /\ preempted' \subseteq Seqs \X (0 .. MaxPosts)
      BY <1>0, <2>4, <2>5 DEF PlacesTyped
    <2> QED BY <1>0, <2>1, <2>5, <2>6 DEF PlacesTyped
  <1> QED BY <1>1, <1>2, <1>3, <1>4, <1>5, <1>6 DEF PosterStep

\* So do the steps of a worker with its task, ...
LEMMA PlacesGoOn ==
    ASSUME TypeOK, NEW w \in Workers, NEW pc \in Busy, GoesOn(w, pc)
    PROVE  PlacesTyped'
  <1>1. worker' = [worker EXCEPT ![w] = [pc |-> pc, seq |-> worker[w].seq]]
    BY WorkerGoesMoves DEF GoesOn, Busy, WorkerPcs
  <1>2. [pc |-> pc, seq |-> worker[w].seq] \in WorkerState
    <2>1. worker[w].seq \in Seqs \cup {None}
      BY TypeParts, RecordFields DEF PlacesTyped
    <2> QED BY <2>1, RecordFields DEF Busy, WorkerPcs
  <1>3. worker' \in [Workers -> WorkerState]
    BY <1>1, <1>2, WorkerMoves
  <1> QED BY <1>3, TypeParts DEF GoesOn, background, PlacesTyped

\* ... and those with which it takes a sequence and gives it back, ...
LEMMA PlacesByWorker ==
    ASSUME TypeOK, Structure, NEW w \in Workers,
           TakeTask(w) \/ Pop(w) \/ ManageBackgroundSequences(w)
    PROVE  PlacesTyped'
  <1>0. PlacesTyped
    BY TypeParts
  <1>1. ASSUME TakeTask(w)
        PROVE  PlacesTyped'
    <2>1. PICK s \in scheduled :
            /\ scheduled' = scheduled \ {s}
            /\ worker' = [worker EXCEPT ![w] = [pc |-> "before", seq |-> s]]
      BY <1>1 DEF TakeTask
    <2>2. [pc |-> "before", seq |-> s] \in WorkerState
      BY <1>0, RecordFields DEF PlacesTyped, WorkerPcs
    <2>3. worker' \in [Workers -> WorkerState]
      BY <2>1, <2>2, WorkerMoves
    <2> QED BY <1>0, <1>1, <2>1, <2>3 DEF TakeTask, background, PlacesTyped
  <1>2. ASSUME Pop(w)
        PROVE  PlacesTyped'
    <2>1. worker' \in [Workers -> WorkerState]
      BY <1>2, PopMoves, WorkerMoves
    <2>2. worker[w].seq \in Seqs /\ queue[worker[w].seq] # <<>>
      BY <1>2, BusyWorker DEF Pop, Structure, Busy
    <2>3. queue' \in [Seqs -> Seq(Task)]
      BY <1>0, <1>2, <2>2, Popped DEF Pop, PlacesTyped
    <2>4. scheduled' \subseteq Seqs
      BY <1>0, <1>2, <2>2 DEF Pop, PlacesTyped
    <2> QED BY <1>0, <1>2, <2>1, <2>3, <2>4 DEF Pop, background, PlacesTyped
  <1>3. ASSUME ManageBackgroundSequences(w)
        PROVE  PlacesTyped'
    <2> DEFINE s == worker[w].seq
               just_ran == IF worker[w].pc = "manage" THEN {<<s, SequencedTime(s)>>} ELSE {}
               waiting == SequencesWaiting(just_ran)
    <2>1. s \in Seqs
      BY <1>3, TraitsAssumption DEF ManageBackgroundSequences, Structure, WorkersHold
    <2>2. worker[w].pc = "manage" => SequencedTime(s) \in 0 .. MaxPosts
      <3>1. SUFFICES ASSUME worker[w].pc = "manage"
                     PROVE  SequencedTime(s) \in 0 .. MaxPosts
        OBVIOUS
      <3>2. CurrentTask(w) \in Task
        BY <3>1, BusyWorker DEF Structure
      <3> QED BY <3>2, TaskFields DEF SequencedTime, CurrentTask
    <2>3. waiting \subseteq Seqs \X (0 .. MaxPosts)
      BY <1>0, <2>1, <2>2 DEF PlacesTyped, SequencesWaiting
    <2>4. /\ \/ scheduled' = scheduled \cup {s} /\ preempted' = preempted
             \/ \E x \in Earliest(waiting) :
                  preempted' = waiting \ {x} /\ scheduled' = scheduled \cup {x[1]}
             \/ scheduled' = scheduled /\ preempted' = preempted
          /\ worker' = [worker EXCEPT ![w] = [pc |-> "idle", seq |-> None]]
          /\ UNCHANGED <<queue, delayed, poster, posts>>
      BY <1>3 DEF ManageBackgroundSequences
    <2> HIDE DEF s, waiting
    <2>5. scheduled' \subseteq Seqs /\ preempted' \subseteq Seqs \X (0 .. MaxPosts)
      BY <1>0, <2>1, <2>3, <2>4 DEF Earliest, PlacesTyped
    <2>6. [pc |-> "idle", seq |-> None] \in WorkerState
      BY RecordFields DEF WorkerPcs
    <2>7. worker' \in [Workers -> WorkerState]
      BY <2>4, <2>6, WorkerMoves
    <2> QED BY <1>0, <2>4, <2>5, <2>7 DEF PlacesTyped
  <1> QED BY <1>1, <1>2, <1>3

\* ... and the step that lifts the cap.
LEMMA PlacesSetMax ==
    ASSUME TypeOK, SetMaxNumScheduledBackgroundSequences
    PROVE  PlacesTyped'
  <1>1. PlacesTyped
    BY TypeParts
  <1>2. scheduled' \subseteq Seqs /\ preempted' \subseteq preempted
    BY <1>1 DEF SetMaxNumScheduledBackgroundSequences, PreemptedToSchedule, PlacesTyped
  <1> QED BY <1>1, <1>2 DEF SetMaxNumScheduledBackgroundSequences, PlacesTyped

------------------------------------------------------------------------------
(* The invariant is inductive                                                *)

\* Everything but the types that RestStep and the counts give.
Rest == PlacesTyped /\ Structure /\ BackgroundCapKept /\ Blocked /\ UndelayedCountExact

\* The parts of the invariant.
LEMMA InvParts ==
    /\ IndInv <=> TypeOK /\ Structure /\ BackgroundCapKept /\ Blocked /\ UndelayedCountExact
    /\ Rest' /\ RestTyped' => IndInv'
  <1>1. IndInv <=> TypeOK /\ Structure /\ BackgroundCapKept /\ Blocked /\ UndelayedCountExact
    BY DEF IndInv, Structure, Blocked
  <1>2. ASSUME Rest', RestTyped'
        PROVE  IndInv'
    <2>1. TypeOK'
      BY <1>2, CountsAreNaturals, TypeParts DEF Rest
    <2> QED BY <1>2, <2>1 DEF Rest, IndInv, Structure, Blocked
  <1> QED BY <1>1, <1>2

\* At the start no task exists.
LEMMA InitInv ==
    ASSUME Init
    PROVE  IndInv
  <1>1. poster \in [Posters -> PosterState] /\ \A p \in Posters : poster[p].pc = "idle"
    <2>1. /\ [pc |-> "idle", task |-> NoTask] \in PosterState
          /\ [pc |-> "idle", task |-> NoTask].pc = "idle"
      BY IdlePosterFacts DEF IdlePoster
    <2> QED BY <2>1 DEF Init
  <1>2. /\ worker \in [Workers -> WorkerState]
        /\ \A w \in Workers : worker[w].pc = "idle" /\ worker[w].seq = None
    <2>1. /\ [pc |-> "idle", seq |-> None] \in WorkerState
          /\ [pc |-> "idle", seq |-> None].pc = "idle"
          /\ [pc |-> "idle", seq |-> None].seq = None
      BY RecordFields DEF WorkerPcs
    <2> QED BY <2>1 DEF Init
  <1>3. queue \in [Seqs -> Seq(Task)] /\ \A s \in Seqs : queue[s] = <<>> /\ Len(queue[s]) = 0
    BY DEF Init
  <1>4. preempted = {} /\ scheduled = {} /\ delayed = {} /\ posts = 0
    BY DEF Init
  <1>5. TypeOK
    <2>1. PlacesTyped
      BY <1>1, <1>2, <1>3, <1>4, BoundsAssumption DEF PlacesTyped
    <2>2. CountsTyped
      BY DEF Init, CountsTyped
    <2>3. RestTyped
      BY BoundsAssumption DEF Init, RestTyped, ShutterPcs, FlusherPcs, AsyncPcs
    <2> QED BY <2>1, <2>2, <2>3, TypeParts
  <1>6. Structure
    <2>1. \A s \in Seqs : /\ \A p \in Posters : ~Schedules(p, s)
                          /\ \A w \in Workers : ~Owns(w, s)
      BY <1>1, <1>2, TraitsAssumption DEF Schedules, Owns
    <2>2. Placed
      BY <1>3, <1>4, <2>1 DEF Placed, PlacedOnce, PlacedApart, PlacedIfBusy, Preempted
    <2>3. PostersHold /\ WaitersKnown
      BY <1>1, <1>4 DEF PostersHold, WaitersKnown
    <2>4. WorkersHold
      BY <1>2 DEF WorkersHold
    <2>5. TasksUnique
      BY <1>1, <1>3, <1>4 DEF TasksUnique, HeldOnce, QueuedOnce, IdsUsed, Holds
    <2> QED BY <2>2, <2>3, <2>4, <2>5 DEF Structure
  <1>7. BackgroundCapKept
    <2>1. BackgroundPool = {} /\ BackgroundWorkers = {}
      BY <1>2, <1>4, TraitsAssumption DEF BackgroundPool, BackgroundWorkers
    <2>2. Cardinality({}) = 0
      BY FS_EmptySet
    <2>3. num_background = 0 /\ max_background \in Nat
      BY BoundsAssumption DEF Init
    <2> QED BY <1>4, <2>1, <2>2, <2>3, CapIs
  <1>8. \A A, B : A \subseteq Held => TasksAt(A, B) = {}
    <2>1. SUFFICES ASSUME NEW A, NEW B, A \subseteq Held, NEW t, t \in TasksAt(A, B)
                   PROVE  FALSE
      OBVIOUS
    <2>2. t \notin Posting(A)
      BY <1>1, <2>1, PostingIs DEF Held
    <2>3. t \notin InQueues(B)
      BY <1>3, InQueuesIs
    <2> QED BY <2>1, <2>2, <2>3 DEF TasksAt
  <1>9. IsFiniteSet({}) /\ Cardinality({}) = 0
    BY FS_EmptySet
  <1>10. Blocked
    <2>1. BlockingTasks = {}
      BY <1>8, BlockingTasksAre
    <2>2. Checking = {} /\ Undoing = {}
      BY <1>1, <1>2 DEF Checking, Undoing, RunsSkipTask
    <2>3. BlockingTasksFinite /\ BlockingCountExact
      BY <1>9, <2>1, <2>2, BlockingIs DEF BlockingTasksFinite, Init
    <2>4. NothingPriorLeft
      BY <1>2 DEF Init, NothingPriorLeft, Completing, IsShutdownComplete
    <2> QED BY <2>3, <2>4 DEF Blocked
  <1>11. UndelayedCountExact
    <2>1. UndelayedTasks = {}
      BY <1>8, UndelayedTasksAre
    <2> QED BY <1>9, <2>1 DEF UndelayedCountExact, Init
  <1> QED BY <1>5, <1>6, <1>7, <1>10, <1>11, InvParts

\* What posters do keeps the invariant, action by action.
LEMMA PosterKeeps ==
    ASSUME IndInv, NEW p \in Posters,
           \/ \E s \in Seqs : \E d \in BOOLEAN : BeforePostTask(p, s, d)
           \/ PosterStep(p)
    PROVE  Rest'
  <1>1. TypeOK /\ Structure /\ BackgroundCapKept /\ Blocked /\ UndelayedCountExact
    BY InvParts
  <1>2. PlacesTyped'
    BY <1>1, PlacesByPoster
  <1>3. ASSUME NEW s \in Seqs, NEW d \in BOOLEAN, BeforePostTask(p, s, d)
        PROVE  Rest'
    <2>1. BackgroundCapKept'
      BY <1>1, <1>3, CapFrame DEF BeforePostTask, background
    <2> QED BY <1>1, <1>2, <1>3, <2>1, StructureBeforePost, BlockedBeforePost,
               UndelayedBeforePost DEF Rest
  <1>4. ASSUME PostDuringShutdown(p)
        PROVE  Rest'
    <2>1. BackgroundCapKept'
      BY <1>1, <1>4, CapFrame DEF PostDuringShutdown, background
    <2> QED BY <1>1, <1>2, <1>4, <2>1, StructurePostDuring, BlockedPostDuring,
               UndelayedBeforePost DEF Rest
  <1>5. ASSUME WillPostTask(p)
        PROVE  Rest'
    <2>1. BackgroundCapKept'
      BY <1>1, <1>5, CapFrame DEF WillPostTask, background
    <2> QED BY <1>1, <1>2, <1>5, <2>1, StructureWillPost, BlockedPosting,
               UndelayedWillPost DEF Rest
  <1>6. ASSUME DelayedTaskRipe(p)
        PROVE  Rest'
    <2>1. BackgroundCapKept'
      BY <1>1, <1>6, CapFrame DEF DelayedTaskRipe, background
    <2> QED BY <1>1, <1>2, <1>6, <2>1, StructureRipe, BlockedPosting, UndelayedRipe DEF Rest
  <1>7. ASSUME PushTask(p)
        PROVE  Rest'
    <2>1. BackgroundCapKept'
      BY <1>1, <1>7, CapFrame DEF PushTask, background
    <2> QED BY <1>1, <1>2, <1>7, <2>1, StructurePush, BlockedPush, UndelayedPush DEF Rest
  <1>8. ASSUME WillScheduleSequence(p)
        PROVE  Rest'
    <2>1. UNCHANGED <<started, num_blocking, event, num_undelayed>>
      BY <1>8 DEF WillScheduleSequence, tracker, flush
    <2>2. Blocked' /\ UndelayedCountExact'
      BY <1>1, <1>8, <2>1, BlockedByOthers, UndelayedByOthers
    <2> QED BY <1>1, <1>2, <1>8, <2>2, StructureWillSchedule, CapWillSchedule DEF Rest
  <1> QED BY <1>3, <1>4, <1>5, <1>6, <1>7, <1>8 DEF PosterStep

\* A worker that begins a round, or gets no work, has no sequence before and after.
LEMMA RoundMoves ==
    ASSUME TypeOK, WorkersHold, NEW w \in Workers, BeginRound(w) \/ GetsNoWork(w)
    PROVE  /\ worker' \in [Workers -> WorkerState]
           /\ worker[w].pc \in {"idle", "get"} /\ worker'[w].pc \in {"idle", "get"}
           /\ \A v \in Workers : worker'[v].seq = worker[v].seq
           /\ \A v \in Workers \ {w} : worker'[v] = worker[v]
           /\ UNCHANGED <<tracker, flush, background, queue, scheduled, delayed, poster, posts>>
  <1>1. PICK pc \in {"idle", "get"} : WorkerGoes(w, pc)
    BY DEF BeginRound, GetsNoWork
  <1> DEFINE r == [pc |-> pc, seq |-> worker[w].seq]
  <1>2. worker' = [worker EXCEPT ![w] = r]
    BY <1>1, WorkerGoesMoves DEF WorkerPcs
  <1>3. r \in WorkerState /\ r.pc = pc /\ r.seq = worker[w].seq
    <2>1. worker[w].seq \in Seqs \cup {None}
      BY TypeParts, RecordFields DEF PlacesTyped
    <2> QED BY <2>1, RecordFields DEF WorkerPcs
  <1> HIDE DEF r
  <1>4. /\ worker' \in [Workers -> WorkerState] /\ worker'[w] = r
        /\ \A v \in Workers \ {w} : worker'[v] = worker[v]
    BY <1>2, <1>3, WorkerMoves
  <1>5. worker[w].pc \in {"idle", "get"}
    BY DEF BeginRound, GetsNoWork
  <1>6. UNCHANGED <<tracker, flush, background, queue, scheduled, delayed, poster, posts>>
    BY DEF BeginRound, GetsNoWork
  <1> QED BY <1>1, <1>3, <1>4, <1>5, <1>6

\* The rounds of a worker's loop move no task and no sequence.
LEMMA RoundKeeps ==
    ASSUME IndInv, NEW w \in Workers, BeginRound(w) \/ GetsNoWork(w)
    PROVE  Rest'
  <1>1. TypeOK /\ Structure /\ BackgroundCapKept /\ Blocked /\ UndelayedCountExact
    BY InvParts
  <1>2. /\ worker' \in [Workers -> WorkerState]
        /\ worker[w].pc \in {"idle", "get"} /\ worker'[w].pc \in {"idle", "get"}
        /\ \A v \in Workers : worker'[v].seq = worker[v].seq
        /\ \A v \in Workers \ {w} : worker'[v] = worker[v]
        /\ UNCHANGED <<tracker, flush, background, queue, scheduled, delayed, poster, posts>>
    BY <1>1, RoundMoves DEF Structure
  <1>3. PlacesTyped'
    BY <1>1, <1>2, TypeParts DEF PlacesTyped, background
  <1>4. \A v \in Workers : CurrentTask(v)' = CurrentTask(v)
    BY <1>2 DEF CurrentTask
  <1>5. Structure'
    <2>1. Placed'
      <3>1. \A v \in Workers : \A s \in Seqs : Owns(v, s)' <=> Owns(v, s)
        BY <1>2 DEF Owns
      <3> QED BY <1>1, <1>2, <3>1, PlacedFrame DEF Structure, Schedules, background
    <2>2. WorkersHold'
      BY <1>1, <1>2, <1>4 DEF Structure, WorkersHold, Skips
    <2> QED BY <1>1, <1>2, <2>1, <2>2, UniqueFrame
            DEF Structure, PostersHold, WaitersKnown, Blocks, background
  <1>6. BackgroundCapKept'
    BY <1>1, <1>2, CapFrame
  <1>7. ASSUME NEW A, NEW B, B \subseteq Busy
        PROVE  TasksAt(A, B)' = TasksAt(A, B)
    <2>1. worker[w].pc \notin B /\ worker'[w].pc \notin B
      BY <1>2, <1>7 DEF Busy
    <2>2. \A s \in Seqs : Hidden(s, B)' <=> Hidden(s, B)
      BY <1>2, <2>1 DEF Hidden
    <2>3. Posting(A)' = Posting(A)
      BY <1>2 DEF Posting
    <2> QED BY <1>1, <1>2, <2>2, <2>3, TasksFrame
  <1>8. Blocked'
    <2>1. BlockingTasks' = BlockingTasks
      BY <1>7, BlockingTasksAre
    <2>2. \A v \in Workers : RunsSkipTask(v)' <=> RunsSkipTask(v)
      BY <1>2, <1>4 DEF RunsSkipTask, Skips
    <2>3. /\ Undoing' = Undoing /\ Checking' = Checking
          /\ (\E v \in Workers : worker'[v].pc = "complete")
                <=> \E v \in Workers : worker[v].pc = "complete"
      BY <1>2, <2>2 DEF Undoing, Checking
    <2> QED BY <1>1, <1>2, <2>1, <2>2, <2>3, BlockedFrame DEF tracker
  <1>9. UndelayedCountExact'
    BY <1>1, <1>2, <1>7, UndelayedTasksAre, UndelayedFrame DEF flush
  <1> QED BY <1>3, <1>5, <1>6, <1>8, <1>9 DEF Rest

\* So does what workers do.
LEMMA WorkerKeeps ==
    ASSUME IndInv, NEW w \in Workers, WorkerStep(w)
    PROVE  Rest'
  <1>1. TypeOK /\ Structure /\ BackgroundCapKept /\ Blocked /\ UndelayedCountExact
    BY InvParts
  <1>2. ASSUME NEW pc \in Busy, GoesOn(w, pc), pc = "unblock" => Skips(CurrentTask(w))
        PROVE  PlacesTyped' /\ Structure' /\ BackgroundCapKept'
    BY <1>1, <1>2, PlacesGoOn, StructureGoesOn, CapGoesOn
  <1>3. ASSUME TakeTask(w) \/ Pop(w) \/ ManageBackgroundSequences(w)
        PROVE  Rest'
    <2>1. UNCHANGED <<started, num_blocking, event, num_undelayed>>
      BY <1>3 DEF TakeTask, Pop, ManageBackgroundSequences, tracker, flush
    <2>2. Blocked' /\ UndelayedCountExact'
      BY <1>1, <1>3, <2>1, BlockedByOthers, UndelayedByOthers
    <2>3. PlacesTyped'
      BY <1>1, <1>3, PlacesByWorker
    <2>4. Structure' /\ BackgroundCapKept'
      BY <1>1, <1>3, StructureTake, StructurePop, StructureManage, CapTake, CapPop, CapManage
    <2> QED BY <2>2, <2>3, <2>4 DEF Rest
  <1>4. ASSUME BeforeRunTask(w)
        PROVE  Rest'
    <2>1. PICK pc \in Busy : /\ GoesOn(w, pc)
                             /\ pc = IF Blocks(CurrentTask(w)) \/ ~started THEN "running"
                                     ELSE IF Skips(CurrentTask(w)) THEN "unblock" ELSE "count"
      BY <1>1, <1>4, WorkerGoesOn
    <2>2. PlacesTyped' /\ Structure' /\ BackgroundCapKept'
      BY <1>2, <2>1
    <2> QED BY <1>1, <1>4, <2>2, BlockedBeforeRun, UndelayedGoesOn DEF Rest
  <1>5. ASSUME DecrementNumTasksBlockingShutdown(w)
        PROVE  Rest'
    <2>1. PICK pc \in Busy : GoesOn(w, pc) /\ pc \in {"complete", "count"}
      BY <1>1, <1>5, WorkerGoesOn
    <2>2. PlacesTyped' /\ Structure' /\ BackgroundCapKept'
      BY <1>2, <2>1
    <2> QED BY <1>1, <1>5, <2>2, BlockedDecrement, UndelayedGoesOn DEF Rest
  <1>6. ASSUME DecrementNumIncompleteUndelayedTasks(w)
        PROVE  Rest'
    <2>1. PICK pc \in Busy : GoesOn(w, pc) /\ pc \in {"signal", "pop"}
      BY <1>1, <1>6, WorkerGoesOn
    <2>2. PlacesTyped' /\ Structure' /\ BackgroundCapKept'
      BY <1>2, <2>1
    <2> QED BY <1>1, <1>6, <2>2, BlockedAfterTask, UndelayedDecrement DEF Rest
  <1>7. ASSUME \/ OnBlockingShutdownTasksComplete(w)
               \/ WorkerSignalsFlush(w)
               \/ WorkerCallsFlushCallback(w)
        PROVE  Rest'
    <2>1. PICK pc \in {"count", "callback", "pop"} : GoesOn(w, pc)
      BY <1>1, <1>7, WorkerGoesOn
    <2>2. PlacesTyped' /\ Structure' /\ BackgroundCapKept'
      BY <1>2, <2>1 DEF Busy
    <2>3. Blocked'
      BY <1>1, <1>7, BlockedAfterTask
    <2>4. UndelayedCountExact'
      BY <1>1, <1>7, UndelayedGoesOn
    <2> QED BY <2>2, <2>3, <2>4 DEF Rest
  <1> QED BY <1>3, <1>4, <1>5, <1>6, <1>7, RoundKeeps DEF WorkerStep

\* So does starting shutdown, and lifting the cap.
LEMMA ShutdownKeeps ==
    ASSUME IndInv, \/ StartShutdown
                   \/ SetHasShutdownStartedForTesting
                   \/ SetMaxNumScheduledBackgroundSequences
    PROVE  Rest'
  <1>1. TypeOK /\ Structure /\ BackgroundCapKept /\ Blocked /\ UndelayedCountExact
    BY InvParts
  <1>2. ASSUME StartShutdown \/ SetHasShutdownStartedForTesting
        PROVE  Rest'
    <2>1. UNCHANGED <<places, background, num_undelayed>>
      BY <1>2 DEF StartShutdown, SetHasShutdownStartedForTesting, places, background, flush
    <2>2. PlacesTyped' /\ BackgroundCapKept'
      BY <1>1, <2>1, TypeParts, CapFrame DEF PlacesTyped, places
    <2>3. Structure' /\ Blocked'
      BY <1>1, <1>2, <2>1, StructureFrame, BlockedStart
    <2>4. UndelayedCountExact'
      BY <1>1, <2>1, UndelayedByOthers DEF places
    <2> QED BY <2>2, <2>3, <2>4 DEF Rest
  <1>3. ASSUME SetMaxNumScheduledBackgroundSequences
        PROVE  Rest'
    <2>1. UNCHANGED <<started, num_blocking, event, num_undelayed, queue, poster, worker>>
      BY <1>3 DEF SetMaxNumScheduledBackgroundSequences, tracker, flush
    <2>2. Blocked' /\ UndelayedCountExact'
      BY <1>1, <2>1, BlockedByOthers, UndelayedByOthers
    <2> QED BY <1>1, <1>3, <2>2, PlacesSetMax, StructureSetMax, CapSetMax DEF Rest
  <1> QED BY <1>2, <1>3

\* The other steps, and no step, leave alone what the invariant is about.
LEMMA OthersKeep ==
    ASSUME IndInv, UNCHANGED <<core, started, event>>
    PROVE  Rest'
  <1>1. TypeOK /\ Structure /\ BackgroundCapKept /\ Blocked /\ UndelayedCountExact
    BY InvParts
  <1>2. PlacesTyped' /\ BackgroundCapKept'
    BY <1>1, TypeParts, CapFrame DEF PlacesTyped, places, core, background
  <1>3. Structure'
    BY <1>1, StructureFrame DEF core
  <1>4. Blocked' /\ UndelayedCountExact'
    BY <1>1, BlockedByOthers, UndelayedByOthers DEF core, places
  <1> QED BY <1>2, <1>3, <1>4 DEF Rest

\* Every step keeps the invariant.
LEMMA NextInv ==
    ASSUME IndInv, [Next]_vars
    PROVE  IndInv'
  <1>1. TypeOK /\ RestTyped
    BY InvParts, TypeParts
  <1>2. CASE Next
    <2>1. RestTyped'
      BY <1>1, <1>2, RestStep
    <2>2. CASE \E p \in Posters : \/ \E s \in Seqs : \E d \in BOOLEAN : BeforePostTask(p, s, d)
                                  \/ PosterStep(p)
      BY <2>1, <2>2, PosterKeeps, InvParts
    <2>3. CASE \E w \in Workers : WorkerStep(w)
      BY <2>1, <2>3, WorkerKeeps, InvParts
    <2>4. CASE \/ StartShutdown
               \/ SetHasShutdownStartedForTesting
               \/ SetMaxNumScheduledBackgroundSequences
      BY <2>1, <2>4, ShutdownKeeps, InvParts
    <2>5. CASE QuietStep
      BY <2>1, <2>5, QuietSteps, OthersKeep, InvParts
    <2> QED BY <1>2, <2>2, <2>3, <2>4, <2>5
            DEF Next, Request, ShutterStep, FlusherStep, AsyncStep, QuietStep
  <1>3. CASE UNCHANGED vars
    <2>1. RestTyped'
      BY <1>1, <1>3 DEF vars, tracker, flush, background, threads, RestTyped
    <2>2. UNCHANGED <<core, started, event>>
      BY <1>3 DEF vars, tracker, flush, background, threads, core, places
    <2> QED BY <2>1, <2>2, OthersKeep, InvParts
  <1> QED BY <1>2, <1>3

------------------------------------------------------------------------------
(* Theorems                                                                  *)

\* The inductive invariant holds of every behavior of the tracker.
THEOREM Invariance == Spec => []IndInv
  <1>1. Init => IndInv
    BY InitInv
  <1>2. IndInv /\ [Next]_vars => IndInv'
    BY NextInv
  <1> QED BY <1>1, <1>2, PTL DEF Spec

\* Type correctness.  No counter of the tracker is ever decremented below zero:
\* the DCHECK_GEs of DecrementNumTasksBlockingShutdown and its like hold.
THEOREM TypeCorrect == Spec => []TypeOK
  <1>1. IndInv => TypeOK
    BY DEF IndInv
  <1> QED BY <1>1, Invariance, PTL

\* However many threads post, run and shut down, a sequence with tasks is with
\* exactly one poster, in the pool, preempted, or with one worker, and an empty
\* one is nowhere: its tasks never run in parallel and it is never forgotten.
THEOREM OnePlacePerSequence == Spec => []SequenceInOnePlace
  <1>1. IndInv => SequenceInOnePlace
    BY PlacedCounted DEF IndInv
  <1> QED BY <1>1, Invariance, PTL

\* The number of scheduled background sequences is exact and never exceeds the
\* cap, and a sequence is preempted only while the cap is reached.
THEOREM CapIsKept == Spec => []BackgroundCapKept
  <1>1. IndInv => BackgroundCapKept
    BY DEF IndInv
  <1> QED BY <1>1, Invariance, PTL

\* The count in State::bits_ is exactly what shutdown must wait for.
THEOREM BlockersCounted == Spec => []BlockingCountExact
  <1>1. IndInv => BlockingCountExact
    BY DEF IndInv
  <1> QED BY <1>1, Invariance, PTL

\* When shutdown is complete, every BLOCK_SHUTDOWN task whose post began before
\* it has run, and no SKIP_ON_SHUTDOWN task is running.
THEOREM ShutdownIsSafe == Spec => []ShutdownWaitsForPriorTasks
  <1>1. IndInv => ShutdownWaitsForPriorTasks
    BY DEF IndInv, NothingPriorLeft, Completing, ShutdownWaitsForPriorTasks
  <1> QED BY <1>1, Invariance, PTL

\* The steps that let a call of FlushForTesting return.
LEMMA FlusherEnds ==
    ASSUME IndInv, Next, NEW f \in Flushers, flusher[f] # "done", flusher'[f] = "done"
    PROVE  FlushReadsCount(f) \/ FlushReadsShutdown(f)
  <1>1. RestTyped
    BY InvParts, TypeParts
  <1>2. flusher' # flusher
    OBVIOUS
  <1>3. ~SignalFlushCv
    BY <1>1, SignalMoves
  <1>4. \A g \in Flushers \ {f} : \A pc \in FlusherPcs : flusher' # [flusher EXCEPT ![g] = pc]
    BY <1>1, FlusherMoves
  <1>5. ~FlushForTesting(f)
    BY <1>1, FlusherMoves DEF FlushForTesting, FlusherPcs
  <1>6. \A g \in Flushers \ {f} :
          ~FlushForTesting(g) /\ ~FlushReadsCount(g) /\ ~FlushReadsShutdown(g)
    BY <1>4 DEF FlushForTesting, FlushReadsCount, FlushReadsShutdown, FlusherPcs
  <1>7. ASSUME NEW p \in Posters
        PROVE  ~PosterStep(p) /\ \A s \in Seqs : \A d \in BOOLEAN : ~BeforePostTask(p, s, d)
    BY <1>2 DEF PosterStep, BeforePostTask, PostDuringShutdown, WillPostTask, DelayedTaskRipe,
                PushTask, WillScheduleSequence
  <1>8. ASSUME NEW w \in Workers
        PROVE  ~WorkerStep(w)
    <2>1. ~WorkerSignalsFlush(w)
      BY <1>3 DEF WorkerSignalsFlush
    <2> QED BY <1>2, <2>1 DEF WorkerStep, BeginRound, TakeTask, GetsNoWork, BeforeRunTask,
            DecrementNumTasksBlockingShutdown, OnBlockingShutdownTasksComplete,
            DecrementNumIncompleteUndelayedTasks, WorkerCallsFlushCallback, Pop,
            ManageBackgroundSequences
  <1>9. ~ShutterStep /\ ~StartShutdown /\ ~SetHasShutdownStartedForTesting
    <2>1. ~ShutdownSignalsFlush
      BY <1>3 DEF ShutdownSignalsFlush
    <2> QED BY <1>2, <2>1 DEF ShutterStep, SetMaxNumScheduledBackgroundSequences, ShutdownWaits,
            ShutdownCallsFlushCallback, StartShutdown, SetHasShutdownStartedForTesting
  <1>10. ~AsyncStep /\ ~FlushAsyncForTesting
    BY <1>2 DEF AsyncStep, FlushAsyncForTesting, FlushAsyncReadsCount, FlushAsyncReadsShutdown,
                FlushAsyncCallsCallback
  <1> QED BY <1>5, <1>6, <1>7, <1>8, <1>9, <1>10 DEF Next, Request, FlusherStep

\* FlushForTesting returns only when no undelayed task is left, or shutdown is
\* complete, although it evaluates its condition in two reads and without the
\* locks of the threads that change what it reads.
THEOREM FlushIsSafe == Spec => FlushMeansIdle
  <1> DEFINE Flushed == \A f \in Flushers : flusher[f] # "done" /\ flusher'[f] = "done" =>
                            IsShutdownComplete \/ UndelayedTasks = {}
  <1>1. ASSUME IndInv, Next
        PROVE  Flushed
    <2>1. SUFFICES ASSUME NEW f \in Flushers, flusher[f] # "done", flusher'[f] = "done"
                   PROVE  IsShutdownComplete \/ UndelayedTasks = {}
      OBVIOUS
    <2>2. flusher \in [Flushers -> FlusherPcs]
      BY <1>1, InvParts, TypeParts DEF RestTyped
    <2>3. CASE FlushReadsShutdown(f)
      BY <2>1, <2>2, <2>3 DEF FlushReadsShutdown
    <2>4. CASE FlushReadsCount(f)
      <3>1. num_undelayed = 0
        BY <2>1, <2>2, <2>4 DEF FlushReadsCount
      <3>2. UndelayedTasks = {}
        BY <1>1, <3>1, FS_EmptySet DEF IndInv, UndelayedCountExact
      <3> QED BY <3>2
    <2> QED BY <1>1, <2>1, <2>3, <2>4, FlusherEnds
  <1>2. IndInv /\ [Next]_vars => [Flushed]_vars
    BY <1>1
  <1> QED BY <1>2, Invariance, PTL DEF Spec, FlushMeansIdle
==============================================================================
