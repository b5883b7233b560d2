------------------------- MODULE WaitableEventProofs -------------------------
(***************************************************************************)
(* Proofs about WaitableEvent, for any number of threads and events.       *)
(*                                                                         *)
(* IndInv is the inductive invariant.  It says of every thread what its    *)
(* call, its waiter and its locks look like at each pc (Shape, Result,     *)
(* Locks), of every list who may be in it (Lists), and how far a Signal in *)
(* progress has come (Signals).                                            *)
(***************************************************************************)
EXTENDS WaitableEvent, DataFacts, SequenceTheorems, FiniteSetTheorems, TLAPS

Distinct(s) == \A i, j \in DOMAIN s : s[i] = s[j] => i = j

\* The thread t has the event e in a part of its call that it has not left.
StillOn(t, e) == \E i \in DOMAIN call[t].on : i >= next[t] /\ call[t].on[i] = e

Shape ==
    \A t \in Threads :
        /\ pc[t] \in {"idle", "signal", "unlock", "lockall"} =>
            ~fired[t] /\ signaling_event[t] = None /\ consumed[t] = {}
        /\ pc[t] \in {"idle", "lockall", "blocked"} => next[t] = 1
        /\ pc[t] = "signal" => next[t] >= 1
        /\ pc[t] \in {"signal", "unlock"} =>
            call[t].op = "Signal" /\ Len(call[t].on) = 1
        /\ pc[t] = "lockall" =>
            call[t].op = "WaitMany" /\ call[t].on \in WaitManyArgs
        /\ pc[t] \in {"blocked", "dequeue", "return"} =>
            /\ call[t].op \in WaitOps
            /\ Distinct(call[t].on)
            /\ call[t].on # <<>>
            /\ call[t].op # "WaitMany" => Len(call[t].on) = 1
        /\ pc[t] = "dequeue" => fired[t] /\ next[t] \in DOMAIN call[t].on

Result ==
    \A t \in Threads :
        /\ pc[t] = "blocked" =>
            IF fired[t]
            THEN /\ signaling_event[t] \in ToSet(call[t].on)
                 /\ consumed[t] = {signaling_event[t]}
            ELSE signaling_event[t] = None /\ consumed[t] = {}
        /\ pc[t] = "dequeue" /\ call[t].op # "WaitMany" =>
            \/ /\ result[t] = 1
               /\ consumed[t] = {call[t].on[1]}
            \/ /\ call[t].op = "TimedWait"
               /\ result[t] = 0
               /\ consumed[t] = {}
        /\ pc[t] = "dequeue" /\ call[t].op = "WaitMany" =>
            /\ signaling_event[t] \in ToSet(call[t].on)
            /\ consumed[t] = {signaling_event[t]}
            /\ \/ StillOn(t, signaling_event[t])
               \/ /\ result[t] \in DOMAIN call[t].on
                  /\ call[t].on[result[t]] = signaling_event[t]

Locks ==
    /\ \A t \in Threads, e \in Events : lock[e] = t =>
        \/ pc[t] \in {"signal", "unlock"} /\ e = call[t].on[1]
        \/ pc[t] = "lockall" /\ e \in ToSet(call[t].on)
    /\ \A t \in Threads : pc[t] \in {"signal", "unlock"} => lock[call[t].on[1]] = t

Lists ==
    \A e \in Events :
        /\ Distinct(waiters[e])
        /\ \A t \in ToSet(waiters[e]) :
            /\ pc[t] \in {"blocked", "dequeue"}
            /\ StillOn(t, e)
            /\ signaling_event[t] = e =>
                e \in ManualReset /\ \E s \in Threads : lock[e] = s /\ pc[s] = "signal"

Signals ==
    \A s \in Threads :
        /\ pc[s] = "signal" /\ call[s].on[1] \in ManualReset =>
            \A i \in DOMAIN waiters[call[s].on[1]] :
                i < next[s] => fired[waiters[call[s].on[1]][i]]
        /\ pc[s] \notin {"signal", "unlock"} => woke[s] = {}
        /\ pc[s] \in {"signal", "unlock"} =>
            \A t \in woke[s] :
                pc[t] \in {"blocked", "dequeue"} /\ StillOn(t, call[s].on[1])

IndInv ==
    /\ TypeOK
    /\ Shape
    /\ Result
    /\ Locks
    /\ Lists
    /\ Signals
    /\ NoLostSignal
    /\ NoSleeperOnSignaled
    /\ SleeperIsQueued

------------------------------------------------------------------------------
(* The lists: what Enqueue, pop_front and Dequeue do to a list without      *)
(* duplicates.                                                              *)

\* A waiter put at the end of a list it is not in: it joins the others.
LEMMA AppendFacts ==
    ASSUME NEW S, NEW s \in Seq(S), NEW x \in S, Distinct(s), x \notin ToSet(s)
    PROVE  /\ Append(s, x) \in Seq(S)
           /\ ToSet(Append(s, x)) = ToSet(s) \cup {x}
           /\ Distinct(Append(s, x))
           /\ \A i \in DOMAIN s : i \in DOMAIN Append(s, x) /\ Append(s, x)[i] = s[i]
  <1> DEFINE a == Append(s, x)
  <1>1. /\ a \in Seq(S)
        /\ DOMAIN a = 1 .. Len(s) + 1
        /\ DOMAIN s = 1 .. Len(s)
        /\ Len(s) \in Nat
        /\ a[Len(s) + 1] = x
        /\ \A i \in 1 .. Len(s) : a[i] = s[i]
    OBVIOUS
  <1> HIDE DEF a
  <1>2. ToSet(a) = ToSet(s) \cup {x}
    BY <1>1 DEF ToSet
  <1>3. Distinct(a)
    BY <1>1 DEF Distinct, ToSet
  <1> QED BY <1>1, <1>2, <1>3 DEF a

\* pop_front removes the first waiter and no other.
LEMMA TailFacts ==
    ASSUME NEW S, NEW s \in Seq(S), s # <<>>, Distinct(s)
    PROVE  /\ Tail(s) \in Seq(S)
           /\ Head(s) \in ToSet(s)
           /\ Head(s) \in S
           /\ ToSet(Tail(s)) = ToSet(s) \ {Head(s)}
           /\ Distinct(Tail(s))
  <1> DEFINE a == Tail(s)
  <1>1. /\ a \in Seq(S)
        /\ DOMAIN s = 1 .. Len(s)
        /\ Len(s) \in Nat \ {0}
        /\ DOMAIN a = 1 .. Len(s) - 1
        /\ Head(s) = s[1]
        /\ \A i \in 1 .. Len(s) - 1 : a[i] = s[i + 1]
    OBVIOUS
  <1> HIDE DEF a
  <1>2. Head(s) \in ToSet(s) /\ Head(s) \in S
    BY <1>1 DEF ToSet
  <1>3. ToSet(a) = ToSet(s) \ {Head(s)}
    <2>1. ASSUME NEW i \in 1 .. Len(s), i # 1
          PROVE  i - 1 \in DOMAIN a /\ a[i - 1] = s[i]
      <3>1. i - 1 \in 1 .. Len(s) - 1 /\ (i - 1) + 1 = i
        BY <1>1, <2>1
      <3>2. a[i - 1] = s[(i - 1) + 1]
        BY <1>1, <3>1
      <3> QED BY <1>1, <3>1, <3>2
    <2>2. ASSUME NEW i \in DOMAIN a
          PROVE  i + 1 \in DOMAIN s /\ a[i] = s[i + 1] /\ s[i + 1] # s[1]
      BY <1>1 DEF Distinct
    <2> QED BY <1>1, <2>1, <2>2 DEF ToSet
  <1>4. Distinct(a)
    <2> SUFFICES ASSUME NEW i \in 1 .. Len(s) - 1, NEW j \in 1 .. Len(s) - 1, a[i] = a[j]
                 PROVE  i = j
      BY <1>1 DEF Distinct
    <2>1. i + 1 \in DOMAIN s /\ j + 1 \in DOMAIN s
      BY <1>1
    <2>2. s[i + 1] = s[j + 1]
      BY <1>1
    <2>3. i + 1 = j + 1
      BY <2>1, <2>2 DEF Distinct
    <2> QED BY <2>3
  <1> QED BY <1>1, <1>2, <1>3, <1>4 DEF a

\* Dequeue removes its waiter and no other.
LEMMA DequeueFacts ==
    ASSUME NEW S, NEW s \in Seq(S), NEW x, Distinct(s)
    PROVE  /\ Dequeue(s, x) \in Seq(S)
           /\ ToSet(Dequeue(s, x)) = ToSet(s) \ {x}
           /\ Distinct(Dequeue(s, x))
  <1>1. CASE ~ \E i \in 1 .. Len(s) : s[i] = x
    BY <1>1 DEF Dequeue, RemoveFirst, ToSet, Distinct
  <1>2. CASE \E i \in 1 .. Len(s) : s[i] = x
    <2> PICK k \in 1 .. Len(s) : s[k] = x
      BY <1>2
    <2> DEFINE d == RemoveFirst(s, x)
    <2>a. Len(s) \in Nat /\ DOMAIN s = 1 .. Len(s)
      OBVIOUS
    <2>2. Dequeue(s, x) = d
      BY DEF Dequeue
    <2>3. /\ d \in Seq(S)
          /\ DOMAIN d = 1 .. Len(s) - 1
          /\ \A i \in 1 .. k - 1 : d[i] = s[i]
          /\ \A i \in k .. Len(s) - 1 : d[i] = s[i + 1]
      <3>1. \A i, j \in 1 .. Len(s) : s[i] = s[j] => i = j
        BY <2>a DEF Distinct
      <3>2. /\ d \in Seq(S) /\ Len(d) = Len(s) - 1
            /\ \A i \in 1 .. k - 1 : d[i] = s[i]
            /\ \A i \in k .. Len(s) - 1 : d[i] = s[i + 1]
        <4> HIDE DEF d
        <4>1. d = RemoveFirst(s, s[k])
          BY DEF d
        <4> QED BY <3>1, <4>1, RemoveFirstFacts
      <3> HIDE DEF d
      <3> QED BY <3>2
    <2> HIDE DEF d
    <2>4. ToSet(d) = ToSet(s) \ {x}
      <3>1. ASSUME NEW i \in DOMAIN d PROVE d[i] \in ToSet(s) /\ d[i] # x
        <4>1. CASE i < k
          BY <2>a, <2>3, <4>1 DEF ToSet, Distinct
        <4>2. CASE i >= k
          <5>1. i \in k .. Len(s) - 1 /\ i + 1 \in 1 .. Len(s) /\ i + 1 # k
            BY <2>a, <2>3, <4>2
          <5> QED BY <2>a, <2>3, <5>1 DEF ToSet, Distinct
        <4> QED BY <2>3, <4>1, <4>2
      <3>2. ASSUME NEW i \in DOMAIN s, s[i] # x PROVE s[i] \in ToSet(d)
        <4>1. CASE i < k
          BY <2>a, <2>3, <4>1, SMTT(30) DEF ToSet
        <4>2. CASE i > k
          <5>1. i - 1 \in k .. Len(s) - 1 /\ (i - 1) + 1 = i
            BY <2>a, <4>2
          <5>2. d[i - 1] = s[(i - 1) + 1]
            BY <2>3, <5>1
          <5>3. i - 1 \in DOMAIN d
            BY <2>a, <2>3, <5>1
          <5> QED BY <5>1, <5>2, <5>3 DEF ToSet
        <4> QED BY <2>a, <3>2, <4>1, <4>2
      <3> QED BY <3>1, <3>2 DEF ToSet
    <2>5. Distinct(d)
      <3> DEFINE src(i) == IF i < k THEN i ELSE i + 1
      <3>1. ASSUME NEW i \in DOMAIN d PROVE src(i) \in DOMAIN s /\ d[i] = s[src(i)]
        BY <2>a, <2>3
      <3>2. ASSUME NEW i \in DOMAIN d, NEW j \in DOMAIN d, src(i) = src(j) PROVE i = j
        BY <2>a, <2>3, <3>2
      <3> HIDE DEF src
      <3> QED BY <3>1, <3>2 DEF Distinct
    <2> QED BY <2>2, <2>3, <2>4, <2>5
  <1> QED BY <1>1, <1>2

\* What is known of a waiter that Signal finds in a list: its thread is inside
\* a wait on the event, and if it can still be woken that wait is blocked.
LEMMA QueuedFacts ==
    ASSUME IndInv, NEW t \in Threads, pc[t] = "signal",
           NEW e \in Events, NEW w \in ToSet(waiters[e])
    PROVE  /\ w \in Threads /\ w # t /\ pc[w] \in {"blocked", "dequeue"} /\ StillOn(w, e)
           /\ ~fired[w] => pc[w] = "blocked" /\ consumed[w] = {} /\ e \in ToSet(call[w].on)
  <1>1. w \in Threads
    BY DEF IndInv, TypeOK, ToSet
  <1>2. w # t /\ pc[w] \in {"blocked", "dequeue"} /\ StillOn(w, e)
    BY DEF IndInv, Lists
  <1>3. e \in ToSet(call[w].on)
    BY <1>2 DEF StillOn, ToSet
  <1>4. ~fired[w] => pc[w] = "blocked" /\ consumed[w] = {}
    BY <1>1, <1>2 DEF IndInv, Shape, Result
  <1> QED BY <1>1, <1>2, <1>3, <1>4

\* The waiters of a list are threads.
LEMMA QueuedIsThread ==
    ASSUME TypeOK, NEW e \in Events
    PROVE  ToSet(waiters[e]) \subseteq Threads
  BY DEF TypeOK, ToSet

\* A call is on events.
LEMMA CallIsOnEvents ==
    ASSUME TypeOK, NEW t \in Threads
    PROVE  call[t].on \in Seq(Events) /\ ToSet(call[t].on) \subseteq Events
  BY DEF TypeOK, Call, ToSet

\* What SyncWaiter::Fire changes: at most the waiter it is called on.
LEMMA FireFacts ==
    ASSUME TypeOK, NEW t \in Threads, NEW e \in Events, NEW w \in Threads,
           Fire(t, e, w), ~fired[w] => consumed[w] = {}
    PROVE  /\ fired' \in [Threads -> BOOLEAN]
           /\ signaling_event' \in [Threads -> Events \cup {None}]
           /\ consumed' \in [Threads -> SUBSET Events]
           /\ woke' \in [Threads -> SUBSET Threads]
           /\ \A u \in Threads : u # w \/ fired[w] =>
                /\ fired'[u] = fired[u]
                /\ signaling_event'[u] = signaling_event[u]
                /\ consumed'[u] = consumed[u]
           /\ fired'[w]
           /\ ~fired[w] => signaling_event'[w] = e /\ consumed'[w] = {e}
           /\ \A u \in Threads : u # t => woke'[u] = woke[u]
           /\ \A u \in woke'[t] : u \in woke[t] \/ u = w
  <1>1. CASE fired[w]
    BY <1>1 DEF TypeOK, Fire, Accepts, waiter, history
  <1>2. CASE ~fired[w]
    <2>1. /\ fired' = [fired EXCEPT ![w] = TRUE]
          /\ signaling_event' = [signaling_event EXCEPT ![w] = e]
          /\ consumed' = [consumed EXCEPT ![w] = {e}]
          /\ woke' = [woke EXCEPT ![t] = woke[t] \cup {w}]
      BY <1>2 DEF Fire, Accepts
    <2>2. /\ fired \in [Threads -> BOOLEAN]
          /\ signaling_event \in [Threads -> Events \cup {None}]
          /\ consumed \in [Threads -> SUBSET Events]
          /\ woke \in [Threads -> SUBSET Threads]
      BY DEF TypeOK
    <2>3. woke' \in [Threads -> SUBSET Threads] /\ woke'[t] = woke[t] \cup {w}
      BY <2>1, <2>2
    <2> QED BY <1>2, <2>1, <2>2, <2>3
  <1> QED BY <1>1, <1>2

------------------------------------------------------------------------------
(* Every action preserves IndInv: one lemma per action, one step per         *)
(* conjunct.                                                                *)

\* Reset preserves the invariant.
LEMMA ResetStep ==
    ASSUME IndInv, NEW t \in Threads, NEW e \in Events, Reset(t, e)
    PROVE  IndInv'
  <1>1. TypeOK'
    BY NoneAssumption DEF IndInv, TypeOK, Shape, Call, NoCall, PC, WaitOps,
       Reset, waiter, history
  <1>2. Shape'
    BY NoneAssumption DEF IndInv, TypeOK, Shape, NoCall, WaitOps, Distinct,
       Reset, waiter, history
  <1>3. Result'
    BY NoneAssumption DEF IndInv, TypeOK, Shape, Result, StillOn, NoCall,
       Reset, waiter, history
  <1>4. Locks'
    BY NoneAssumption DEF IndInv, TypeOK, Shape, Locks, NoCall, Reset, waiter,
       history
  <1>5. Lists'
    BY NoneAssumption DEF IndInv, TypeOK, Shape, Lists, Locks, StillOn,
       NoCall, Reset, waiter, history
  <1>6. Signals'
    BY NoneAssumption DEF IndInv, TypeOK, Shape, Lists, Locks, Signals,
       StillOn, NoCall, Reset, waiter, history
  <1>7. NoLostSignal'
    BY NoneAssumption DEF IndInv, TypeOK, Shape, Result, NoLostSignal,
       StillOn, NoCall, Reset, waiter, history
  <1>8. NoSleeperOnSignaled'
    BY NoneAssumption DEF IndInv, TypeOK, Shape, Lists, NoSleeperOnSignaled,
       Reset, waiter, history
  <1>9. SleeperIsQueued'
    BY NoneAssumption DEF IndInv, TypeOK, Shape, SleeperIsQueued, Lists,
       NoCall, Reset, waiter, history
  <1> QED BY <1>1, <1>2, <1>3, <1>4, <1>5, <1>6, <1>7, <1>8, <1>9 DEF IndInv

\* IsSignaled preserves the invariant.
LEMMA IsSignaledStep ==
    ASSUME IndInv, NEW t \in Threads, NEW e \in Events, IsSignaled(t, e)
    PROVE  IndInv'
  <1>1. TypeOK'
    BY NoneAssumption DEF IndInv, TypeOK, Shape, Call, NoCall, PC, WaitOps,
       IsSignaled, waiter, history
  <1>2. Shape'
    BY NoneAssumption DEF IndInv, TypeOK, Shape, NoCall, WaitOps, Distinct,
       IsSignaled, waiter, history
  <1>3. Result'
    BY NoneAssumption DEF IndInv, TypeOK, Shape, Result, StillOn, NoCall,
       IsSignaled, waiter, history
  <1>4. Locks'
    BY NoneAssumption DEF IndInv, TypeOK, Shape, Locks, NoCall, IsSignaled,
       waiter, history
  <1>5. Lists'
    BY NoneAssumption DEF IndInv, TypeOK, Shape, Lists, Locks, StillOn,
       NoCall, IsSignaled, waiter, history
  <1>6. Signals'
    BY NoneAssumption DEF IndInv, TypeOK, Shape, Lists, Locks, Signals,
       StillOn, NoCall, IsSignaled, waiter, history
  <1>7. NoLostSignal'
    BY NoneAssumption DEF IndInv, TypeOK, Shape, Result, NoLostSignal,
       StillOn, NoCall, IsSignaled, waiter, history
  <1>8. NoSleeperOnSignaled'
    BY NoneAssumption DEF IndInv, TypeOK, Shape, Lists, NoSleeperOnSignaled,
       IsSignaled, waiter, history
  <1>9. SleeperIsQueued'
    BY NoneAssumption DEF IndInv, TypeOK, Shape, SleeperIsQueued, Lists,
       NoCall, IsSignaled, waiter, history
  <1> QED BY <1>1, <1>2, <1>3, <1>4, <1>5, <1>6, <1>7, <1>8, <1>9 DEF IndInv

\* SignalBegin preserves the invariant.
LEMMA SignalBeginStep ==
    ASSUME IndInv, NEW t \in Threads, NEW e \in Events, SignalBegin(t, e)
    PROVE  IndInv'
  <1>1. TypeOK'
    BY NoneAssumption DEF IndInv, TypeOK, Shape, Call, NoCall, PC, WaitOps,
       SignalBegin, waiter, history
  <1>2. Shape'
    BY NoneAssumption DEF IndInv, TypeOK, Shape, NoCall, WaitOps, Distinct,
       SignalBegin, waiter, history
  <1>3. Result'
    BY NoneAssumption DEF IndInv, TypeOK, Shape, Result, StillOn, NoCall,
       SignalBegin, waiter, history
  <1>4. Locks'
    BY NoneAssumption DEF IndInv, TypeOK, Shape, Locks, NoCall, SignalBegin,
       waiter, history
  <1>5. Lists'
    BY NoneAssumption DEF IndInv, TypeOK, Shape, Lists, Locks, StillOn,
       NoCall, SignalBegin, waiter, history
  <1>6. Signals'
    BY NoneAssumption DEF IndInv, TypeOK, Shape, Lists, Locks, Signals,
       StillOn, NoCall, SignalBegin, waiter, history
  <1>7. NoLostSignal'
    BY NoneAssumption DEF IndInv, TypeOK, Shape, Result, NoLostSignal,
       StillOn, NoCall, SignalBegin, waiter, history
  <1>8. NoSleeperOnSignaled'
    BY NoneAssumption DEF IndInv, TypeOK, Shape, Lists, NoSleeperOnSignaled,
       SignalBegin, waiter, history
  <1>9. SleeperIsQueued'
    BY NoneAssumption DEF IndInv, TypeOK, Shape, SleeperIsQueued, Lists,
       NoCall, SignalBegin, waiter, history
  <1> QED BY <1>1, <1>2, <1>3, <1>4, <1>5, <1>6, <1>7, <1>8, <1>9 DEF IndInv

\* SignalAllFire preserves the invariant.
LEMMA SignalAllFireStep ==
    ASSUME IndInv, NEW t \in Threads, SignalAllFire(t)
    PROVE  IndInv'
  <1> DEFINE e == call[t].on[1]
             w == waiters[e][next[t]]
  <1>a. /\ e \in ManualReset /\ e \in Events /\ lock[e] = t
        /\ pc[t] = "signal" /\ next[t] \in DOMAIN waiters[e] /\ w \in ToSet(waiters[e])
    BY EventsAssumption DEF IndInv, TypeOK, Shape, Locks, SignalAllFire, Call, ToSet
  <1>b. /\ w \in Threads /\ w # t /\ pc[w] \in {"blocked", "dequeue"} /\ StillOn(w, e)
        /\ ~fired[w] => pc[w] = "blocked" /\ consumed[w] = {} /\ e \in ToSet(call[w].on)
    BY <1>a, QueuedFacts
  <1>c. /\ next' = [next EXCEPT ![t] = @ + 1]
        /\ UNCHANGED <<signaled, waiters, lock, pc, call, result>>
    BY DEF SignalAllFire, kernel
  <1>j. Fire(t, e, w)
    BY DEF SignalAllFire, kernel
  <1> HIDE DEF e
  <1>d. /\ fired \in [Threads -> BOOLEAN] /\ signaling_event \in [Threads -> Events \cup {None}]
        /\ consumed \in [Threads -> SUBSET Events] /\ woke \in [Threads -> SUBSET Threads]
        /\ next \in [Threads -> Nat] /\ waiters \in [Events -> Seq(Threads)]
    BY DEF IndInv, TypeOK
  <1>e. call[t].on[1] = e
    BY DEF e
  <1> HIDE DEF w
  <1>k. /\ fired' \in [Threads -> BOOLEAN]
        /\ signaling_event' \in [Threads -> Events \cup {None}]
        /\ consumed' \in [Threads -> SUBSET Events]
        /\ woke' \in [Threads -> SUBSET Threads]
        /\ \A u \in Threads : u # w \/ fired[w] =>
            /\ fired'[u] = fired[u]
            /\ signaling_event'[u] = signaling_event[u]
            /\ consumed'[u] = consumed[u]
        /\ fired'[w]
        /\ ~fired[w] => signaling_event'[w] = e /\ consumed'[w] = {e}
        /\ \A u \in Threads : u # t => woke'[u] = woke[u]
        /\ \A u \in woke'[t] : u \in woke[t] \/ u = w
    BY <1>a, <1>b, <1>j, FireFacts DEF IndInv
  <1>f. w = waiters[e][next[t]]
    BY DEF w
  <1>s. \A u \in Threads, f \in Events : u # t /\ StillOn(u, f) => StillOn(u, f)'
    BY <1>c, <1>d DEF StillOn
  <1>r. \A u \in Threads : ToSet(call[u].on) \subseteq Events
    BY CallIsOnEvents DEF IndInv
  <1>q. \A f \in Events : ToSet(waiters[f]) \subseteq Threads
    BY QueuedIsThread DEF IndInv
  <1>1. TypeOK'
    BY <1>a, <1>b, <1>c, <1>d, <1>e, <1>k, NoneAssumption, SMTT(30) DEF IndInv, TypeOK,
       PC
  <1>2. Shape'
    BY <1>a, <1>b, <1>c, <1>d, <1>e, <1>k, NoneAssumption, SMTT(30) DEF IndInv, TypeOK,
       Shape
  <1>3. Result'
    BY <1>a, <1>b, <1>c, <1>d, <1>e, <1>k, NoneAssumption DEF IndInv, Shape,
       Result, StillOn
  <1>4. Locks'
    BY <1>a, <1>b, <1>c, <1>d, <1>e, <1>k, NoneAssumption DEF IndInv, Locks
  <1>5. Lists'
    BY <1>a, <1>q, <1>b, <1>c, <1>d, <1>e, <1>k, NoneAssumption DEF IndInv,
       Lists, StillOn
  <1>6. Signals'
    <2>1. \A u \in Threads : fired[u] => fired'[u]
      BY <1>b, <1>k
    <2>2. ASSUME NEW s \in Threads, pc[s] = "signal", call[s].on[1] \in ManualReset,
                 NEW i \in DOMAIN waiters[call[s].on[1]], i < next'[s]
          PROVE  fired'[waiters[call[s].on[1]][i]]
      <3>1. /\ call[s].on[1] \in Events /\ waiters[call[s].on[1]] \in Seq(Threads)
            /\ waiters[call[s].on[1]][i] \in Threads /\ i \in Nat /\ next[s] \in Nat
        <4>1. call[s].on[1] \in Events
          BY <2>2, EventsAssumption
        <4>2. waiters[call[s].on[1]] \in Seq(Threads)
          BY <1>d, <4>1
        <4> QED BY <1>d, <2>2, <4>1, <4>2
      <3>2. CASE i < next[s]
        BY <2>1, <2>2, <3>1, <3>2 DEF IndInv, Signals
      <3>3. CASE ~(i < next[s])
        <4>1. s = t /\ i = next[t]
          BY <1>c, <1>d, <2>2, <3>1, <3>3
        <4> QED BY <1>e, <1>f, <1>k, <4>1
      <3> QED BY <3>2, <3>3
    <2>3. \A s \in Threads : pc[s] \notin {"signal", "unlock"} => woke'[s] = {}
      BY <1>a, <1>k DEF IndInv, Signals
    <2>4. ASSUME NEW s \in Threads, pc[s] \in {"signal", "unlock"}, NEW u \in woke'[s]
          PROVE  pc[u] \in {"blocked", "dequeue"} /\ StillOn(u, call[s].on[1])'
      <3>1. u \in Threads /\ call[s].on[1] \in Events
        BY <1>k, <2>4, CallIsOnEvents DEF IndInv, Shape
      <3>2. pc[u] \in {"blocked", "dequeue"} /\ StillOn(u, call[s].on[1])
        <4>1. CASE u \in woke[s]
          BY <2>4, <4>1 DEF IndInv, Signals
        <4>2. CASE u \notin woke[s]
          <5>1. s = t /\ u = w
            BY <1>k, <2>4, <4>2
          <5> QED BY <1>b, <1>e, <5>1
        <4> QED BY <4>1, <4>2
      <3>3. PICK f \in Events : f = call[s].on[1]
        BY <3>1
      <3>4. StillOn(u, f)' /\ f = call'[s].on[1]
        BY <1>a, <1>c, <1>s, <3>1, <3>2, <3>3
      <3> QED BY <3>2, <3>4 DEF StillOn
    <2> QED BY <1>c, <2>2, <2>3, <2>4 DEF Signals, StillOn
  <1>7. NoLostSignal'
    BY <1>a, <1>b, <1>c, <1>d, <1>e, <1>k, NoneAssumption DEF IndInv,
       NoLostSignal
  <1>8. NoSleeperOnSignaled'
    BY <1>a, <1>q, <1>b, <1>c, <1>d, <1>e, <1>k, NoneAssumption DEF IndInv,
       NoSleeperOnSignaled
  <1>9. SleeperIsQueued'
    BY <1>a, <1>q, <1>b, <1>c, <1>d, <1>e, <1>k, NoneAssumption DEF IndInv,
       SleeperIsQueued
  <1> QED BY <1>1, <1>2, <1>3, <1>4, <1>5, <1>6, <1>7, <1>8, <1>9 DEF IndInv

\* SignalAllEnd preserves the invariant.
LEMMA SignalAllEndStep ==
    ASSUME IndInv, NEW t \in Threads, SignalAllEnd(t)
    PROVE  IndInv'
  <1> DEFINE e == call[t].on[1]
  <1>a. /\ e \in Events /\ pc[t] = "signal" /\ lock[e] = t
        /\ waiters' = [waiters EXCEPT ![e] = <<>>]
        /\ lock' = [lock EXCEPT ![e] = None]
        /\ pc' = [pc EXCEPT ![t] = "idle"]
        /\ call' = [call EXCEPT ![t] = NoCall]
        /\ next' = [next EXCEPT ![t] = 1]
        /\ UNCHANGED <<fired, signaling_event>>
    BY EventsAssumption DEF IndInv, Shape, Locks, SignalAllEnd, SignalReturns, waiter
  <1>b. \A u \in ToSet(waiters[e]) : fired[u]
    <2>1. next[t] \in Nat /\ next[t] > Len(waiters[e]) /\ waiters[e] \in Seq(Threads)
          /\ e \in ManualReset
      BY <1>a DEF IndInv, TypeOK, SignalAllEnd
    <2>2. \A i \in DOMAIN waiters[e] : i < next[t]
      BY <2>1
    <2>3. \A i \in DOMAIN waiters[e] : fired[waiters[e][i]]
      BY <1>a, <2>1, <2>2 DEF IndInv, Signals
    <2> QED BY <2>3 DEF ToSet
  <1>c. /\ ToSet(<<>>) = {} /\ Distinct(<<>>)
    BY DEF ToSet, Distinct
  <1>d. \A f \in Events \ {e} : lock[f] # t
    BY <1>a DEF IndInv, Locks
  <1> HIDE DEF e
  <1>q. \A f \in Events : ToSet(waiters[f]) \subseteq Threads
    BY QueuedIsThread DEF IndInv
  <1>1. TypeOK'
    BY NoneAssumption DEF IndInv, TypeOK, Shape, Call, NoCall, PC, WaitOps,
       SignalAllEnd, SignalReturns, waiter
  <1>2. Shape'
    BY NoneAssumption DEF IndInv, TypeOK, Shape, NoCall, WaitOps, Distinct,
       SignalAllEnd, SignalReturns, waiter
  <1>3. Result'
    BY NoneAssumption DEF IndInv, TypeOK, Shape, Result, StillOn, NoCall,
       SignalAllEnd, SignalReturns, waiter
  <1>4. Locks'
    BY NoneAssumption DEF IndInv, TypeOK, Shape, Locks, NoCall, SignalAllEnd,
       SignalReturns, waiter
  <1>5. Lists'
    BY <1>a, <1>q, <1>b, <1>c, <1>d, NoneAssumption DEF IndInv, TypeOK, Lists,
       StillOn
  <1>6. Signals'
    BY NoneAssumption DEF IndInv, TypeOK, Shape, Lists, Locks, Signals,
       StillOn, NoCall, SignalAllEnd, SignalReturns, waiter
  <1>7. NoLostSignal'
    BY NoneAssumption DEF IndInv, TypeOK, Shape, Result, NoLostSignal,
       StillOn, NoCall, SignalAllEnd, SignalReturns, waiter
  <1>8. NoSleeperOnSignaled'
    BY EventsAssumption, WaitManyAssumption, NoneAssumption DEF IndInv,
       TypeOK, Shape, Lists, NoSleeperOnSignaled, SignalAllEnd, SignalReturns,
       waiter, ToSet
  <1>9. SleeperIsQueued'
    BY <1>a, <1>q, <1>b, <1>c, <1>d, NoneAssumption DEF IndInv, TypeOK, Shape,
       SleeperIsQueued, NoCall
  <1> QED BY <1>1, <1>2, <1>3, <1>4, <1>5, <1>6, <1>7, <1>8, <1>9 DEF IndInv

\* SignalOneFire preserves the invariant.
LEMMA SignalOneFireStep ==
    ASSUME IndInv, NEW t \in Threads, SignalOneFire(t)
    PROVE  IndInv'
  <1> DEFINE e == call[t].on[1]
             w == Head(waiters[e])
  <1>a. /\ e \in AutoReset /\ e \in Events /\ lock[e] = t /\ pc[t] = "signal"
        /\ waiters[e] \in Seq(Threads) /\ waiters[e] # <<>> /\ Distinct(waiters[e])
    BY DEF IndInv, TypeOK, Shape, Locks, Lists, SignalOneFire, AutoReset
  <1>g. /\ w \in ToSet(waiters[e]) /\ Tail(waiters[e]) \in Seq(Threads)
        /\ ToSet(Tail(waiters[e])) = ToSet(waiters[e]) \ {w}
        /\ Distinct(Tail(waiters[e]))
    BY <1>a, TailFacts
  <1>b. /\ w \in Threads /\ w # t /\ pc[w] \in {"blocked", "dequeue"} /\ StillOn(w, e)
        /\ ~fired[w] => pc[w] = "blocked" /\ consumed[w] = {} /\ e \in ToSet(call[w].on)
    BY <1>a, <1>g, QueuedFacts
  <1>c. /\ waiters' = [waiters EXCEPT ![e] = Tail(waiters[e])]
        /\ pc' = [pc EXCEPT ![t] = IF ~fired[w] THEN "unlock" ELSE "signal"]
        /\ UNCHANGED <<signaled, lock, call, next, result>>
    BY <1>a DEF SignalOneFire, Accepts
  <1>j. Fire(t, e, w)
    BY DEF SignalOneFire, Accepts, AutoReset
  <1> HIDE DEF e
  <1>d. /\ fired \in [Threads -> BOOLEAN] /\ signaling_event \in [Threads -> Events \cup {None}]
        /\ consumed \in [Threads -> SUBSET Events] /\ woke \in [Threads -> SUBSET Threads]
        /\ next \in [Threads -> Nat] /\ waiters \in [Events -> Seq(Threads)]
        /\ pc \in [Threads -> PC]
    BY DEF IndInv, TypeOK
  <1>e. call[t].on[1] = e
    BY DEF e
  <1> HIDE DEF w
  <1>k. /\ fired' \in [Threads -> BOOLEAN]
        /\ signaling_event' \in [Threads -> Events \cup {None}]
        /\ consumed' \in [Threads -> SUBSET Events]
        /\ woke' \in [Threads -> SUBSET Threads]
        /\ \A u \in Threads : u # w \/ fired[w] =>
            /\ fired'[u] = fired[u]
            /\ signaling_event'[u] = signaling_event[u]
            /\ consumed'[u] = consumed[u]
        /\ fired'[w]
        /\ ~fired[w] => signaling_event'[w] = e /\ consumed'[w] = {e}
        /\ \A u \in Threads : u # t => woke'[u] = woke[u]
        /\ \A u \in woke'[t] : u \in woke[t] \/ u = w
    BY <1>a, <1>b, <1>j, FireFacts DEF IndInv
  <1>s. /\ \A u \in Threads, f \in Events : StillOn(u, f)' <=> StillOn(u, f)
        /\ \A u \in Threads : u # t => pc'[u] = pc[u]
        /\ pc'[t] \in {"signal", "unlock"}
    BY <1>c, <1>d DEF StillOn
  <1>r. \A u \in Threads : ToSet(call[u].on) \subseteq Events
    BY CallIsOnEvents DEF IndInv
  <1>q. \A f \in Events : ToSet(waiters[f]) \subseteq Threads
    BY QueuedIsThread DEF IndInv
  <1>1. TypeOK'
    <2>1. waiters' \in [Events -> Seq(Threads)] /\ pc' \in [Threads -> PC]
      BY <1>c, <1>d, <1>g DEF PC
    <2>2. \A u \in Threads : pc'[u] \in {"signal", "unlock"} => call[u].on # <<>>
      BY <1>a, <1>s DEF IndInv, TypeOK
    <2> QED BY <1>c, <1>k, <1>s, <2>1, <2>2 DEF IndInv, TypeOK
  <1>2. Shape'
    BY <1>a, <1>b, <1>c, <1>d, <1>e, <1>g, <1>k, NoneAssumption,
       EventsAssumption DEF IndInv, AutoReset, TypeOK, Shape
  <1>3. Result'
    BY <1>a, <1>b, <1>c, <1>d, <1>e, <1>g, <1>k, NoneAssumption,
       EventsAssumption DEF IndInv, AutoReset, Shape, Result, StillOn
  <1>4. Locks'
    BY <1>a, <1>b, <1>c, <1>d, <1>e, <1>g, <1>k, NoneAssumption,
       EventsAssumption DEF IndInv, AutoReset, Locks
  <1>5. Lists'
    <2>1. ASSUME NEW f \in Events PROVE Distinct(waiters'[f])
      BY <1>c, <1>d, <1>g DEF IndInv, Lists
    <2>2. ASSUME NEW f \in Events, NEW u \in ToSet(waiters'[f])
          PROVE  /\ pc'[u] \in {"blocked", "dequeue"}
                 /\ StillOn(u, f)'
                 /\ signaling_event'[u] = f =>
                    f \in ManualReset /\ \E s \in Threads : lock'[f] = s /\ pc'[s] = "signal"
      <3>1. u \in ToSet(waiters[f]) /\ u \in Threads /\ (f = e => u # w)
        BY <1>c, <1>d, <1>g, <1>q, <2>2
      <3>2. pc[u] \in {"blocked", "dequeue"} /\ StillOn(u, f) /\ u # t
        BY <1>a, <3>1 DEF IndInv, Lists
      <3>3. ASSUME signaling_event'[u] = f
            PROVE  f \in ManualReset /\ \E s \in Threads : lock'[f] = s /\ pc'[s] = "signal"
        <4>1. signaling_event[u] = f
          BY <1>a, <1>b, <1>k, <3>1, <3>3
        <4>2. PICK s \in Threads : f \in ManualReset /\ lock[f] = s /\ pc[s] = "signal"
          BY <3>1, <4>1 DEF IndInv, Lists
        <4>3. s # t
          BY <1>a, <1>e, <4>2 DEF IndInv, Locks, AutoReset
        <4> QED BY <1>c, <1>s, <4>2, <4>3
      <3> QED BY <1>s, <3>1, <3>2, <3>3
    <2> QED BY <2>1, <2>2 DEF Lists
  <1>6. Signals'
    <2>1. \A u \in Threads : fired[u] => fired'[u]
      BY <1>b, <1>k
    <2>2. ASSUME NEW s \in Threads, pc'[s] = "signal", call[s].on[1] \in ManualReset,
                 NEW i \in DOMAIN waiters'[call[s].on[1]], i < next[s]
          PROVE  fired'[waiters'[call[s].on[1]][i]]
      <3>1. call[s].on[1] # e /\ call[s].on[1] \in Events /\ pc[s] = "signal"
        BY <1>a, <1>e, <1>s, <2>2, EventsAssumption DEF AutoReset
      <3>2. waiters'[call[s].on[1]] = waiters[call[s].on[1]]
        BY <1>c, <1>d, <3>1
      <3>3. waiters[call[s].on[1]][i] \in Threads
        BY <1>d, <2>2, <3>1, <3>2
      <3>4. fired[waiters[call[s].on[1]][i]]
        BY <2>2, <3>1, <3>2 DEF IndInv, Signals
      <3> QED BY <2>1, <3>2, <3>3, <3>4
    <2>3. \A s \in Threads : pc'[s] \notin {"signal", "unlock"} => woke'[s] = {}
      BY <1>a, <1>k, <1>s DEF IndInv, Signals
    <2>4. ASSUME NEW s \in Threads, pc'[s] \in {"signal", "unlock"}, NEW u \in woke'[s]
          PROVE  pc'[u] \in {"blocked", "dequeue"} /\ StillOn(u, call[s].on[1])'
      <3>1. u \in Threads /\ pc[s] \in {"signal", "unlock"}
        BY <1>a, <1>k, <1>s, <2>4
      <3>2. call[s].on[1] \in Events
        BY <3>1, CallIsOnEvents DEF IndInv, Shape
      <3>3. pc[u] \in {"blocked", "dequeue"} /\ StillOn(u, call[s].on[1])
        BY <1>b, <1>e, <1>k, <2>4, <3>1 DEF IndInv, Signals
      <3> QED BY <1>a, <1>c, <1>s, <3>1, <3>2, <3>3
    <2> QED BY <1>c, <2>2, <2>3, <2>4 DEF Signals, StillOn
  <1>7. NoLostSignal'
    BY <1>a, <1>b, <1>c, <1>d, <1>e, <1>g, <1>k, NoneAssumption,
       EventsAssumption DEF IndInv, AutoReset, NoLostSignal
  <1>8. NoSleeperOnSignaled'
    BY <1>a, <1>q, <1>b, <1>c, <1>d, <1>e, <1>g, <1>k, NoneAssumption,
       EventsAssumption DEF IndInv, AutoReset, NoSleeperOnSignaled
  <1>9. SleeperIsQueued'
    <2> SUFFICES ASSUME NEW u \in Threads, pc'[u] = "blocked", ~fired'[u],
                        NEW f \in ToSet(call[u].on)
                 PROVE  u \in ToSet(waiters'[f])
      BY <1>c DEF SleeperIsQueued
    <2>1. u # w /\ u # t /\ pc[u] = "blocked" /\ ~fired[u] /\ f \in Events
      BY <1>k, <1>r, <1>s
    <2>2. u \in ToSet(waiters[f])
      BY <2>1 DEF IndInv, SleeperIsQueued
    <2> QED BY <1>c, <1>d, <1>g, <2>1, <2>2
  <1> QED BY <1>1, <1>2, <1>3, <1>4, <1>5, <1>6, <1>7, <1>8, <1>9 DEF IndInv

\* SignalOneNobody preserves the invariant.
LEMMA SignalOneNobodyStep ==
    ASSUME IndInv, NEW t \in Threads, SignalOneNobody(t)
    PROVE  IndInv'
  <1> DEFINE e == call[t].on[1]
  <1>a. /\ e \in Events /\ pc[t] = "signal" /\ lock[e] = t /\ waiters[e] = <<>>
        /\ lock' = [lock EXCEPT ![e] = None]
        /\ pc' = [pc EXCEPT ![t] = "idle"]
        /\ call' = [call EXCEPT ![t] = NoCall]
        /\ next' = [next EXCEPT ![t] = 1]
        /\ UNCHANGED <<waiters, fired, signaling_event>>
    BY DEF IndInv, Shape, Locks, SignalOneNobody, SignalReturns, AutoReset, waiter
  <1>c. ToSet(<<>>) = {}
    BY DEF ToSet
  <1>d. \A f \in Events \ {e} : lock[f] # t
    BY <1>a DEF IndInv, Locks
  <1> HIDE DEF e
  <1>q. \A f \in Events : ToSet(waiters[f]) \subseteq Threads
    BY QueuedIsThread DEF IndInv
  <1>1. TypeOK'
    BY NoneAssumption DEF IndInv, TypeOK, Shape, Call, NoCall, PC, WaitOps,
       SignalOneNobody, SignalReturns, AutoReset, waiter
  <1>2. Shape'
    BY NoneAssumption DEF IndInv, TypeOK, Shape, NoCall, WaitOps, Distinct,
       SignalOneNobody, SignalReturns, AutoReset, waiter
  <1>3. Result'
    BY NoneAssumption DEF IndInv, TypeOK, Shape, Result, StillOn, NoCall,
       SignalOneNobody, SignalReturns, AutoReset, waiter
  <1>4. Locks'
    BY NoneAssumption DEF IndInv, TypeOK, Shape, Locks, NoCall,
       SignalOneNobody, SignalReturns, AutoReset, waiter
  <1>5. Lists'
    BY <1>a, <1>q, <1>c, <1>d, NoneAssumption DEF IndInv, TypeOK, Lists,
       StillOn
  <1>6. Signals'
    BY NoneAssumption DEF IndInv, TypeOK, Shape, Lists, Locks, Signals,
       StillOn, NoCall, SignalOneNobody, SignalReturns, AutoReset, waiter
  <1>7. NoLostSignal'
    BY NoneAssumption DEF IndInv, TypeOK, Shape, Result, NoLostSignal,
       StillOn, NoCall, SignalOneNobody, SignalReturns, AutoReset, waiter
  <1>8. NoSleeperOnSignaled'
    BY EventsAssumption, WaitManyAssumption, NoneAssumption DEF IndInv,
       TypeOK, Shape, Lists, NoSleeperOnSignaled, SignalOneNobody,
       SignalReturns, AutoReset, waiter, ToSet
  <1>9. SleeperIsQueued'
    BY NoneAssumption DEF IndInv, TypeOK, Shape, SleeperIsQueued, Lists,
       NoCall, SignalOneNobody, SignalReturns, AutoReset, waiter
  <1> QED BY <1>1, <1>2, <1>3, <1>4, <1>5, <1>6, <1>7, <1>8, <1>9 DEF IndInv

\* SignalOneEnd preserves the invariant.
LEMMA SignalOneEndStep ==
    ASSUME IndInv, NEW t \in Threads, SignalOneEnd(t)
    PROVE  IndInv'
  <1>1. TypeOK'
    BY NoneAssumption DEF IndInv, TypeOK, Shape, Call, NoCall, PC, WaitOps,
       SignalOneEnd, SignalReturns, waiter
  <1>2. Shape'
    BY NoneAssumption DEF IndInv, TypeOK, Shape, NoCall, WaitOps, Distinct,
       SignalOneEnd, SignalReturns, waiter
  <1>3. Result'
    BY NoneAssumption DEF IndInv, TypeOK, Shape, Result, StillOn, NoCall,
       SignalOneEnd, SignalReturns, waiter
  <1>4. Locks'
    BY NoneAssumption DEF IndInv, TypeOK, Shape, Locks, NoCall, SignalOneEnd,
       SignalReturns, waiter
  <1>5. Lists'
    BY NoneAssumption DEF IndInv, TypeOK, Shape, Lists, Locks, StillOn,
       NoCall, SignalOneEnd, SignalReturns, waiter
  <1>6. Signals'
    BY NoneAssumption DEF IndInv, TypeOK, Shape, Lists, Locks, Signals,
       StillOn, NoCall, SignalOneEnd, SignalReturns, waiter
  <1>7. NoLostSignal'
    BY NoneAssumption DEF IndInv, TypeOK, Shape, Result, NoLostSignal,
       StillOn, NoCall, SignalOneEnd, SignalReturns, waiter
  <1>8. NoSleeperOnSignaled'
    BY NoneAssumption DEF IndInv, TypeOK, Shape, Lists, NoSleeperOnSignaled,
       SignalOneEnd, SignalReturns, waiter
  <1>9. SleeperIsQueued'
    BY NoneAssumption DEF IndInv, TypeOK, Shape, SleeperIsQueued, Lists,
       NoCall, SignalOneEnd, SignalReturns, waiter
  <1> QED BY <1>1, <1>2, <1>3, <1>4, <1>5, <1>6, <1>7, <1>8, <1>9 DEF IndInv

\* WaitTakesSignal preserves the invariant.
LEMMA WaitTakesSignalStep ==
    ASSUME IndInv, NEW t \in Threads, NEW e \in Events, NEW op \in {"Wait", "TimedWait"}, WaitTakesSignal(t, e, op)
    PROVE  IndInv'
  <1>1. TypeOK'
    BY NoneAssumption DEF IndInv, TypeOK, Shape, Call, NoCall, PC, WaitOps,
       WaitTakesSignal, waiter
  <1>2. Shape'
    BY NoneAssumption DEF IndInv, TypeOK, Shape, NoCall, WaitOps, Distinct,
       WaitTakesSignal, waiter
  <1>3. Result'
    BY NoneAssumption DEF IndInv, TypeOK, Shape, Result, StillOn, NoCall,
       WaitTakesSignal, waiter
  <1>4. Locks'
    BY NoneAssumption DEF IndInv, TypeOK, Shape, Locks, NoCall,
       WaitTakesSignal, waiter
  <1>5. Lists'
    BY NoneAssumption DEF IndInv, TypeOK, Shape, Lists, Locks, StillOn,
       NoCall, WaitTakesSignal, waiter
  <1>6. Signals'
    BY NoneAssumption DEF IndInv, TypeOK, Shape, Lists, Locks, Signals,
       StillOn, NoCall, WaitTakesSignal, waiter
  <1>7. NoLostSignal'
    BY NoneAssumption DEF IndInv, TypeOK, Shape, Result, NoLostSignal,
       StillOn, NoCall, WaitTakesSignal, waiter
  <1>8. NoSleeperOnSignaled'
    BY NoneAssumption DEF IndInv, TypeOK, Shape, Lists, NoSleeperOnSignaled,
       WaitTakesSignal, waiter
  <1>9. SleeperIsQueued'
    BY NoneAssumption DEF IndInv, TypeOK, Shape, SleeperIsQueued, Lists,
       NoCall, WaitTakesSignal, waiter
  <1> QED BY <1>1, <1>2, <1>3, <1>4, <1>5, <1>6, <1>7, <1>8, <1>9 DEF IndInv

\* WaitEnqueues preserves the invariant.
LEMMA WaitEnqueuesStep ==
    ASSUME IndInv, NEW t \in Threads, NEW e \in Events, NEW op \in {"Wait", "TimedWait"}, WaitEnqueues(t, e, op)
    PROVE  IndInv'
  <1>a. /\ pc[t] = "idle" /\ lock[e] = None /\ waiters[e] \in Seq(Threads)
        /\ Distinct(waiters[e]) /\ \A f \in Events : t \notin ToSet(waiters[f])
    BY DEF IndInv, TypeOK, Lists, WaitEnqueues
  <1>b. /\ Append(waiters[e], t) \in Seq(Threads) /\ Distinct(Append(waiters[e], t))
        /\ ToSet(Append(waiters[e], t)) = ToSet(waiters[e]) \cup {t}
    BY <1>a, AppendFacts
  <1>c. /\ waiters' = [waiters EXCEPT ![e] = Append(waiters[e], t)]
        /\ pc' = [pc EXCEPT ![t] = "blocked"]
        /\ call' = [call EXCEPT ![t] = [op |-> op, on |-> <<e>>]]
        /\ UNCHANGED <<signaled, lock, fired, signaling_event, next, result, consumed, woke>>
    BY DEF WaitEnqueues, waiter, history
  <1>d. /\ waiters \in [Events -> Seq(Threads)] /\ pc \in [Threads -> PC] /\ call \in [Threads -> Call]
        /\ signaling_event[t] = None /\ next[t] = 1 /\ ~fired[t]
    BY <1>a DEF IndInv, TypeOK, Shape
  <1>e. ToSet(call'[t].on) = {e} /\ StillOn(t, e)'
    BY <1>c, <1>d DEF ToSet, StillOn
  <1>q. \A f \in Events : ToSet(waiters[f]) \subseteq Threads
    BY QueuedIsThread DEF IndInv
  <1>1. TypeOK'
    BY NoneAssumption DEF IndInv, TypeOK, Shape, Call, NoCall, PC, WaitOps,
       WaitEnqueues, waiter, history
  <1>2. Shape'
    BY NoneAssumption DEF IndInv, TypeOK, Shape, NoCall, WaitOps, Distinct,
       WaitEnqueues, waiter, history
  <1>3. Result'
    BY NoneAssumption DEF IndInv, TypeOK, Shape, Result, StillOn, NoCall,
       WaitEnqueues, waiter, history
  <1>4. Locks'
    BY NoneAssumption DEF IndInv, TypeOK, Shape, Locks, NoCall, WaitEnqueues,
       waiter, history
  <1>5. Lists'
    <2>1. ASSUME NEW f \in Events PROVE Distinct(waiters'[f])
      BY <1>a, <1>b, <1>c, <1>d DEF IndInv, Lists
    <2>2. ASSUME NEW f \in Events, NEW u \in ToSet(waiters'[f])
          PROVE  /\ pc'[u] \in {"blocked", "dequeue"}
                 /\ StillOn(u, f)'
                 /\ signaling_event'[u] = f =>
                    f \in ManualReset /\ \E s \in Threads : lock'[f] = s /\ pc'[s] = "signal"
      <3>1. CASE u = t
        BY <1>a, <1>b, <1>c, <1>d, <1>e, <2>2, <3>1, NoneAssumption
      <3>2. CASE u # t
        <4>1. u \in ToSet(waiters[f]) /\ u \in Threads
          BY <1>a, <1>b, <1>c, <1>d, <1>q, <2>2, <3>2
        <4>2. StillOn(u, f)' /\ pc'[u] \in {"blocked", "dequeue"}
          BY <1>c, <1>d, <3>2, <4>1, SMTT(30) DEF IndInv, Lists, StillOn
        <4>3. signaling_event[u] = f =>
                f \in ManualReset /\ \E s \in Threads : lock[f] = s /\ pc[s] = "signal"
          BY <4>1 DEF IndInv, Lists
        <4> QED BY <1>a, <1>c, <4>2, <4>3
      <3> QED BY <3>1, <3>2
    <2> QED BY <2>1, <2>2 DEF Lists
  <1>6. Signals'
    BY NoneAssumption DEF IndInv, TypeOK, Shape, Lists, Locks, Signals,
       StillOn, NoCall, WaitEnqueues, waiter, history
  <1>7. NoLostSignal'
    BY NoneAssumption DEF IndInv, TypeOK, Shape, Result, NoLostSignal,
       StillOn, NoCall, WaitEnqueues, waiter, history
  <1>8. NoSleeperOnSignaled'
    BY NoneAssumption DEF IndInv, TypeOK, Shape, Lists, NoSleeperOnSignaled,
       WaitEnqueues, waiter, history
  <1>9. SleeperIsQueued'
    BY <1>a, <1>q, <1>b, <1>c, <1>d, <1>e, NoneAssumption DEF IndInv,
       SleeperIsQueued
  <1> QED BY <1>1, <1>2, <1>3, <1>4, <1>5, <1>6, <1>7, <1>8, <1>9 DEF IndInv

\* TimedWaitLeavesLoop preserves the invariant.
LEMMA TimedWaitLeavesLoopStep ==
    ASSUME IndInv, NEW t \in Threads, TimedWaitLeavesLoop(t)
    PROVE  IndInv'
  <1>1. TypeOK'
    <2>1. /\ fired' \in [Threads -> BOOLEAN] /\ result' \in [Threads -> Nat]
          /\ pc' \in [Threads -> PC]
      BY DEF IndInv, TypeOK, PC, TimedWaitLeavesLoop
    <2>2. /\ call[t].on # <<>> /\ next[t] \in DOMAIN call[t].on
          /\ \A u \in Threads : u # t => pc'[u] = pc[u]
      <3>1. call[t].on # <<>> /\ call[t].on \in Seq(Events) /\ next[t] = 1
        BY DEF IndInv, TypeOK, Shape, Call, TimedWaitLeavesLoop
      <3>2. \A u \in Threads : u # t => pc'[u] = pc[u]
        BY DEF IndInv, TypeOK, TimedWaitLeavesLoop
      <3> QED BY <3>1, <3>2
    <2>3. UNCHANGED <<kernel, signaling_event, call, next, history>>
      BY DEF TimedWaitLeavesLoop
    <2> QED BY <2>1, <2>2, <2>3 DEF IndInv, TypeOK, kernel, history
  <1>2. Shape'
    BY NoneAssumption DEF IndInv, TypeOK, Shape, NoCall, WaitOps, Distinct,
       TimedWaitLeavesLoop, kernel, history
  <1>3. Result'
    BY EventsAssumption, WaitManyAssumption, NoneAssumption DEF IndInv,
       TypeOK, Shape, Result, StillOn, NoCall, TimedWaitLeavesLoop, kernel,
       history, ToSet
  <1>4. Locks'
    BY NoneAssumption DEF IndInv, TypeOK, Shape, Locks, NoCall,
       TimedWaitLeavesLoop, kernel, history
  <1>5. Lists'
    BY NoneAssumption DEF IndInv, TypeOK, Shape, Lists, Locks, StillOn,
       NoCall, TimedWaitLeavesLoop, kernel, history
  <1>6. Signals'
    BY NoneAssumption DEF IndInv, TypeOK, Shape, Lists, Locks, Signals,
       StillOn, NoCall, TimedWaitLeavesLoop, kernel, history
  <1>7. NoLostSignal'
    BY NoneAssumption DEF IndInv, TypeOK, Shape, Result, NoLostSignal,
       StillOn, NoCall, TimedWaitLeavesLoop, kernel, history
  <1>8. NoSleeperOnSignaled'
    BY NoneAssumption DEF IndInv, TypeOK, Shape, Lists, NoSleeperOnSignaled,
       TimedWaitLeavesLoop, kernel, history
  <1>9. SleeperIsQueued'
    BY NoneAssumption DEF IndInv, TypeOK, Shape, SleeperIsQueued, Lists,
       NoCall, TimedWaitLeavesLoop, kernel, history
  <1> QED BY <1>1, <1>2, <1>3, <1>4, <1>5, <1>6, <1>7, <1>8, <1>9 DEF IndInv

\* TimedWaitDequeues preserves the invariant.
LEMMA TimedWaitDequeuesStep ==
    ASSUME IndInv, NEW t \in Threads, TimedWaitDequeues(t)
    PROVE  IndInv'
  <1> DEFINE e == call[t].on[1]
  <1>a. /\ e \in Events /\ lock[e] = None /\ pc[t] = "dequeue" /\ fired[t]
        /\ DOMAIN call[t].on = {1} /\ next[t] = 1
        /\ waiters[e] \in Seq(Threads) /\ Distinct(waiters[e])
    <2>1. /\ pc[t] = "dequeue" /\ call[t].op # "WaitMany" /\ lock[e] = None /\ fired[t]
          /\ Len(call[t].on) = 1 /\ next[t] \in DOMAIN call[t].on
      BY DEF IndInv, Shape, TimedWaitDequeues
    <2>2. call[t].on \in Seq(Events)
      BY CallIsOnEvents DEF IndInv
    <2>3. DOMAIN call[t].on = {1} /\ e \in Events
      BY <2>1, <2>2
    <2> QED BY <2>1, <2>3 DEF IndInv, TypeOK, Lists
  <1>b. /\ Dequeue(waiters[e], t) \in Seq(Threads) /\ Distinct(Dequeue(waiters[e], t))
        /\ ToSet(Dequeue(waiters[e], t)) = ToSet(waiters[e]) \ {t}
    BY <1>a, DequeueFacts
  <1>c. /\ waiters' = [waiters EXCEPT ![e] = Dequeue(waiters[e], t)]
        /\ pc' = [pc EXCEPT ![t] = "return"]
        /\ UNCHANGED <<signaled, lock, fired, signaling_event, call, next, result, consumed, woke>>
    BY DEF TimedWaitDequeues, waiter, history
  <1>d. \A f \in Events : t \in ToSet(waiters[f]) => f = e
    BY <1>a DEF IndInv, Lists, StillOn
  <1>e. waiters \in [Events -> Seq(Threads)] /\ pc \in [Threads -> PC] /\ call[t].on[1] = e
    BY DEF IndInv, TypeOK
  <1> HIDE DEF e
  <1>q. \A f \in Events : ToSet(waiters[f]) \subseteq Threads
    BY QueuedIsThread DEF IndInv
  <1>1. TypeOK'
    BY <1>a, <1>b, <1>c, <1>d, <1>e, NoneAssumption DEF IndInv, TypeOK, PC
  <1>2. Shape'
    BY NoneAssumption DEF IndInv, TypeOK, Shape, NoCall, WaitOps, Distinct,
       TimedWaitDequeues, waiter, history
  <1>3. Result'
    BY NoneAssumption DEF IndInv, TypeOK, Shape, Result, StillOn, NoCall,
       TimedWaitDequeues, waiter, history
  <1>4. Locks'
    BY NoneAssumption DEF IndInv, TypeOK, Shape, Locks, NoCall,
       TimedWaitDequeues, waiter, history
  <1>5. Lists'
    BY <1>a, <1>q, <1>b, <1>c, <1>d, <1>e, NoneAssumption, SMTT(30) DEF IndInv, Lists,
       StillOn
  <1>6. Signals'
    <2>1. \A s \in Threads : /\ pc'[s] \in {"signal", "unlock"} <=> pc[s] \in {"signal", "unlock"}
                             /\ pc'[s] = "signal" <=> pc[s] = "signal"
      BY <1>a, <1>c, <1>e
    <2>2. \A s \in Threads : pc[s] \in {"signal", "unlock"} =>
            /\ call[s].on[1] # e /\ call[s].on[1] \in Events
            /\ waiters'[call[s].on[1]] = waiters[call[s].on[1]]
      <3> TAKE s \in Threads
      <3> HAVE pc[s] \in {"signal", "unlock"}
      <3>1. lock[call[s].on[1]] = s /\ call[s].on[1] \in Events
        BY CallIsOnEvents DEF IndInv, Shape, Locks
      <3>2. call[s].on[1] # e
        BY <1>a, <3>1, NoneAssumption
      <3> QED BY <1>c, <1>e, <3>1, <3>2
    <2>3. ASSUME NEW s \in Threads, pc[s] \in {"signal", "unlock"}, NEW u \in woke[s]
          PROVE  pc'[u] \in {"blocked", "dequeue"} /\ StillOn(u, call[s].on[1])'
      <3>1. u \in Threads /\ pc[u] \in {"blocked", "dequeue"} /\ StillOn(u, call[s].on[1])
        BY <2>3 DEF IndInv, TypeOK, Signals
      <3>2. u # t
        BY <1>a, <1>e, <2>2, <2>3, <3>1 DEF StillOn
      <3> QED BY <1>c, <1>e, <3>1, <3>2 DEF StillOn
    <2> QED BY <1>c, <2>1, <2>2, <2>3 DEF IndInv, Signals, StillOn
  <1>7. NoLostSignal'
    BY NoneAssumption DEF IndInv, TypeOK, Shape, Result, NoLostSignal,
       StillOn, NoCall, TimedWaitDequeues, waiter, history
  <1>8. NoSleeperOnSignaled'
    BY <1>a, <1>q, <1>b, <1>c, <1>d, <1>e, NoneAssumption DEF IndInv,
       NoSleeperOnSignaled
  <1>9. SleeperIsQueued'
    BY <1>a, <1>q, <1>b, <1>c, <1>d, <1>e, NoneAssumption DEF IndInv,
       SleeperIsQueued
  <1> QED BY <1>1, <1>2, <1>3, <1>4, <1>5, <1>6, <1>7, <1>8, <1>9 DEF IndInv

\* WaitManyBegin preserves the invariant.
LEMMA WaitManyBeginStep ==
    ASSUME IndInv, NEW t \in Threads, NEW raw \in WaitManyArgs, WaitManyBegin(t, raw)
    PROVE  IndInv'
  <1>1. TypeOK'
    BY EventsAssumption, WaitManyAssumption, NoneAssumption DEF IndInv,
       TypeOK, Shape, Call, NoCall, PC, WaitOps, WaitManyBegin, kernel,
       waiter, history, ToSet
  <1>2. Shape'
    BY NoneAssumption DEF IndInv, TypeOK, Shape, NoCall, WaitOps, Distinct,
       WaitManyBegin, kernel, waiter, history
  <1>3. Result'
    BY NoneAssumption DEF IndInv, TypeOK, Shape, Result, StillOn, NoCall,
       WaitManyBegin, kernel, waiter, history
  <1>4. Locks'
    BY NoneAssumption DEF IndInv, TypeOK, Shape, Locks, NoCall, WaitManyBegin,
       kernel, waiter, history
  <1>5. Lists'
    BY NoneAssumption DEF IndInv, TypeOK, Shape, Lists, Locks, StillOn,
       NoCall, WaitManyBegin, kernel, waiter, history
  <1>6. Signals'
    BY NoneAssumption DEF IndInv, TypeOK, Shape, Lists, Locks, Signals,
       StillOn, NoCall, WaitManyBegin, kernel, waiter, history
  <1>7. NoLostSignal'
    BY NoneAssumption DEF IndInv, TypeOK, Shape, Result, NoLostSignal,
       StillOn, NoCall, WaitManyBegin, kernel, waiter, history
  <1>8. NoSleeperOnSignaled'
    BY NoneAssumption DEF IndInv, TypeOK, Shape, Lists, NoSleeperOnSignaled,
       WaitManyBegin, kernel, waiter, history
  <1>9. SleeperIsQueued'
    BY NoneAssumption DEF IndInv, TypeOK, Shape, SleeperIsQueued, Lists,
       NoCall, WaitManyBegin, kernel, waiter, history
  <1> QED BY <1>1, <1>2, <1>3, <1>4, <1>5, <1>6, <1>7, <1>8, <1>9 DEF IndInv

\* EnqueueManyLocks preserves the invariant.
LEMMA EnqueueManyLocksStep ==
    ASSUME IndInv, NEW t \in Threads, EnqueueManyLocks(t)
    PROVE  IndInv'
  <1> PICK e \in Events : /\ NextToLock(t, e)
                         /\ lock[e] = None
                         /\ lock' = [lock EXCEPT ![e] = t]
    BY DEF EnqueueManyLocks
  <1>a. pc[t] = "lockall" /\ e \in ToSet(call[t].on) /\ UNCHANGED <<pc, call>>
    BY DEF EnqueueManyLocks, NextToLock, Unlocked
  <1>q. \A f \in Events : ToSet(waiters[f]) \subseteq Threads
    BY QueuedIsThread DEF IndInv
  <1>1. TypeOK'
    BY NoneAssumption DEF IndInv, TypeOK, Shape, Call, NoCall, PC, WaitOps,
       EnqueueManyLocks, NextToLock, waiter, history
  <1>2. Shape'
    BY NoneAssumption DEF IndInv, TypeOK, Shape, NoCall, WaitOps, Distinct,
       EnqueueManyLocks, NextToLock, waiter, history
  <1>3. Result'
    BY NoneAssumption DEF IndInv, TypeOK, Shape, Result, StillOn, NoCall,
       EnqueueManyLocks, NextToLock, waiter, history
  <1>4. Locks'
    BY <1>a, NoneAssumption DEF IndInv, TypeOK, Locks
  <1>5. Lists'
    BY NoneAssumption DEF IndInv, TypeOK, Shape, Lists, Locks, StillOn,
       NoCall, EnqueueManyLocks, NextToLock, waiter, history
  <1>6. Signals'
    BY NoneAssumption DEF IndInv, TypeOK, Shape, Lists, Locks, Signals,
       StillOn, NoCall, EnqueueManyLocks, NextToLock, waiter, history
  <1>7. NoLostSignal'
    BY NoneAssumption DEF IndInv, TypeOK, Shape, Result, NoLostSignal,
       StillOn, NoCall, EnqueueManyLocks, NextToLock, waiter, history
  <1>8. NoSleeperOnSignaled'
    BY NoneAssumption DEF IndInv, TypeOK, Shape, Lists, NoSleeperOnSignaled,
       EnqueueManyLocks, NextToLock, waiter, history
  <1>9. SleeperIsQueued'
    BY NoneAssumption DEF IndInv, TypeOK, Shape, SleeperIsQueued, Lists,
       NoCall, EnqueueManyLocks, NextToLock, waiter, history
  <1> QED BY <1>1, <1>2, <1>3, <1>4, <1>5, <1>6, <1>7, <1>8, <1>9 DEF IndInv

\* EnqueueManyTakesSignal preserves the invariant.
LEMMA EnqueueManyTakesSignalStep ==
    ASSUME IndInv, NEW t \in Threads, EnqueueManyTakesSignal(t)
    PROVE  IndInv'
  <1>a. /\ pc[t] = "lockall"
        /\ lock' = [f \in Events |-> IF lock[f] = t THEN None ELSE lock[f]]
        /\ pc' = [pc EXCEPT ![t] = "return"]
        /\ UNCHANGED call
    BY DEF EnqueueManyTakesSignal, ReleaseAll
  <1>b. \A s \in Threads : pc[s] \in {"signal", "unlock"} => call[s].on[1] \in Events
    BY DEF IndInv, TypeOK, Call, Shape
  <1>q. \A f \in Events : ToSet(waiters[f]) \subseteq Threads
    BY QueuedIsThread DEF IndInv
  <1>1. TypeOK'
    BY NoneAssumption, SMTT(30) DEF IndInv, TypeOK, Shape, Call, NoCall, PC, WaitOps,
       EnqueueManyTakesSignal, ReleaseAll, IsWinner, waiter
  <1>2. Shape'
    BY EventsAssumption, WaitManyAssumption, NoneAssumption DEF IndInv,
       TypeOK, Shape, NoCall, WaitOps, Distinct, EnqueueManyTakesSignal,
       ReleaseAll, IsWinner, waiter, ToSet
  <1>3. Result'
    BY NoneAssumption DEF IndInv, TypeOK, Shape, Result, StillOn, NoCall,
       EnqueueManyTakesSignal, ReleaseAll, IsWinner, waiter
  <1>4. Locks'
    BY <1>a, <1>b, NoneAssumption DEF IndInv, TypeOK, Locks
  <1>5. Lists'
    BY NoneAssumption DEF IndInv, TypeOK, Shape, Lists, Locks, StillOn,
       NoCall, EnqueueManyTakesSignal, ReleaseAll, IsWinner, waiter
  <1>6. Signals'
    BY NoneAssumption DEF IndInv, TypeOK, Shape, Lists, Locks, Signals,
       StillOn, NoCall, EnqueueManyTakesSignal, ReleaseAll, IsWinner, waiter
  <1>7. NoLostSignal'
    BY NoneAssumption DEF IndInv, TypeOK, Shape, Result, NoLostSignal,
       StillOn, NoCall, EnqueueManyTakesSignal, ReleaseAll, IsWinner, waiter
  <1>8. NoSleeperOnSignaled'
    BY NoneAssumption DEF IndInv, TypeOK, Shape, Lists, NoSleeperOnSignaled,
       EnqueueManyTakesSignal, ReleaseAll, IsWinner, waiter
  <1>9. SleeperIsQueued'
    BY NoneAssumption DEF IndInv, TypeOK, Shape, SleeperIsQueued, Lists,
       NoCall, EnqueueManyTakesSignal, ReleaseAll, IsWinner, waiter
  <1> QED BY <1>1, <1>2, <1>3, <1>4, <1>5, <1>6, <1>7, <1>8, <1>9 DEF IndInv

\* EnqueueManyEnqueues preserves the invariant.
LEMMA EnqueueManyEnqueuesStep ==
    ASSUME IndInv, NEW t \in Threads, EnqueueManyEnqueues(t)
    PROVE  IndInv'
  <1> DEFINE on == call[t].on
  <1>a. /\ pc[t] = "lockall" /\ call[t].op = "WaitMany" /\ Unlocked(t) = {}
        /\ on \in Seq(Events) /\ on # <<>> /\ Distinct(on) /\ next[t] = 1 /\ ~fired[t]
        /\ signaling_event[t] = None /\ consumed[t] = {}
    BY WaitManyAssumption DEF IndInv, Shape, EnqueueManyEnqueues, Distinct
  <1>b. /\ waiters' = [f \in Events |-> IF f \in ToSet(on) THEN Append(waiters[f], t) ELSE waiters[f]]
        /\ lock' = [f \in Events |-> IF lock[f] = t THEN None ELSE lock[f]]
        /\ pc' = [pc EXCEPT ![t] = "blocked"]
        /\ \A f \in ToSet(on) : ~signaled[f]
        /\ UNCHANGED <<signaled, fired, signaling_event, call, next, result, consumed, woke>>
    BY DEF EnqueueManyEnqueues, ReleaseAll, waiter, history
  <1>c. /\ waiters \in [Events -> Seq(Threads)] /\ pc \in [Threads -> PC]
        /\ lock \in [Events -> Threads \cup {None}]
        /\ \A f \in Events : Distinct(waiters[f]) /\ t \notin ToSet(waiters[f])
    BY <1>a DEF IndInv, TypeOK, Lists
  <1>d. \A f \in Events : lock[f] = t => f \in ToSet(on)
    BY <1>a DEF IndInv, Locks
  <1>e. \A f \in ToSet(on) : lock[f] = t /\ f \in Events
    BY <1>a DEF Unlocked, ToSet
  <1>f. \A f \in ToSet(on) :
            /\ waiters'[f] \in Seq(Threads) /\ Distinct(waiters'[f])
            /\ ToSet(waiters'[f]) = ToSet(waiters[f]) \cup {t}
    BY <1>b, <1>c, <1>e, AppendFacts
  <1>g. \A f \in Events \ ToSet(on) : waiters'[f] = waiters[f]
    BY <1>b
  <1>h. \A f \in ToSet(on) : StillOn(t, f)'
    BY <1>a, <1>b DEF StillOn, ToSet
  <1>i. \A u \in Threads, f \in Events : StillOn(u, f) <=> StillOn(u, f)'
    BY <1>b DEF StillOn
  <1>j. \A s \in Threads : pc[s] \in {"signal", "unlock"} =>
            lock[call[s].on[1]] = s /\ call[s].on[1] \notin ToSet(on) /\ call[s].on[1] \in Events
    BY <1>a, <1>e DEF IndInv, TypeOK, Call, Shape, Locks
  <1> HIDE DEF on
  <1>r. \A u \in Threads : ToSet(call[u].on) \subseteq Events
    BY CallIsOnEvents DEF IndInv
  <1>q. \A f \in Events : ToSet(waiters[f]) \subseteq Threads
    BY QueuedIsThread DEF IndInv
  <1>1. TypeOK'
    BY EventsAssumption, WaitManyAssumption, NoneAssumption DEF IndInv,
       TypeOK, Shape, Call, NoCall, PC, WaitOps, EnqueueManyEnqueues,
       ReleaseAll, waiter, history, ToSet
  <1>2. Shape'
    BY EventsAssumption, WaitManyAssumption, NoneAssumption DEF IndInv,
       TypeOK, Shape, NoCall, WaitOps, Distinct, EnqueueManyEnqueues,
       ReleaseAll, waiter, history, ToSet
  <1>3. Result'
    BY NoneAssumption DEF IndInv, TypeOK, Shape, Result, StillOn, NoCall,
       EnqueueManyEnqueues, ReleaseAll, waiter, history
  <1>4. Locks'
    BY <1>a, <1>b, <1>c, <1>d, <1>e, <1>f, <1>g, <1>h, <1>i, <1>j,
       NoneAssumption DEF IndInv, Locks, on
  <1>5. Lists'
    <2>1. ASSUME NEW f \in Events PROVE Distinct(waiters'[f])
      BY <1>c, <1>f, <1>g
    <2>2. ASSUME NEW f \in Events, NEW u \in ToSet(waiters'[f])
          PROVE  /\ pc'[u] \in {"blocked", "dequeue"}
                 /\ StillOn(u, f)'
                 /\ signaling_event'[u] = f =>
                    f \in ManualReset /\ \E s \in Threads : lock'[f] = s /\ pc'[s] = "signal"
      <3>1. CASE u = t
        <4>1. f \in ToSet(on)
          BY <1>c, <1>g, <2>2, <3>1
        <4> QED BY <1>a, <1>b, <1>c, <1>h, <3>1, <4>1, NoneAssumption
      <3>2. CASE u # t
        <4>1. u \in ToSet(waiters[f]) /\ u \in Threads
          BY <1>f, <1>g, <1>q, <2>2, <3>2
        <4>2. StillOn(u, f)' /\ pc'[u] \in {"blocked", "dequeue"}
          BY <1>b, <1>c, <1>i, <3>2, <4>1 DEF IndInv, Lists
        <4>3. ASSUME signaling_event[u] = f
              PROVE  f \in ManualReset /\ \E s \in Threads : lock'[f] = s /\ pc'[s] = "signal"
          <5>1. PICK s \in Threads : f \in ManualReset /\ lock[f] = s /\ pc[s] = "signal"
            BY <4>1, <4>3 DEF IndInv, Lists
          <5> QED BY <1>a, <1>b, <1>c, <5>1
        <4> QED BY <1>b, <4>2, <4>3
      <3> QED BY <3>1, <3>2
    <2> QED BY <2>1, <2>2 DEF Lists
  <1>6. Signals'
    <2>1. \A s \in Threads : /\ pc'[s] = pc[s] \/ s = t
                             /\ pc'[s] \in {"signal", "unlock"} => pc[s] = pc'[s]
      BY <1>a, <1>b, <1>c
    <2>2. \A s \in Threads : pc[s] = "signal" =>
            waiters'[call[s].on[1]] = waiters[call[s].on[1]]
      BY <1>g, <1>j
    <2>3. \A s \in Threads : pc'[s] \in {"signal", "unlock"} =>
            \A u \in woke[s] : pc'[u] \in {"blocked", "dequeue"} /\ StillOn(u, call[s].on[1])'
      <3> SUFFICES ASSUME NEW s \in Threads, pc[s] \in {"signal", "unlock"}, NEW u \in woke[s]
                   PROVE  pc'[u] \in {"blocked", "dequeue"} /\ StillOn(u, call[s].on[1])'
        BY <2>1
      <3>0. u \in Threads
        BY DEF IndInv, TypeOK
      <3>1. u \in Threads /\ pc[u] \in {"blocked", "dequeue"} /\ StillOn(u, call[s].on[1])
        BY <3>0 DEF IndInv, Signals
      <3>2. PICK f \in Events : f = call[s].on[1]
        BY <1>j
      <3>3. StillOn(u, f)' /\ f = call'[s].on[1]
        BY <1>b, <1>i, <3>1, <3>2
      <3>4. pc'[u] \in {"blocked", "dequeue"}
        BY <1>a, <2>1, <3>1
      <3> QED BY <3>3, <3>4 DEF StillOn
    <2>4. \A s \in Threads : pc'[s] \notin {"signal", "unlock"} => woke[s] = {}
      BY <1>a, <2>1 DEF IndInv, Signals
    <2>5. ASSUME NEW s \in Threads, pc'[s] = "signal", call[s].on[1] \in ManualReset,
                 NEW i \in DOMAIN waiters'[call[s].on[1]], i < next[s]
          PROVE  fired[waiters'[call[s].on[1]][i]]
      BY <2>1, <2>2, <2>5 DEF IndInv, Signals
    <2> QED BY <1>b, <2>3, <2>4, <2>5 DEF Signals, StillOn
  <1>7. NoLostSignal'
    BY NoneAssumption DEF IndInv, TypeOK, Shape, Result, NoLostSignal,
       StillOn, NoCall, EnqueueManyEnqueues, ReleaseAll, waiter, history
  <1>8. NoSleeperOnSignaled'
    BY NoneAssumption DEF IndInv, TypeOK, Shape, Lists, NoSleeperOnSignaled,
       EnqueueManyEnqueues, ReleaseAll, waiter, history
  <1>9. SleeperIsQueued'
    <2> SUFFICES ASSUME NEW u \in Threads, pc'[u] = "blocked", ~fired[u],
                        NEW f \in ToSet(call[u].on)
                 PROVE  u \in ToSet(waiters'[f])
      BY <1>b DEF SleeperIsQueued
    <2>1. CASE u = t
      BY <1>f, <2>1 DEF on
    <2>2. CASE u # t
      BY <1>b, <1>c, <1>f, <1>g, <1>r, <2>2 DEF IndInv, SleeperIsQueued
    <2> QED BY <2>1, <2>2
  <1> QED BY <1>1, <1>2, <1>3, <1>4, <1>5, <1>6, <1>7, <1>8, <1>9 DEF IndInv

\* WaitManyLeavesLoop preserves the invariant.
LEMMA WaitManyLeavesLoopStep ==
    ASSUME IndInv, NEW t \in Threads, WaitManyLeavesLoop(t)
    PROVE  IndInv'
  <1>a. /\ pc[t] = "blocked" /\ fired[t] /\ call[t].op = "WaitMany" /\ call[t].on \in Seq(Events)
        /\ call[t].on # <<>> /\ next[t] = 1 /\ signaling_event[t] \in ToSet(call[t].on)
        /\ consumed[t] = {signaling_event[t]}
    BY DEF IndInv, TypeOK, Call, Shape, Result, WaitManyLeavesLoop
  <1>b. 1 \in DOMAIN call[t].on /\ StillOn(t, signaling_event[t])
    BY <1>a DEF StillOn, ToSet
  <1>c. /\ pc' = [pc EXCEPT ![t] = "dequeue"]
        /\ UNCHANGED <<fired, signaling_event, call, next, consumed>>
        /\ result' = [result EXCEPT ![t] = 1]
    BY DEF WaitManyLeavesLoop, waiter, history
  <1>d. pc \in [Threads -> PC] /\ result \in [Threads -> Nat]
    BY DEF IndInv, TypeOK
  <1>q. \A f \in Events : ToSet(waiters[f]) \subseteq Threads
    BY QueuedIsThread DEF IndInv
  <1>1. TypeOK'
    BY NoneAssumption DEF IndInv, TypeOK, Shape, Call, NoCall, PC, WaitOps,
       WaitManyLeavesLoop, kernel, waiter, history
  <1>2. Shape'
    BY <1>a, <1>b, <1>c, <1>d DEF IndInv, Shape
  <1>3. Result'
    BY <1>a, <1>b, <1>c, <1>d DEF IndInv, Result, StillOn
  <1>4. Locks'
    BY NoneAssumption DEF IndInv, TypeOK, Shape, Locks, NoCall,
       WaitManyLeavesLoop, kernel, waiter, history
  <1>5. Lists'
    BY NoneAssumption DEF IndInv, TypeOK, Shape, Lists, Locks, StillOn,
       NoCall, WaitManyLeavesLoop, kernel, waiter, history
  <1>6. Signals'
    BY NoneAssumption DEF IndInv, TypeOK, Shape, Lists, Locks, Signals,
       StillOn, NoCall, WaitManyLeavesLoop, kernel, waiter, history
  <1>7. NoLostSignal'
    BY NoneAssumption DEF IndInv, TypeOK, Shape, Result, NoLostSignal,
       StillOn, NoCall, WaitManyLeavesLoop, kernel, waiter, history
  <1>8. NoSleeperOnSignaled'
    BY NoneAssumption DEF IndInv, TypeOK, Shape, Lists, NoSleeperOnSignaled,
       WaitManyLeavesLoop, kernel, waiter, history
  <1>9. SleeperIsQueued'
    BY NoneAssumption DEF IndInv, TypeOK, Shape, SleeperIsQueued, Lists,
       NoCall, WaitManyLeavesLoop, kernel, waiter, history
  <1> QED BY <1>1, <1>2, <1>3, <1>4, <1>5, <1>6, <1>7, <1>8, <1>9 DEF IndInv

\* WaitManyDequeues preserves the invariant.
LEMMA WaitManyDequeuesStep ==
    ASSUME IndInv, NEW t \in Threads, WaitManyDequeues(t)
    PROVE  IndInv'
  <1> DEFINE e == call[t].on[next[t]]
  <1>a. /\ e \in Events /\ lock[e] = None /\ pc[t] = "dequeue" /\ fired[t]
        /\ next[t] \in DOMAIN call[t].on /\ next[t] \in Nat /\ call[t].on \in Seq(Events)
        /\ Distinct(call[t].on) /\ call[t].op = "WaitMany"
        /\ waiters[e] \in Seq(Threads) /\ Distinct(waiters[e])
    <2>1. call[t] \in Call
      BY DEF IndInv, TypeOK
    <2>2. /\ pc[t] = "dequeue" /\ fired[t] /\ next[t] \in DOMAIN call[t].on /\ next[t] \in Nat
          /\ Distinct(call[t].on) /\ call[t].op = "WaitMany" /\ lock[e] = None
      BY DEF IndInv, TypeOK, Shape, WaitManyDequeues
    <2>3. call[t].on \in Seq(Events) /\ e \in Events
      BY <2>1, <2>2 DEF Call
    <2> QED BY <2>2, <2>3 DEF IndInv, TypeOK, Lists
  <1>b. /\ Dequeue(waiters[e], t) \in Seq(Threads) /\ Distinct(Dequeue(waiters[e], t))
        /\ ToSet(Dequeue(waiters[e], t)) = ToSet(waiters[e]) \ {t}
    BY <1>a, DequeueFacts
  <1>c. /\ next' = [next EXCEPT ![t] = next[t] + 1]
        /\ pc' = [pc EXCEPT ![t] = IF next[t] < Len(call[t].on) THEN "dequeue" ELSE "return"]
        /\ UNCHANGED <<signaled, lock, fired, signaling_event, call, consumed, woke>>
    BY <1>a DEF WaitManyDequeues, waiter, history
  <1>d. \/ /\ e = signaling_event[t]
           /\ result' = [result EXCEPT ![t] = next[t]]
           /\ waiters' = waiters
        \/ /\ e # signaling_event[t]
           /\ waiters' = [waiters EXCEPT ![e] = Dequeue(waiters[e], t)]
           /\ result' = result
    BY DEF WaitManyDequeues
  <1>e. /\ waiters \in [Events -> Seq(Threads)] /\ pc \in [Threads -> PC]
        /\ next \in [Threads -> Nat] /\ result \in [Threads -> Nat]
        /\ call[t].on[next[t]] = e
    BY DEF IndInv, TypeOK
  <1>f. t \notin ToSet(waiters'[e])
    BY <1>a, <1>b, <1>d, <1>e, NoneAssumption DEF IndInv, Lists
  <1>g. \A f \in Events : ToSet(waiters'[f]) \subseteq ToSet(waiters[f])
                           /\ Distinct(waiters'[f])
                           /\ \A u \in Threads : u # t /\ u \in ToSet(waiters[f]) => u \in ToSet(waiters'[f])
    BY <1>a, <1>b, <1>d, <1>e DEF IndInv, Lists
  <1>h. \A f \in Events : StillOn(t, f) /\ f # e => StillOn(t, f)' /\ pc'[t] = "dequeue"
    <2> SUFFICES ASSUME NEW f \in Events, NEW i \in DOMAIN call[t].on,
                        i >= next[t], call[t].on[i] = f, f # e
                 PROVE  StillOn(t, f)' /\ pc'[t] = "dequeue"
      BY DEF StillOn
    <2>1. i > next[t] /\ i <= Len(call[t].on) /\ i \in Nat
      BY <1>a, <1>e, SMTT(30)
    <2> QED BY <1>a, <1>c, <1>e, <2>1, SMTT(30) DEF StillOn
  <1>i. \A u \in Threads, f \in Events : u # t /\ StillOn(u, f) => StillOn(u, f)' /\ pc'[u] = pc[u]
    BY <1>c, <1>e DEF StillOn
  <1> HIDE DEF e
  <1>r. \A u \in Threads : ToSet(call[u].on) \subseteq Events
    BY CallIsOnEvents DEF IndInv
  <1>q. \A f \in Events : ToSet(waiters[f]) \subseteq Threads
    BY QueuedIsThread DEF IndInv
  <1>1. TypeOK'
    <2>1. /\ waiters' \in [Events -> Seq(Threads)] /\ pc' \in [Threads -> PC]
          /\ next' \in [Threads -> Nat] /\ result' \in [Threads -> Nat]
      <3>1. waiters' \in [Events -> Seq(Threads)]
        BY <1>a, <1>b, <1>d, <1>e
      <3>2. pc' \in [Threads -> PC]
        BY <1>c, <1>e DEF PC
      <3>3. next' \in [Threads -> Nat]
        BY <1>a, <1>c, <1>e
      <3>4. result' \in [Threads -> Nat]
        BY <1>a, <1>d, <1>e
      <3> QED BY <3>1, <3>2, <3>3, <3>4
    <2>2. pc'[t] = "dequeue" => next'[t] \in DOMAIN call[t].on
      BY <1>a, <1>c, <1>e
    <2>3. \A u \in Threads : /\ u # t => pc'[u] = pc[u] /\ next'[u] = next[u]
                             /\ u = t => call[u].on # <<>>
      BY <1>a, <1>c, <1>e DEF IndInv, TypeOK
    <2> QED BY <1>c, <2>1, <2>2, <2>3 DEF IndInv, TypeOK
  <1>2. Shape'
    BY NoneAssumption DEF IndInv, TypeOK, Shape, NoCall, WaitOps, Distinct,
       WaitManyDequeues, waiter, history
  <1>3. Result'
    BY NoneAssumption DEF IndInv, TypeOK, Shape, Result, StillOn, NoCall,
       WaitManyDequeues, waiter, history
  <1>4. Locks'
    BY NoneAssumption DEF IndInv, TypeOK, Shape, Locks, NoCall,
       WaitManyDequeues, waiter, history
  <1>5. Lists'
    BY <1>a, <1>q, <1>b, <1>c, <1>d, <1>e, <1>f, <1>g, <1>h, <1>i,
       NoneAssumption DEF IndInv, Lists
  <1>6. Signals'
    <2>1. \A s \in Threads : /\ pc'[s] \in {"signal", "unlock"} <=> pc[s] \in {"signal", "unlock"}
                             /\ pc'[s] = "signal" <=> pc[s] = "signal"
                             /\ pc[s] \in {"signal", "unlock"} => s # t
      BY <1>a, <1>c, <1>e
    <2>2. \A s \in Threads : pc[s] \in {"signal", "unlock"} =>
            /\ call[s].on[1] # e /\ call[s].on[1] \in Events /\ lock[call[s].on[1]] = s
            /\ next'[s] = next[s]
            /\ waiters'[call[s].on[1]] = waiters[call[s].on[1]]
      <3> TAKE s \in Threads
      <3> HAVE pc[s] \in {"signal", "unlock"}
      <3>1. lock[call[s].on[1]] = s /\ call[s].on[1] \in Events
        BY CallIsOnEvents DEF IndInv, Shape, Locks
      <3>2. call[s].on[1] # e
        BY <1>a, <3>1, NoneAssumption
      <3> QED BY <1>c, <1>d, <1>e, <2>1, <3>1, <3>2
    <2>3. ASSUME NEW s \in Threads, pc[s] \in {"signal", "unlock"}, NEW u \in woke[s]
          PROVE  pc'[u] \in {"blocked", "dequeue"} /\ StillOn(u, call[s].on[1])'
      <3>1. u \in Threads /\ pc[u] \in {"blocked", "dequeue"} /\ StillOn(u, call[s].on[1])
        BY <2>3 DEF IndInv, TypeOK, Signals
      <3> PICK f \in Events : f = call[s].on[1] /\ f # e
        BY <2>2, <2>3
      <3>2. StillOn(u, f)' /\ pc'[u] \in {"blocked", "dequeue"}
        <4>1. CASE u = t
          BY <1>h, <3>1, <4>1
        <4>2. CASE u # t
          BY <1>i, <3>1, <4>2
        <4> QED BY <4>1, <4>2
      <3>3. f = call'[s].on[1]
        BY <1>c
      <3> QED BY <3>2, <3>3 DEF StillOn
    <2> QED BY <1>c, <2>1, <2>2, <2>3 DEF IndInv, Signals, StillOn
  <1>7. NoLostSignal'
    BY NoneAssumption DEF IndInv, TypeOK, Shape, Result, NoLostSignal,
       StillOn, NoCall, WaitManyDequeues, waiter, history
  <1>8. NoSleeperOnSignaled'
    BY <1>a, <1>q, <1>b, <1>c, <1>d, <1>e, <1>f, <1>g, <1>h, <1>i,
       NoneAssumption DEF IndInv, NoSleeperOnSignaled
  <1>9. SleeperIsQueued'
    <2> SUFFICES ASSUME NEW u \in Threads, pc'[u] = "blocked", ~fired[u],
                        NEW f \in ToSet(call[u].on)
                 PROVE  u \in ToSet(waiters'[f])
      BY <1>c DEF SleeperIsQueued
    <2>1. u # t /\ pc[u] = "blocked" /\ f \in Events
      BY <1>a, <1>c, <1>e, <1>r
    <2> QED BY <1>g, <2>1 DEF IndInv, SleeperIsQueued
  <1> QED BY <1>1, <1>2, <1>3, <1>4, <1>5, <1>6, <1>7, <1>8, <1>9 DEF IndInv

\* WaitReturns preserves the invariant.
LEMMA WaitReturnsStep ==
    ASSUME IndInv, NEW t \in Threads, WaitReturns(t)
    PROVE  IndInv'
  <1>a. \A s \in Threads : t \notin woke[s]
    BY DEF IndInv, Signals, WaitReturns
  <1>b. /\ pc' = [pc EXCEPT ![t] = "idle"] /\ pc[t] = "return"
        /\ call' = [call EXCEPT ![t] = NoCall]
        /\ next' = [next EXCEPT ![t] = 1]
        /\ fired' = [fired EXCEPT ![t] = FALSE]
        /\ UNCHANGED <<waiters, woke>>
    BY DEF WaitReturns, kernel
  <1>c. \A u \in Threads : u # t =>
            /\ pc'[u] = pc[u] /\ call'[u] = call[u] /\ next'[u] = next[u] /\ fired'[u] = fired[u]
            /\ \A f : StillOn(u, f) => StillOn(u, f)'
    BY <1>b DEF IndInv, TypeOK, StillOn
  <1>d. pc'[t] = "idle"
    BY <1>b DEF IndInv, TypeOK
  <1>e. \A f \in Events : t \notin ToSet(waiters[f])
    BY <1>b DEF IndInv, Lists
  <1>1. TypeOK'
    BY NoneAssumption DEF IndInv, TypeOK, Shape, Call, NoCall, PC, WaitOps,
       WaitReturns, kernel
  <1>2. Shape'
    BY NoneAssumption DEF IndInv, TypeOK, Shape, NoCall, WaitOps, Distinct,
       WaitReturns, kernel
  <1>3. Result'
    BY NoneAssumption DEF IndInv, TypeOK, Shape, Result, StillOn, NoCall,
       WaitReturns, kernel
  <1>4. Locks'
    BY NoneAssumption DEF IndInv, TypeOK, Shape, Locks, NoCall, WaitReturns,
       kernel
  <1>5. Lists'
    BY NoneAssumption DEF IndInv, TypeOK, Shape, Lists, Locks, StillOn,
       NoCall, WaitReturns, kernel
  <1>6. Signals'
    <2>1. ASSUME NEW s \in Threads, pc'[s] = "signal", call'[s].on[1] \in ManualReset,
                 NEW i \in DOMAIN waiters[call'[s].on[1]], i < next'[s]
          PROVE  fired'[waiters[call'[s].on[1]][i]]
      <3>1. s # t /\ pc[s] = "signal" /\ call'[s] = call[s] /\ next'[s] = next[s]
        BY <1>c, <1>d, <2>1
      <3>2. waiters[call[s].on[1]][i] \in ToSet(waiters[call[s].on[1]])
        BY <2>1, <3>1 DEF ToSet
      <3>3. call[s].on[1] \in Events
        BY <2>1, <3>1, EventsAssumption
      <3> QED BY <1>c, <1>e, <2>1, <3>1, <3>2, <3>3, QueuedIsThread DEF IndInv, Signals
    <2>2. ASSUME NEW s \in Threads, pc'[s] \in {"signal", "unlock"}, NEW u \in woke[s]
          PROVE  pc'[u] \in {"blocked", "dequeue"} /\ StillOn(u, call[s].on[1])'
      <3>1. s # t /\ u # t /\ u \in Threads /\ pc[s] \in {"signal", "unlock"}
        BY <1>a, <1>c, <1>d, <2>2 DEF IndInv, TypeOK
      <3>2. pc[u] \in {"blocked", "dequeue"} /\ StillOn(u, call[s].on[1])
        BY <2>2, <3>1 DEF IndInv, Signals
      <3> QED BY <1>c, <3>1, <3>2
    <2>3. \A s \in Threads : /\ pc'[s] \in {"signal", "unlock"} => s # t /\ call'[s] = call[s]
                             /\ pc'[s] \notin {"signal", "unlock"} => woke[s] = {}
      BY <1>b, <1>c, <1>d DEF IndInv, Signals
    <2> QED BY <1>b, <2>1, <2>2, <2>3 DEF Signals, StillOn
  <1>7. NoLostSignal'
    BY NoneAssumption DEF IndInv, TypeOK, Shape, Result, NoLostSignal,
       StillOn, NoCall, WaitReturns, kernel
  <1>8. NoSleeperOnSignaled'
    BY EventsAssumption, WaitManyAssumption, NoneAssumption DEF IndInv,
       TypeOK, Shape, Lists, NoSleeperOnSignaled, WaitReturns, kernel, ToSet
  <1>9. SleeperIsQueued'
    BY NoneAssumption DEF IndInv, TypeOK, Shape, SleeperIsQueued, Lists,
       NoCall, WaitReturns, kernel
  <1> QED BY <1>1, <1>2, <1>3, <1>4, <1>5, <1>6, <1>7, <1>8, <1>9 DEF IndInv

------------------------------------------------------------------------------
(* The theorems                                                             *)

\* The constructors leave every event idle, without waiters.
LEMMA InitIndInv == Init => IndInv
  <1> SUFFICES ASSUME Init PROVE IndInv
    OBVIOUS
  <1>1. TypeOK
    BY EventsAssumption DEF Init, TypeOK, Call, NoCall, WaitOps, PC
  <1>2. \A e \in Events : waiters[e] = <<>> /\ lock[e] = None
    BY DEF Init
  <1>3. \A t \in Threads :
            /\ pc[t] = "idle" /\ ~fired[t] /\ signaling_event[t] = None
            /\ next[t] = 1 /\ consumed[t] = {} /\ woke[t] = {}
    BY DEF Init
  <1>4. ToSet(<<>>) = {} /\ Distinct(<<>>)
    BY DEF ToSet, Distinct
  <1>5. Shape /\ Result
    BY <1>3 DEF Shape, Result
  <1>6. Locks /\ Lists
    BY <1>2, <1>3, <1>4, NoneAssumption DEF Locks, Lists
  <1>7. Signals /\ NoLostSignal
    BY <1>3 DEF Signals, NoLostSignal
  <1>8. NoSleeperOnSignaled /\ SleeperIsQueued
    BY <1>2, <1>3, <1>4 DEF NoSleeperOnSignaled, SleeperIsQueued
  <1> QED BY <1>1, <1>5, <1>6, <1>7, <1>8 DEF IndInv

\* A step of somebody else leaves IndInv alone.
LEMMA StutterIndInv == IndInv /\ UNCHANGED vars => IndInv'
  <1> SUFFICES ASSUME IndInv, UNCHANGED vars PROVE IndInv'
    OBVIOUS
  <1> USE DEF vars
  <1>1. TypeOK' /\ Shape' /\ Result' /\ Locks'
    BY DEF IndInv, TypeOK, Shape, Result, Locks, StillOn
  <1>2. Lists' /\ Signals'
    BY DEF IndInv, Lists, Signals, StillOn
  <1>3. NoLostSignal' /\ NoSleeperOnSignaled' /\ SleeperIsQueued'
    BY DEF IndInv, NoLostSignal, NoSleeperOnSignaled, SleeperIsQueued
  <1> QED BY <1>1, <1>2, <1>3 DEF IndInv

\* Whatever a thread does preserves IndInv.
LEMMA NextIndInv == IndInv /\ [Next]_vars => IndInv'
  <1> SUFFICES ASSUME IndInv, [Next]_vars PROVE IndInv'
    OBVIOUS
  <1>1. CASE UNCHANGED vars
    BY <1>1, StutterIndInv
  <1>2. ASSUME NEW t \in Threads, Calls(t) PROVE IndInv'
    <2>1. ASSUME NEW e \in Events, Reset(t, e) PROVE IndInv'
      BY <2>1, ResetStep
    <2>2. ASSUME NEW e \in Events, IsSignaled(t, e) PROVE IndInv'
      BY <2>2, IsSignaledStep
    <2>3. ASSUME NEW e \in Events, SignalBegin(t, e) PROVE IndInv'
      BY <2>3, SignalBeginStep
    <2>4. ASSUME NEW e \in Events, NEW op \in {"Wait", "TimedWait"},
                 WaitTakesSignal(t, e, op)
          PROVE  IndInv'
      BY <2>4, WaitTakesSignalStep
    <2>5. ASSUME NEW e \in Events, NEW op \in {"Wait", "TimedWait"},
                 WaitEnqueues(t, e, op)
          PROVE  IndInv'
      BY <2>5, WaitEnqueuesStep
    <2>6. ASSUME NEW raw \in WaitManyArgs, WaitManyBegin(t, raw) PROVE IndInv'
      BY <2>6, WaitManyBeginStep
    <2> QED BY <1>2, <2>1, <2>2, <2>3, <2>4, <2>5, <2>6 DEF Calls
  <1>3. ASSUME NEW t \in Threads, Continues(t) PROVE IndInv'
    BY <1>3, SignalAllFireStep, SignalAllEndStep, SignalOneFireStep,
       SignalOneNobodyStep, SignalOneEndStep, TimedWaitLeavesLoopStep,
       TimedWaitDequeuesStep, EnqueueManyLocksStep, EnqueueManyTakesSignalStep,
       EnqueueManyEnqueuesStep, WaitManyLeavesLoopStep, WaitManyDequeuesStep,
       WaitReturnsStep
       DEF Continues
  <1> QED BY <1>1, <1>2, <1>3 DEF Next

\* IndInv holds in every reachable state: it is what the code keeps true of
\* the kernels, the lists and the SyncWaiters at every step.
THEOREM Invariant == Spec => []IndInv
  BY InitIndInv, NextIndInv, PTL DEF Spec

\* The state is well formed, and the loops index their arrays in range.
THEOREM TypeCorrect == Spec => []TypeOK
  <1>1. IndInv => TypeOK
    BY DEF IndInv
  <1> QED BY <1>1, Invariant, PTL

\* For any threads and events: a wait returns for exactly the one event whose
\* signal it used up, or, timed out, it used up none.
THEOREM NoSignalIsLost == Spec => []NoLostSignal
  <1>1. IndInv => NoLostSignal
    BY DEF IndInv
  <1> QED BY <1>1, Invariant, PTL

\* For any threads and events: nobody sleeps on a signaled event, and whoever
\* sleeps can be woken by each event it waits for.
THEOREM WakeupsAreNotMissed == Spec => []NoMissedWakeup
  <1>1. IndInv => NoMissedWakeup
    BY DEF IndInv, NoMissedWakeup
  <1> QED BY <1>1, Invariant, PTL

\* For any threads and events: no list points to a SyncWaiter whose wait has
\* returned.
THEOREM NoWaiterDangles == Spec => []NoDanglingWaiter
  <1>1. IndInv => NoDanglingWaiter
    <2> SUFFICES ASSUME IndInv, NEW e \in Events, NEW t \in ToSet(waiters[e])
                 PROVE  pc[t] \in {"blocked", "dequeue"} /\ e \in ToSet(call[t].on)
      BY DEF NoDanglingWaiter
    <2>1. pc[t] \in {"blocked", "dequeue"} /\ StillOn(t, e)
      BY DEF IndInv, Lists
    <2> QED BY <2>1 DEF StillOn, ToSet
  <1> QED BY <1>1, Invariant, PTL

\* For any threads and events: a wait returns only after the Signal that woke
\* it has let go of the event, so the event may then be deleted.
THEOREM WaitReturnsAfterSignal == Spec => []SignalOutlivesNoWait
  <1>1. IndInv => SignalOutlivesNoWait
    BY DEF IndInv, Signals, SignalOutlivesNoWait
  <1> QED BY <1>1, Invariant, PTL

------------------------------------------------------------------------------
(* The order of the locks.                                                  *)

\* Of the locks that a WaitMany needs it holds those of the lowest addresses.
InOrder ==
    \A t \in Threads : pc[t] = "lockall" =>
        \A e, f \in ToSet(call[t].on) : lock[e] = t /\ lock[f] # t => e < f

\* A step of thread t is none of another thread's, whose call and locks it leaves
\* alone; it takes locks for a WaitMany in EnqueueManyLocks only.
LEMMA StepIsLocal ==
    ASSUME IndInv, NEW t \in Threads, Calls(t) \/ Continues(t)
    PROVE  /\ \A u \in Threads : u # t =>
                /\ pc'[u] = pc[u] /\ call'[u] = call[u]
                /\ \A e \in Events : lock'[e] = u <=> lock[e] = u
           /\ \/ pc'[t] # "lockall"
              \/ pc[t] = "idle" /\ lock' = lock
              \/ EnqueueManyLocks(t)
  <1>0. /\ pc \in [Threads -> PC] /\ call \in [Threads -> Call]
        /\ lock \in [Events -> Threads \cup {None}]
        /\ \A u \in Threads : u # None
    BY NoneAssumption DEF IndInv, TypeOK
  <1>1. CASE Calls(t)
    BY <1>0, <1>1 DEF Calls, Reset, IsSignaled, SignalBegin, WaitTakesSignal, WaitEnqueues,
       WaitManyBegin, kernel
  <1>2. CASE SignalAllFire(t) \/ SignalOneFire(t)
    BY <1>0, <1>2 DEF SignalAllFire, SignalOneFire, kernel
  <1>3. CASE SignalAllEnd(t) \/ SignalOneNobody(t) \/ SignalOneEnd(t)
    <2>1. pc[t] \in {"signal", "unlock"} /\ SignalReturns(t)
      BY <1>3 DEF SignalAllEnd, SignalOneNobody, SignalOneEnd
    <2>2. lock[call[t].on[1]] = t /\ lock' = [lock EXCEPT ![call[t].on[1]] = None]
      BY <1>3, <2>1 DEF SignalAllEnd, SignalOneNobody, SignalOneEnd, IndInv, Locks
    <2> QED BY <1>0, <2>1, <2>2 DEF SignalReturns
  <1>4. CASE EnqueueManyLocks(t)
    BY <1>0, <1>4 DEF EnqueueManyLocks
  <1>5. CASE EnqueueManyTakesSignal(t) \/ EnqueueManyEnqueues(t)
    <2>1. lock' = ReleaseAll(t) /\ call' = call
      BY <1>5 DEF EnqueueManyTakesSignal, EnqueueManyEnqueues
    <2>2. \/ pc' = [pc EXCEPT ![t] = "return"]
          \/ pc' = [pc EXCEPT ![t] = "blocked"]
      BY <1>5 DEF EnqueueManyTakesSignal, EnqueueManyEnqueues
    <2> QED BY <1>0, <2>1, <2>2 DEF ReleaseAll
  <1>6. CASE \/ TimedWaitLeavesLoop(t) \/ TimedWaitDequeues(t) \/ WaitManyLeavesLoop(t)
             \/ WaitReturns(t)
    BY <1>0, <1>6 DEF TimedWaitLeavesLoop, TimedWaitDequeues, WaitManyLeavesLoop, WaitReturns,
       kernel
  <1>7. CASE WaitManyDequeues(t)
    <2>1. /\ lock' = lock /\ call' = call /\ pc[t] = "dequeue"
          /\ pc' = [pc EXCEPT ![t] = IF next[t] < Len(call[t].on) THEN pc[t] ELSE "return"]
      BY <1>0, <1>7 DEF WaitManyDequeues
    <2> QED BY <1>0, <2>1
  <1> QED BY <1>1, <1>2, <1>3, <1>4, <1>5, <1>6, <1>7 DEF Continues

\* EnqueueMany takes the lowest lock that it does not have.
LEMMA EnqueueManyLocksInOrder ==
    ASSUME IndInv, InOrder, NEW t \in Threads, EnqueueManyLocks(t)
    PROVE  \A e, f \in ToSet(call'[t].on) : lock'[e] = t /\ lock'[f] # t => e < f
  <1>1. PICK g \in Events : /\ NextToLock(t, g) /\ lock[g] = None
                            /\ lock' = [lock EXCEPT ![g] = t]
    BY DEF EnqueueManyLocks
  <1>2. call' = call /\ pc[t] = "lockall"
    BY DEF EnqueueManyLocks
  <1>3. lock \in [Events -> Threads \cup {None}] /\ call[t].on \in Seq(Events)
    BY DEF IndInv, TypeOK, Call
  <1>4. ASSUME NEW e \in ToSet(call[t].on) PROVE e \in Events /\ e \in Nat
    <2>1. e \in Events
      BY <1>3 DEF ToSet
    <2> QED BY <2>1, EventsAssumption
  <1>5. ASSUME NEW e \in ToSet(call[t].on), NEW f \in ToSet(call[t].on),
               lock'[e] = t, lock'[f] # t
        PROVE  e < f
    <2>1. f # g /\ lock[f] # t
      BY <1>1, <1>3, <1>4, <1>5
    <2>2. CASE e = g
      <3>1. g <= f
        BY <1>1, <2>1 DEF NextToLock, Unlocked
      <3> QED BY <2>1, <2>2, <3>1, <1>4
    <2>3. CASE e # g
      <3>1. lock[e] = t
        BY <1>1, <1>3, <1>4, <1>5, <2>3
      <3> QED BY <2>1, <3>1, <1>2 DEF InOrder
    <2> QED BY <2>2, <2>3
  <1> QED BY <1>2, <1>5

\* Every step keeps the locks in order.
LEMMA NextInOrder == IndInv /\ InOrder /\ [Next]_vars => InOrder'
  <1> SUFFICES ASSUME IndInv, InOrder, [Next]_vars PROVE InOrder'
    OBVIOUS
  <1>1. CASE UNCHANGED vars
    BY <1>1 DEF InOrder, vars
  <1>2. ASSUME NEW t \in Threads, Calls(t) \/ Continues(t) PROVE InOrder'
    <2> SUFFICES ASSUME NEW u \in Threads, pc'[u] = "lockall",
                        NEW e \in ToSet(call'[u].on), NEW f \in ToSet(call'[u].on),
                        lock'[e] = u, lock'[f] # u
                 PROVE  e < f
      BY DEF InOrder
    <2>1. CASE u # t
      <3>1. /\ pc[u] = "lockall" /\ call'[u] = call[u]
            /\ \A d \in Events : lock'[d] = u <=> lock[d] = u
        BY <1>2, <2>1, StepIsLocal
      <3>2. call[u].on \in Seq(Events)
        BY DEF IndInv, TypeOK, Call
      <3>3. e \in Events /\ f \in Events /\ e \in ToSet(call[u].on) /\ f \in ToSet(call[u].on)
        BY <3>1, <3>2 DEF ToSet
      <3> QED BY <3>1, <3>3 DEF InOrder
    <2>2. CASE u = t /\ pc[t] = "idle" /\ lock' = lock
      <3>1. call'[u].on \in Seq(Events)
        BY <1>2, NextIndInv DEF IndInv, TypeOK, Call
      <3>2. e \in Events
        BY <3>1 DEF ToSet
      <3> QED BY <2>2, <3>2 DEF IndInv, Locks
    <2>3. CASE u = t /\ EnqueueManyLocks(t)
      BY <2>3, EnqueueManyLocksInOrder
    <2> QED BY <1>2, <2>1, <2>2, <2>3, StepIsLocal
  <1> QED BY <1>1, <1>2 DEF Next

\* For any threads and any finite set of events, whatever orders the callers of
\* WaitMany pass: among threads that wait for each other's event locks there is one
\* that none of them holds up.
THEOREM LocksNeverCycle == Spec => []NoLockCycle
  <1>1. Init => InOrder
    BY DEF Init, InOrder
  <1>2. ASSUME IndInv, InOrder PROVE NoLockCycle
    <2> SUFFICES ASSUME NEW S \in SUBSET Threads, S # {},
                        \A t \in S : \E u \in S : WaitsForLock(t, u)
                 PROVE  FALSE
      BY DEF NoLockCycle
    <2> DEFINE Wants(t, e) ==
                 \/ pc[t] = "lockall" /\ NextToLock(t, e)
                 \/ pc[t] = "dequeue" /\ e = call[t].on[next[t]]
               E == {e \in Events : \E t \in S, u \in S : Wants(t, e) /\ lock[e] = u}
    <2>1. ASSUME NEW t \in S
          PROVE  \E e \in E : Wants(t, e)
      <3>1. PICK u \in S : WaitsForLock(t, u)
        OBVIOUS
      <3>2. \E e \in Events : Wants(t, e) /\ lock[e] = u
        <4>1. CASE pc[t] = "dequeue"
          <5>1. call[t].on[next[t]] \in Events
            <6>1. call[t].on \in Seq(Events) /\ next[t] \in DOMAIN call[t].on
              BY <1>2, <4>1 DEF IndInv, TypeOK, Call
            <6> QED BY <6>1
          <5> QED BY <3>1, <4>1, <5>1 DEF WaitsForLock
        <4> QED BY <3>1, <4>1 DEF WaitsForLock
      <3> QED BY <3>1, <3>2
    <2>2. E # {}
      BY <2>1
    <2>3. E \in SUBSET Events /\ E \subseteq Nat
      BY EventsAssumption
    <2>4. IsFiniteSet(E)
      BY <2>3, FS_Subset, AddressesAssumption
    <2> HIDE DEF E
    <2>5. PICK e \in E : \A f \in E : f <= e
      BY <2>2, <2>3, <2>4, FiniteHasGreatest
    <2>6. PICK u \in S : lock[e] = u
      BY DEF E
    <2>7. PICK f \in E : Wants(u, f)
      BY <2>1
    <2>8. e \in Events /\ f \in Events /\ e \in Nat /\ f \in Nat
      BY <2>3
    <2>9. pc[u] = "lockall" /\ e \in ToSet(call[u].on)
      BY <1>2, <2>6, <2>7, <2>8 DEF IndInv, Locks
    <2>10. f \in ToSet(call[u].on) /\ lock[f] # u
      BY <2>7, <2>9 DEF NextToLock, Unlocked
    <2>11. e < f
      BY <1>2, <2>6, <2>9, <2>10 DEF InOrder
    <2> QED BY <2>5, <2>8, <2>11
  <1> QED BY <1>1, <1>2, Invariant, NextInOrder, PTL DEF Spec
==============================================================================
