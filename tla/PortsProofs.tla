----------------------------- MODULE PortsProofs -----------------------------
(***************************************************************************)
(* The handlers and the actions of Ports preserve the invariant, and what   *)
(* follows from it.                                                         *)
(***************************************************************************)
EXTENDS PortsFacts

-----------------------------------------------------------------------------
(* The places of the events.                                                *)

\* The events in a family q of queues, by queue and position.
Toks(q) ==
    [x \in UNION {{<<i, k>> : k \in DOMAIN q[i]} : i \in DOMAIN q} |-> q[x[1]][x[2]]]

\* The queues of the system, and the events a handler has forwarded so far.
Slots == ({"stack"} \X Nodes \X Threads) \cup ({"chan"} \X Nodes \X Nodes)
Out == <<"out", 0, 0>>
Queues(st, ch) ==
    [i \in Slots |-> IF i[1] = "stack" THEN st[i[2]][i[3]] ELSE ch[i[2]][i[3]]]
With(q, out) == [i \in DOMAIN q \cup {Out} |-> IF i = Out THEN out ELSE q[i]]

\* The same events at other places.
Renames(f, E2, E) ==
    /\ \A x \in DOMAIN E2 : f[x] \in DOMAIN E /\ E2[x] = E[f[x]]
    /\ \A x, y \in DOMAIN E2 : f[x] = f[y] => x = y
    /\ \A y \in DOMAIN E : \E x \in DOMAIN E2 : f[x] = y

\* Where the events are does not matter.
LEMMA Rename ==
    ASSUME NEW P, NEW N, NEW H, NEW C, NEW M, NEW G, NEW E, NEW S, NEW R, NEW V, NEW d, NEW o,
           Safe(P, N, H, C, M, G, E, S, R, V, d, o),
           NEW E2, NEW f, Renames(f, E2, E)
    PROVE  Safe(P, N, H, C, M, G, E2, S, R, V, d, o)
  <1>1. WellTyped(P, N, H, C, M, G, E2, S, R, d, o)
    BY DEF Safe, WellTyped, Renames
  <1>2. Carry(P, H, E2)
    BY DEF Safe, Carry, Renames
  <1>3. Moves(P, E2)
    <2>1. \A a : NotUnborn(E, a) => NotUnborn(E2, a)
      BY DEF NotUnborn, Renames
    <2>2. \A a : Announced(P, E, a) => Announced(P, E2, a)
      BY <2>1 DEF Announced
    <2> QED BY <2>2 DEF Safe, Moves, Renames
  <1>4. Single(P, E2, C, G)
    BY DEF Safe, Single, Renames
  <1>5. Routes(P, E2, M, G, d, o)
    BY DEF Safe, Routes, Renames
  <1>6. Numbers(P, E2, S, R, M, G)
    BY DEF Safe, Numbers, Renames
  <1>7. Closures(P, E2, S, M, C, G, d, o)
    BY DEF Safe, Closures, Renames
  <1>8. Notified(P, E2, C, V)
    BY DEF Safe, Notified, Renames
  <1> QED BY <1>1, <1>2, <1>3, <1>4, <1>5, <1>6, <1>7, <1>8 DEF Safe

\* Two ways to add the same event.
LEMMA Swap ==
    ASSUME NEW P, NEW N, NEW H, NEW C, NEW M, NEW G, NEW E, NEW S, NEW R, NEW V, NEW d, NEW o,
           NEW E1, NEW x, NEW e, Extends(E1, E, x, e),
           Safe(P, N, H, C, M, G, E1, S, R, V, d, o),
           NEW E2, NEW y, Extends(E2, E, y, e)
    PROVE  Safe(P, N, H, C, M, G, E2, S, R, V, d, o)
  <1> DEFINE f == [z \in DOMAIN E2 |-> IF z = y THEN x ELSE z]
  <1>1. \A z \in DOMAIN E2 : f[z] = IF z = y THEN x ELSE z
    OBVIOUS
  <1> HIDE DEF f
  <1>2. Renames(f, E2, E1)
    BY <1>1 DEF Renames, Extends
  <1> QED BY <1>2, Rename

\* The events in a family of queues.
LEMMA ToksFacts ==
    ASSUME NEW q
    PROVE  /\ \A x : x \in DOMAIN Toks(q) <=>
                 \E i \in DOMAIN q : \E k \in DOMAIN q[i] : x = <<i, k>>
           /\ \A i \in DOMAIN q : \A k \in DOMAIN q[i] :
                 <<i, k>> \in DOMAIN Toks(q) /\ Toks(q)[<<i, k>>] = q[i][k]
  BY DEF Toks

\* Writing to a queue adds an event.
LEMMA Push ==
    ASSUME NEW q, NEW i \in DOMAIN q, NEW T, q[i] \in Seq(T), NEW e \in T,
           NEW q2, DOMAIN q2 = DOMAIN q, \A j \in DOMAIN q \ {i} : q2[j] = q[j],
           q2[i] = Append(q[i], e)
    PROVE  Extends(Toks(q2), Toks(q), <<i, Len(q[i]) + 1>>, e)
  <1> PICK n \in Nat : n = Len(q[i])
    OBVIOUS
  <1>1. DOMAIN q[i] = 1 .. n
    OBVIOUS
  <1>2. /\ DOMAIN q2[i] = (DOMAIN q[i]) \cup {n + 1}
        /\ n + 1 \notin DOMAIN q[i]
        /\ q2[i][n + 1] = e
        /\ \A k \in DOMAIN q[i] : q2[i][k] = q[i][k]
    BY <1>1, AppendProperties
  <1> DEFINE x == <<i, n + 1>>
  <1>3. x \notin DOMAIN Toks(q)
    BY <1>2, ToksFacts
  <1>4. DOMAIN Toks(q2) = DOMAIN Toks(q) \cup {x}
    <2>1. \A y : y \in DOMAIN Toks(q2) <=> y \in DOMAIN Toks(q) \/ y = x
      <3>1. ASSUME NEW y, y \in DOMAIN Toks(q2) PROVE y \in DOMAIN Toks(q) \/ y = x
        <4>1. PICK j \in DOMAIN q2 : \E k \in DOMAIN q2[j] : y = <<j, k>>
          BY <3>1, ToksFacts
        <4>2. PICK k \in DOMAIN q2[j] : y = <<j, k>>
          BY <4>1
        <4> QED BY <4>1, <4>2, <1>2, ToksFacts
      <3>2. ASSUME NEW y, y \in DOMAIN Toks(q) PROVE y \in DOMAIN Toks(q2)
        <4>1. PICK j \in DOMAIN q : \E k \in DOMAIN q[j] : y = <<j, k>>
          BY <3>2, ToksFacts
        <4>2. PICK k \in DOMAIN q[j] : y = <<j, k>>
          BY <4>1
        <4>3. j \in DOMAIN q2 /\ k \in DOMAIN q2[j]
          BY <4>1, <4>2, <1>2
        <4> QED BY <4>2, <4>3, ToksFacts
      <3>3. x \in DOMAIN Toks(q2)
        BY <1>2, ToksFacts
      <3> QED BY <3>1, <3>2, <3>3
    <2> QED BY <2>1
  <1>5. Toks(q2)[x] = e
    BY <1>2, ToksFacts
  <1>6. ASSUME NEW y \in DOMAIN Toks(q) PROVE Toks(q2)[y] = Toks(q)[y]
    <2>1. PICK j \in DOMAIN q : \E k \in DOMAIN q[j] : y = <<j, k>>
      BY ToksFacts
    <2>2. PICK k \in DOMAIN q[j] : y = <<j, k>>
      BY <2>1
    <2>3. j \in DOMAIN q2 /\ k \in DOMAIN q2[j] /\ q2[j][k] = q[j][k]
      BY <1>2, <2>1, <2>2
    <2> QED BY <2>2, <2>3, ToksFacts
  <1> QED BY <1>3, <1>4, <1>5, <1>6 DEF Extends

\* The events of a queue, and those of its tail with its head apart.
LEMMA PopRenames ==
    ASSUME NEW q, NEW i \in DOMAIN q, NEW n \in Nat, n # 0, DOMAIN q[i] = 1 .. n,
           NEW q2, DOMAIN q2 = DOMAIN q, \A j \in DOMAIN q \ {i} : q2[j] = q[j],
           DOMAIN q2[i] = 1 .. (n - 1), \A k \in 1 .. (n - 1) : q2[i][k] = q[i][k + 1],
           NEW e, e = q[i][1]
    PROVE  \E E1, x, f : Extends(E1, Toks(q2), x, e) /\ Renames(f, E1, Toks(q))
  <1>1. n # 0 /\ DOMAIN q[i] = 1 .. n
    OBVIOUS
  <1>2. /\ DOMAIN q2[i] = 1 .. (n - 1)
        /\ \A k \in 1 .. (n - 1) : q2[i][k] = q[i][k + 1]
        /\ e = q[i][1]
    OBVIOUS
  <1> DEFINE x == <<i, n>>
             E1 == [y \in DOMAIN Toks(q2) \cup {x} |-> IF y = x THEN e ELSE Toks(q2)[y]]
             f == [y \in DOMAIN E1 |-> IF y = x THEN <<i, 1>>
                                       ELSE IF y[1] = i THEN <<i, y[2] + 1>> ELSE y]
  <1>3. x \notin DOMAIN Toks(q2)
    <2>1. n \notin 1 .. (n - 1)
      OBVIOUS
    <2> QED BY <1>2, <2>1, ToksFacts
  <1>4. Extends(E1, Toks(q2), x, e)
    BY <1>3 DEF Extends
  <1>5. Renames(f, E1, Toks(q))
    <2>a. \A y \in DOMAIN E1 :
             \/ y = x
             \/ y # x /\ \E k \in 1 .. (n - 1) : y = <<i, k>>
             \/ y # x /\ \E j \in DOMAIN q \ {i} : \E k \in DOMAIN q[j] : y = <<j, k>>
      <3>1. SUFFICES ASSUME NEW y \in DOMAIN Toks(q2)
                     PROVE  \/ \E k \in 1 .. (n - 1) : y = <<i, k>>
                            \/ \E j \in DOMAIN q \ {i} : \E k \in DOMAIN q[j] : y = <<j, k>>
        BY <1>3
      <3>2. PICK j \in DOMAIN q2 : \E k \in DOMAIN q2[j] : y = <<j, k>>
        BY ToksFacts
      <3> QED BY <1>2, <3>2
    <2>b. /\ x \in DOMAIN E1 /\ f[x] = <<i, 1>> /\ E1[x] = e
          /\ \A k \in 1 .. (n - 1) : /\ <<i, k>> \in DOMAIN E1 /\ f[<<i, k>>] = <<i, k + 1>>
                                     /\ E1[<<i, k>>] = q[i][k + 1]
          /\ \A j \in DOMAIN q \ {i} : \A k \in DOMAIN q[j] :
                /\ <<j, k>> \in DOMAIN E1 /\ f[<<j, k>>] = <<j, k>>
                /\ E1[<<j, k>>] = q[j][k]
      <3>1. x \in DOMAIN E1 /\ f[x] = <<i, 1>> /\ E1[x] = e
        OBVIOUS
      <3>2. ASSUME NEW k \in 1 .. (n - 1)
            PROVE  /\ <<i, k>> \in DOMAIN E1 /\ f[<<i, k>>] = <<i, k + 1>>
                   /\ E1[<<i, k>>] = q[i][k + 1]
        <4>1. /\ <<i, k>> \in DOMAIN Toks(q2) /\ Toks(q2)[<<i, k>>] = q[i][k + 1]
              /\ <<i, k>> # x
          BY <1>2, ToksFacts
        <4> QED BY <4>1
      <3>3. ASSUME NEW j \in DOMAIN q \ {i}, NEW k \in DOMAIN q[j]
            PROVE  /\ <<j, k>> \in DOMAIN E1 /\ f[<<j, k>>] = <<j, k>>
                   /\ E1[<<j, k>>] = q[j][k]
        <4>1. /\ <<j, k>> \in DOMAIN Toks(q2) /\ Toks(q2)[<<j, k>>] = q[j][k]
              /\ <<j, k>> # x
          BY ToksFacts
        <4> QED BY <4>1
      <3> QED BY <3>1, <3>2, <3>3
    <2> HIDE DEF f, E1
    <2>1. \A k \in 1 .. (n - 1) : k + 1 \in 1 .. n
      OBVIOUS
    <2>2. \A y \in DOMAIN E1 : f[y] \in DOMAIN Toks(q) /\ E1[y] = Toks(q)[f[y]]
      <3> SUFFICES ASSUME NEW y \in DOMAIN E1
                   PROVE  f[y] \in DOMAIN Toks(q) /\ E1[y] = Toks(q)[f[y]]
        OBVIOUS
      <3>1. CASE y = x
        BY <1>1, <1>2, <2>b, <3>1, ToksFacts
      <3>2. ASSUME NEW k \in 1 .. (n - 1), y = <<i, k>>
            PROVE  f[y] \in DOMAIN Toks(q) /\ E1[y] = Toks(q)[f[y]]
        <4>1. k + 1 \in DOMAIN q[i]
          BY <1>1, <2>1
        <4>2. <<i, k + 1>> \in DOMAIN Toks(q) /\ Toks(q)[<<i, k + 1>>] = q[i][k + 1]
          BY <4>1, ToksFacts
        <4>3. f[<<i, k>>] = <<i, k + 1>> /\ E1[<<i, k>>] = q[i][k + 1]
          BY <2>b, Zenon
        <4> QED BY <3>2, <4>2, <4>3, Zenon
      <3>3. ASSUME NEW j \in DOMAIN q \ {i}, NEW k \in DOMAIN q[j], y = <<j, k>>
            PROVE  f[y] \in DOMAIN Toks(q) /\ E1[y] = Toks(q)[f[y]]
        BY <2>b, <3>3, ToksFacts
      <3> QED BY <2>a, <3>1, <3>2, <3>3
    <2>3. ASSUME NEW y \in DOMAIN E1, NEW z \in DOMAIN E1, f[y] = f[z] PROVE y = z
      <3>1. \A k \in 1 .. (n - 1) : k \in Nat /\ k + 1 # 1
        OBVIOUS
      <3> DEFINE Head1(u) == u = x /\ f[u] = <<i, 1>>
                 Tail1(u) == \E k \in 1 .. (n - 1) : u = <<i, k>> /\ f[u] = <<i, k + 1>>
                 Rest(u) == \E j \in DOMAIN q \ {i} : \E k \in DOMAIN q[j] :
                                u = <<j, k>> /\ f[u] = <<j, k>>
      <3>2. \A u \in DOMAIN E1 : Head1(u) \/ Tail1(u) \/ Rest(u)
        <4> SUFFICES ASSUME NEW u \in DOMAIN E1 PROVE Head1(u) \/ Tail1(u) \/ Rest(u)
          OBVIOUS
        <4>1. f[x] = <<i, 1>>
          BY <2>b
        <4>2. \A k \in 1 .. (n - 1) : f[<<i, k>>] = <<i, k + 1>>
          BY <2>b, Zenon
        <4>3. \A j \in DOMAIN q \ {i} : \A k \in DOMAIN q[j] : f[<<j, k>>] = <<j, k>>
          BY <2>b, Zenon
        <4> HIDE DEF x
        <4>4. CASE u = x
          BY <4>1, <4>4
        <4>5. CASE \E k \in 1 .. (n - 1) : u = <<i, k>>
          BY <4>2, <4>5, Zenon
        <4>6. CASE \E j \in DOMAIN q \ {i} : \E k \in DOMAIN q[j] : u = <<j, k>>
          BY <4>3, <4>6, Zenon
        <4>7. \/ u = x
              \/ \E k \in 1 .. (n - 1) : u = <<i, k>>
              \/ \E j \in DOMAIN q \ {i} : \E k \in DOMAIN q[j] : u = <<j, k>>
          BY <2>a, Zenon
        <4> QED BY <4>4, <4>5, <4>6, <4>7, Zenon
      <3> HIDE DEF x
      <3>3. Tail1(y) /\ Tail1(z) => y = z
        BY <2>3
      <3>4. Rest(y) /\ Rest(z) => y = z
        BY <2>3
      <3>5. ~(Head1(y) /\ Tail1(z)) /\ ~(Tail1(y) /\ Head1(z))
        BY <2>3, <3>1
      <3>6. ~(Head1(y) /\ Rest(z)) /\ ~(Rest(y) /\ Head1(z))
        BY <2>3
      <3>7. ~(Tail1(y) /\ Rest(z)) /\ ~(Rest(y) /\ Tail1(z))
        BY <2>3
      <3>8. Head1(y) /\ Head1(z) => y = z
        OBVIOUS
      <3> HIDE DEF Head1, Tail1, Rest
      <3> QED BY <3>2, <3>3, <3>4, <3>5, <3>6, <3>7, <3>8
    <2>4. ASSUME NEW y \in DOMAIN Toks(q) PROVE \E z \in DOMAIN E1 : f[z] = y
      <3>1. PICK j \in DOMAIN q : \E k \in DOMAIN q[j] : y = <<j, k>>
        BY ToksFacts
      <3>2. PICK k \in DOMAIN q[j] : y = <<j, k>>
        BY <3>1
      <3>3. CASE j # i
        BY <2>b, <3>2, <3>3
      <3>4. CASE j = i /\ k = 1
        BY <2>b, <3>2, <3>4
      <3>5. CASE j = i /\ k # 1
        <4>1. k - 1 \in 1 .. (n - 1) /\ (k - 1) + 1 = k
          BY <1>1, <3>2, <3>5
        <4> QED BY <2>b, <3>2, <3>5, <4>1
      <3> QED BY <3>3, <3>4, <3>5
    <2> QED BY <2>2, <2>3, <2>4 DEF Renames
  <1> HIDE DEF E1, f, x
  <1> QED BY <1>4, <1>5

\* Taking the first event of a queue leaves it in hand.
LEMMA Pop ==
    ASSUME NEW P, NEW N, NEW H, NEW C, NEW M, NEW G, NEW S, NEW R, NEW V, NEW d, NEW o,
           NEW q, NEW i \in DOMAIN q, NEW T, q[i] \in Seq(T), q[i] # << >>,
           Safe(P, N, H, C, M, G, Toks(q), S, R, V, d, o),
           NEW q2, DOMAIN q2 = DOMAIN q, \A j \in DOMAIN q \ {i} : q2[j] = q[j],
           q2[i] = Tail(q[i]),
           NEW e, e = Head(q[i])
    PROVE  \E E1, x : /\ Extends(E1, Toks(q2), x, e)
                      /\ Safe(P, N, H, C, M, G, E1, S, R, V, d, o)
  <1>0. PICK n \in Nat : n = Len(q[i])
    OBVIOUS
  <1>1. n # 0 /\ DOMAIN q[i] = 1 .. n
    BY <1>0, EmptySeq
  <1>2. /\ DOMAIN q2[i] = 1 .. (n - 1)
        /\ \A k \in 1 .. (n - 1) : q2[i][k] = q[i][k + 1]
        /\ e = q[i][1]
    BY <1>0, <1>1, HeadTailProperties
  <1>3. PICK E1, x, f : Extends(E1, Toks(q2), x, e) /\ Renames(f, E1, Toks(q))
    BY <1>1, <1>2, PopRenames
  <1>4. Safe(P, N, H, C, M, G, E1, S, R, V, d, o)
    BY <1>3, Rename
  <1> QED BY <1>3, <1>4

\* The events of a queue with others before them.
LEMMA LandRenames ==
    ASSUME NEW q, NEW i \in DOMAIN q, Out \notin DOMAIN q, NEW out,
           NEW n \in Nat, NEW l \in Nat, DOMAIN q[i] = 1 .. n, DOMAIN out = 1 .. l,
           NEW q2, DOMAIN q2 = DOMAIN q, \A j \in DOMAIN q \ {i} : q2[j] = q[j],
           DOMAIN q2[i] = 1 .. (l + n),
           \A k \in 1 .. l : q2[i][k] = out[k],
           \A k \in 1 .. n : q2[i][l + k] = q[i][k]
    PROVE  \E f : Renames(f, Toks(q2), Toks(With(q, out)))
  <1>1. /\ DOMAIN q[i] = 1 .. n /\ DOMAIN out = 1 .. l /\ DOMAIN q2[i] = 1 .. (l + n)
        /\ \A k \in 1 .. l : q2[i][k] = out[k]
        /\ \A k \in 1 .. n : q2[i][l + k] = q[i][k]
    OBVIOUS
  <1> DEFINE W == With(q, out)
  <1>2. /\ DOMAIN W = DOMAIN q \cup {Out}
        /\ W[Out] = out
        /\ \A j \in DOMAIN q : W[j] = q[j]
    BY DEF With
  <1> HIDE DEF W
  <1> DEFINE f == [y \in DOMAIN Toks(q2) |->
                     IF y[1] # i THEN y
                     ELSE IF y[2] <= l THEN <<Out, y[2]>> ELSE <<i, y[2] - l>>]
  <1>a. \A y \in DOMAIN Toks(q2) :
           \/ \E k \in 1 .. l : y = <<i, k>>
           \/ \E k \in 1 .. n : y = <<i, l + k>>
           \/ \E j \in DOMAIN q \ {i} : \E k \in DOMAIN q[j] : y = <<j, k>>
    <2>1. SUFFICES ASSUME NEW y \in DOMAIN Toks(q2)
                   PROVE  \/ \E k \in 1 .. l : y = <<i, k>>
                          \/ \E k \in 1 .. n : y = <<i, l + k>>
                          \/ \E j \in DOMAIN q \ {i} : \E k \in DOMAIN q[j] : y = <<j, k>>
      OBVIOUS
    <2>2. PICK j \in DOMAIN q2 : \E k \in DOMAIN q2[j] : y = <<j, k>>
      BY ToksFacts
    <2>3. PICK k \in DOMAIN q2[j] : y = <<j, k>>
      BY <2>2
    <2>4. CASE j # i
      BY <2>2, <2>3, <2>4
    <2>5. CASE j = i
      <3>1. k \in 1 .. (l + n)
        BY <1>1, <2>5
      <3>2. k \in 1 .. l \/ (k - l \in 1 .. n /\ l + (k - l) = k)
        BY <3>1
      <3> QED BY <2>3, <2>5, <3>2
    <2> QED BY <2>4, <2>5
  <1>b. /\ \A k \in 1 .. l : /\ <<i, k>> \in DOMAIN Toks(q2) /\ f[<<i, k>>] = <<Out, k>>
                             /\ Toks(q2)[<<i, k>>] = out[k]
        /\ \A k \in 1 .. n : /\ <<i, l + k>> \in DOMAIN Toks(q2)
                             /\ f[<<i, l + k>>] = <<i, k>>
                             /\ Toks(q2)[<<i, l + k>>] = q[i][k]
        /\ \A j \in DOMAIN q \ {i} : \A k \in DOMAIN q[j] :
              /\ <<j, k>> \in DOMAIN Toks(q2) /\ f[<<j, k>>] = <<j, k>>
              /\ Toks(q2)[<<j, k>>] = q[j][k]
    <2>1. ASSUME NEW k \in 1 .. l
          PROVE  /\ <<i, k>> \in DOMAIN Toks(q2) /\ f[<<i, k>>] = <<Out, k>>
                 /\ Toks(q2)[<<i, k>>] = out[k]
      <3>1. k \in 1 .. (l + n) /\ k <= l
        OBVIOUS
      <3>2. <<i, k>> \in DOMAIN Toks(q2) /\ Toks(q2)[<<i, k>>] = out[k]
        BY <1>1, <3>1, ToksFacts
      <3> QED BY <3>1, <3>2
    <2>2. ASSUME NEW k \in 1 .. n
          PROVE  /\ <<i, l + k>> \in DOMAIN Toks(q2)
                 /\ f[<<i, l + k>>] = <<i, k>>
                 /\ Toks(q2)[<<i, l + k>>] = q[i][k]
      <3>1. l + k \in 1 .. (l + n) /\ ~(l + k <= l) /\ (l + k) - l = k
        OBVIOUS
      <3>2. <<i, l + k>> \in DOMAIN Toks(q2) /\ Toks(q2)[<<i, l + k>>] = q[i][k]
        BY <1>1, <3>1, ToksFacts
      <3> QED BY <3>1, <3>2
    <2>3. ASSUME NEW j \in DOMAIN q \ {i}, NEW k \in DOMAIN q[j]
          PROVE  /\ <<j, k>> \in DOMAIN Toks(q2) /\ f[<<j, k>>] = <<j, k>>
                 /\ Toks(q2)[<<j, k>>] = q[j][k]
      <3>1. <<j, k>> \in DOMAIN Toks(q2) /\ Toks(q2)[<<j, k>>] = q[j][k]
        BY ToksFacts
      <3> QED BY <3>1
    <2> QED BY <2>1, <2>2, <2>3
  <1> HIDE DEF f
  <1>c. /\ \A k \in 1 .. l : /\ <<Out, k>> \in DOMAIN Toks(W)
                             /\ Toks(W)[<<Out, k>>] = out[k]
        /\ \A j \in DOMAIN q : \A k \in DOMAIN q[j] :
              <<j, k>> \in DOMAIN Toks(W) /\ Toks(W)[<<j, k>>] = q[j][k]
    <2>1. ASSUME NEW k \in 1 .. l
          PROVE  <<Out, k>> \in DOMAIN Toks(W) /\ Toks(W)[<<Out, k>>] = out[k]
      <3>1. Out \in DOMAIN W /\ k \in DOMAIN W[Out]
        BY <1>1, <1>2
      <3> QED BY <3>1, <1>2, ToksFacts
    <2>2. ASSUME NEW j \in DOMAIN q, NEW k \in DOMAIN q[j]
          PROVE  <<j, k>> \in DOMAIN Toks(W) /\ Toks(W)[<<j, k>>] = q[j][k]
      <3>1. j \in DOMAIN W /\ k \in DOMAIN W[j]
        BY <1>2
      <3> QED BY <3>1, <1>2, ToksFacts
    <2> QED BY <2>1, <2>2
  <1>3. Renames(f, Toks(q2), Toks(W))
    <2>1. \A y \in DOMAIN Toks(q2) : f[y] \in DOMAIN Toks(W) /\ Toks(q2)[y] = Toks(W)[f[y]]
      <3> SUFFICES ASSUME NEW y \in DOMAIN Toks(q2)
                   PROVE  f[y] \in DOMAIN Toks(W) /\ Toks(q2)[y] = Toks(W)[f[y]]
        OBVIOUS
      <3>1. ASSUME NEW k \in 1 .. l, y = <<i, k>>
            PROVE  f[y] \in DOMAIN Toks(W) /\ Toks(q2)[y] = Toks(W)[f[y]]
        BY <1>b, <1>c, <3>1
      <3>2. ASSUME NEW k \in 1 .. n, y = <<i, l + k>>
            PROVE  f[y] \in DOMAIN Toks(W) /\ Toks(q2)[y] = Toks(W)[f[y]]
        <4>1. f[y] = <<i, k>> /\ Toks(q2)[y] = q[i][k]
          BY <1>b, <3>2
        <4>2. k \in DOMAIN q[i]
          BY <1>1
        <4> QED BY <1>c, <4>1, <4>2
      <3>3. ASSUME NEW j \in DOMAIN q \ {i}, NEW k \in DOMAIN q[j], y = <<j, k>>
            PROVE  f[y] \in DOMAIN Toks(W) /\ Toks(q2)[y] = Toks(W)[f[y]]
        <4>1. <<j, k>> \in DOMAIN Toks(W) /\ Toks(W)[<<j, k>>] = q[j][k]
          BY <1>c
        <4>2. f[<<j, k>>] = <<j, k>> /\ Toks(q2)[<<j, k>>] = q[j][k]
          BY <1>b, Zenon
        <4> QED BY <3>3, <4>1, <4>2, Zenon
      <3> QED BY <1>a, <3>1, <3>2, <3>3
    <2>2. ASSUME NEW y \in DOMAIN Toks(q2), NEW z \in DOMAIN Toks(q2), f[y] = f[z]
          PROVE  y = z
      <3>1. \A j \in DOMAIN q : j # Out
        OBVIOUS
      <3> DEFINE Earlier(u) == \E k \in 1 .. l : u = <<i, k>> /\ f[u] = <<Out, k>>
                 Later(u) == \E k \in 1 .. n : u = <<i, l + k>> /\ f[u] = <<i, k>>
                 Rest(u) == \E j \in DOMAIN q \ {i} : \E k \in DOMAIN q[j] :
                                u = <<j, k>> /\ f[u] = <<j, k>>
      <3>2. \A u \in DOMAIN Toks(q2) : Earlier(u) \/ Later(u) \/ Rest(u)
        <4> SUFFICES ASSUME NEW u \in DOMAIN Toks(q2) PROVE Earlier(u) \/ Later(u) \/ Rest(u)
          OBVIOUS
        <4>1. \A k \in 1 .. l : f[<<i, k>>] = <<Out, k>>
          BY <1>b, Zenon
        <4>2. \A k \in 1 .. n : f[<<i, l + k>>] = <<i, k>>
          BY <1>b, Zenon
        <4>3. \A j \in DOMAIN q \ {i} : \A k \in DOMAIN q[j] : f[<<j, k>>] = <<j, k>>
          BY <1>b, Zenon
        <4>4. CASE \E k \in 1 .. l : u = <<i, k>>
          BY <4>1, <4>4, Zenon
        <4>5. CASE \E k \in 1 .. n : u = <<i, l + k>>
          BY <4>2, <4>5, Zenon
        <4>6. CASE \E j \in DOMAIN q \ {i} : \E k \in DOMAIN q[j] : u = <<j, k>>
          BY <4>3, <4>6, Zenon
        <4> QED BY <1>a, <4>4, <4>5, <4>6, Zenon
      <3> HIDE DEF Out
      <3>3. Earlier(y) /\ Earlier(z) => y = z
        BY <2>2
      <3>4. Later(y) /\ Later(z) => y = z
        BY <2>2
      <3>5. Rest(y) /\ Rest(z) => y = z
        BY <2>2
      <3>6. ~(Earlier(y) /\ Later(z)) /\ ~(Later(y) /\ Earlier(z))
        BY <2>2, <3>1
      <3>7. ~(Earlier(y) /\ Rest(z)) /\ ~(Rest(y) /\ Earlier(z))
        BY <2>2, <3>1
      <3>8. ~(Later(y) /\ Rest(z)) /\ ~(Rest(y) /\ Later(z))
        BY <2>2, <3>1
      <3> HIDE DEF Earlier, Later, Rest
      <3> QED BY <3>2, <3>3, <3>4, <3>5, <3>6, <3>7, <3>8
    <2>3. ASSUME NEW y \in DOMAIN Toks(W) PROVE \E z \in DOMAIN Toks(q2) : f[z] = y
      <3>1. PICK j \in DOMAIN W : \E k \in DOMAIN W[j] : y = <<j, k>>
        BY ToksFacts
      <3>2. PICK k \in DOMAIN W[j] : y = <<j, k>>
        BY <3>1
      <3>3. CASE j = Out
        BY <1>1, <1>2, <1>b, <3>2, <3>3
      <3>4. CASE j = i
        BY <1>1, <1>2, <1>b, <3>2, <3>4
      <3>5. CASE j # Out /\ j # i
        BY <1>2, <1>b, <3>2, <3>5
      <3> QED BY <3>3, <3>4, <3>5
    <2> QED BY <2>1, <2>2, <2>3 DEF Renames
  <1> QED BY <1>3 DEF W

\* When a handler ends, its events come before those of its queue.
LEMMA Land ==
    ASSUME NEW P, NEW N, NEW H, NEW C, NEW M, NEW G, NEW S, NEW R, NEW V, NEW d, NEW o,
           NEW q, NEW i \in DOMAIN q, Out \notin DOMAIN q,
           NEW T, q[i] \in Seq(T), NEW out, out \in Seq(T),
           Safe(P, N, H, C, M, G, Toks(With(q, out)), S, R, V, d, o),
           NEW q2, DOMAIN q2 = DOMAIN q, \A j \in DOMAIN q \ {i} : q2[j] = q[j],
           q2[i] = out \o q[i]
    PROVE  Safe(P, N, H, C, M, G, Toks(q2), S, R, V, d, o)
  <1>0. PICK n \in Nat, l \in Nat : n = Len(q[i]) /\ l = Len(out)
    OBVIOUS
  <1>1. /\ DOMAIN q[i] = 1 .. n /\ DOMAIN out = 1 .. l /\ DOMAIN q2[i] = 1 .. (l + n)
        /\ \A k \in 1 .. l : q2[i][k] = out[k]
        /\ \A k \in 1 .. n : q2[i][l + k] = q[i][k]
    <2>1. DOMAIN q[i] = 1 .. n /\ DOMAIN out = 1 .. l
      BY <1>0
    <2>2. DOMAIN q2[i] = 1 .. (l + n)
      BY <1>0, ConcatProperties
    <2>3. ASSUME NEW k \in 1 .. l PROVE q2[i][k] = out[k]
      BY <1>0, ConcatProperties
    <2>4. ASSUME NEW k \in 1 .. n PROVE q2[i][l + k] = q[i][k]
      <3>1. l + k \in 1 .. (l + n) /\ ~(l + k <= l) /\ (l + k) - l = k
        OBVIOUS
      <3> QED BY <1>0, <3>1, ConcatProperties
    <2> QED BY <2>1, <2>2, <2>3, <2>4
  <1>2. PICK f : Renames(f, Toks(q2), Toks(With(q, out)))
    BY <1>1, LandRenames
  <1> QED BY <1>2, Rename

\* At its start a handler has forwarded nothing.
LEMMA WithEmpty ==
    ASSUME NEW q, Out \notin DOMAIN q
    PROVE  Toks(With(q, << >>)) = Toks(q)
  <1> DEFINE W == With(q, << >>)
  <1>1. /\ DOMAIN W = DOMAIN q \cup {Out}
        /\ W[Out] = << >>
        /\ \A j \in DOMAIN q : W[j] = q[j]
    BY DEF With
  <1> HIDE DEF W
  <1>2. DOMAIN Toks(W) = DOMAIN Toks(q)
    <2>1. \A y : y \in DOMAIN Toks(W) <=> y \in DOMAIN Toks(q)
      <3>1. DOMAIN W[Out] = {}
        BY <1>1
      <3> QED BY <1>1, <3>1, ToksFacts
    <2> QED BY <2>1
  <1>3. ASSUME NEW y \in DOMAIN Toks(q) PROVE Toks(W)[y] = Toks(q)[y]
    BY <1>1, ToksFacts
  <1>4. Toks(W) = [y \in DOMAIN Toks(W) |-> Toks(W)[y]]
    BY DEF Toks
  <1>5. Toks(q) = [y \in DOMAIN Toks(q) |-> Toks(q)[y]]
    BY DEF Toks
  <1> HIDE DEF Toks
  <1> QED BY <1>2, <1>3, <1>4, <1>5 DEF W

-----------------------------------------------------------------------------
(* Worlds.                                                                  *)

IsWorld(w) ==
    /\ w = [ ports  |-> w.ports,
             names  |-> w.names,
             held   |-> w.held,
             closed |-> w.closed,
             mate   |-> w.mate,
             merged |-> w.merged,
             out    |-> w.out ]
    /\ w.ports = [p \in DOMAIN w.ports |-> w.ports[p]]

\* The events under way while a handler is at world w; q are the queues.
Ev(q, w) == Toks(With(q, w.out))

\* A world that a handler of node n may be at.
Good(w, q, n, S, R, V, d, o) ==
    /\ IsWorld(w)
    /\ w.out \in Seq(Event(w.names))
    /\ \A i \in 1 .. Len(w.out) : InPlace(n, w.out[i])
    /\ Safe(w.ports, w.names, w.held, w.closed, w.mate, w.merged, Ev(q, w), S, R, V, d, o)

\* It can send event e.
MaySend(w, q, S, d, o, e) ==
    Sendable(w.ports, w.held, Ev(q, w), w.closed, w.mate, w.merged, S, d, o, e)

\* Nobody in world w has the port r.
Free(w, q, r) == Unattached(w.ports, w.held, Ev(q, w), r)

\* What Forward does.
LEMMA ForwardFields ==
    ASSUME NEW w, IsWorld(w), NEW e
    PROVE  /\ IsWorld(Forward(w, e))
           /\ Forward(w, e).out = Append(w.out, e)
           /\ Forward(w, e).ports = w.ports
           /\ Forward(w, e).names = w.names
           /\ Forward(w, e).held = w.held
           /\ Forward(w, e).closed = w.closed
           /\ Forward(w, e).mate = w.mate
           /\ Forward(w, e).merged = w.merged
  <1>1. Forward(w, e) = [ ports |-> w.ports, names |-> w.names, held |-> w.held,
                          closed |-> w.closed, mate |-> w.mate, merged |-> w.merged,
                          out |-> Append(w.out, e) ]
    BY DEF IsWorld, Forward
  <1> QED BY <1>1 DEF IsWorld

\* One more event.
LEMMA EvAppend ==
    ASSUME NEW w, NEW q, Out \notin DOMAIN q, NEW T, w.out \in Seq(T), NEW e \in T,
           NEW w2, w2.out = Append(w.out, e)
    PROVE  Extends(Ev(q, w2), Ev(q, w), <<Out, Len(w.out) + 1>>, e)
  <1> DEFINE a == With(q, w.out)
             b == With(q, w2.out)
  <1>1. /\ DOMAIN a = DOMAIN q \cup {Out} /\ DOMAIN b = DOMAIN q \cup {Out}
        /\ a[Out] = w.out /\ b[Out] = w2.out
        /\ \A j \in DOMAIN q : a[j] = q[j] /\ b[j] = q[j]
    BY DEF With
  <1>2. \A j \in DOMAIN a \ {Out} : b[j] = a[j]
    BY <1>1
  <1> HIDE DEF a, b
  <1>3. Extends(Toks(b), Toks(a), <<Out, Len(a[Out]) + 1>>, e)
    BY <1>1, <1>2, Push
  <1> QED BY <1>1, <1>3 DEF a, b, Ev

\* The same, as a statement about the sequence.
LEMMA OutAppend ==
    ASSUME NEW n, NEW T, NEW s, s \in Seq(T), \A i \in 1 .. Len(s) : InPlace(n, s[i]),
           NEW e \in T, InPlace(n, e)
    PROVE  /\ Append(s, e) \in Seq(T)
           /\ \A i \in 1 .. Len(Append(s, e)) : InPlace(n, Append(s, e)[i])
  <1>1. PICK k \in Nat : k = Len(s)
    OBVIOUS
  <1>2. /\ Append(s, e) \in Seq(T) /\ Len(Append(s, e)) = k + 1
        /\ Append(s, e)[k + 1] = e
        /\ \A i \in 1 .. k : Append(s, e)[i] = s[i]
    BY <1>1, AppendProperties
  <1>3. \A i \in 1 .. (k + 1) : i \in 1 .. k \/ i = k + 1
    OBVIOUS
  <1> QED BY <1>1, <1>2, <1>3

\* A world may send what is sendable.
LEMMA GoodForward ==
    ASSUME NEW w, NEW q, NEW n, NEW S, NEW R, NEW V, NEW d, NEW o, Out \notin DOMAIN q,
           Good(w, q, n, S, R, V, d, o),
           NEW e \in Event(w.names), MaySend(w, q, S, d, o, e), InPlace(n, e)
    PROVE  Good(Forward(w, e), q, n, S, R, V, d, o)
  <1> DEFINE v == Forward(w, e)
  <1>1. /\ IsWorld(v) /\ v.out = Append(w.out, e)
        /\ v.ports = w.ports /\ v.names = w.names /\ v.held = w.held
        /\ v.closed = w.closed /\ v.mate = w.mate /\ v.merged = w.merged
    BY ForwardFields DEF Good
  <1> HIDE DEF v
  <1>2. Extends(Ev(q, v), Ev(q, w), <<Out, Len(w.out) + 1>>, e)
    BY <1>1, EvAppend DEF Good
  <1>3. Safe(v.ports, v.names, v.held, v.closed, v.mate, v.merged, Ev(q, v), S, R, V, d, o)
    BY <1>1, <1>2, Add DEF Good, MaySend
  <1>4. /\ v.out \in Seq(Event(v.names))
        /\ \A i \in 1 .. Len(v.out) : InPlace(n, v.out[i])
    BY <1>1, OutAppend DEF Good
  <1>5. Good(v, q, n, S, R, V, d, o)
    BY <1>1, <1>3, <1>4 DEF Good
  <1> QED BY <1>5 DEF v

\* A world with other ports and names.
Updated(w, N, P) == [w EXCEPT !.names = N, !.ports = P]

\* Its other fields are the same.
LEMMA WorldExcept ==
    ASSUME NEW w, IsWorld(w), NEW P, P = [p \in DOMAIN P |-> P[p]], NEW N,
           NEW v, v = Updated(w, N, P)
    PROVE  /\ IsWorld(v) /\ v.ports = P /\ v.names = N /\ v.held = w.held
           /\ v.closed = w.closed /\ v.mate = w.mate /\ v.merged = w.merged
           /\ v.out = w.out
  <1>1. PICK a, b, c, e, f, g, h :
          w = [ ports |-> a, names |-> b, held |-> c, closed |-> e, mate |-> f,
                merged |-> g, out |-> h ]
    BY Zenon DEF IsWorld
  <1>2. v = [ ports |-> P, names |-> N, held |-> c, closed |-> e, mate |-> f,
              merged |-> g, out |-> h ]
    BY <1>1 DEF Updated
  <1> QED BY <1>1, <1>2 DEF IsWorld

\* What becomes of the world and of the message when a port moves.
Converted(w, r, new) ==
    [w EXCEPT !.names = w.names + 1, !.ports = [w.ports EXCEPT ![r] = Proxied(@, new)]]
Describing(w, m, r, new) ==
    [m EXCEPT !.ports = <<new>>, !.descriptors = <<Descriptor(r, w.ports[r])>>]

\* ConvertToProxies for the port a message carries.
LEMMA ConvertOne ==
    ASSUME NEW w, IsWorld(w), w.names \in Nat, NEW r \in DOMAIN w.ports, NEW m,
           m.ports = <<r>>, NEW node, NEW new, new = <<node, w.names + 1>>
    PROVE  /\ ConvertToProxies(w, m, node).world = Converted(w, r, new)
           /\ ConvertToProxies(w, m, node).message = Describing(w, m, r, new)
  <1>1. /\ Len(m.ports) = 1 /\ DOMAIN m.ports = {1} /\ ToSet(m.ports) = {r}
        /\ m.ports[1] = r
    BY DEF ToSet
  <1> DEFINE Index(p) == CHOOSE i \in DOMAIN m.ports : m.ports[i] = p
             nw(i) == <<node, w.names + i>>
  <1>2. Index(r) = 1
    BY <1>1
  <1>3. [i \in DOMAIN m.ports |-> nw(i)] = <<new>>
    BY <1>1
  <1>4. [i \in DOMAIN m.ports |-> Descriptor(m.ports[i], w.ports[m.ports[i]])]
          = <<Descriptor(r, w.ports[r])>>
    <2> HIDE DEF Descriptor
    <2> QED BY <1>1
  <1>5. [p \in DOMAIN w.ports |-> IF p \in ToSet(m.ports)
                                  THEN Proxied(w.ports[p], nw(Index(p)))
                                  ELSE w.ports[p]]
          = [w.ports EXCEPT ![r] = Proxied(@, new)]
    <2> PICK P : P = w.ports
      OBVIOUS
    <2>0. P = [p \in DOMAIN P |-> P[p]] /\ r \in DOMAIN P
      BY DEF IsWorld
    <2>1. nw(Index(r)) = new
      BY <1>2
    <2> HIDE DEF nw, Index, Proxied
    <2>2. \A p \in DOMAIN P : (IF p \in ToSet(m.ports) THEN Proxied(P[p], nw(Index(p))) ELSE P[p])
                                = IF p = r THEN Proxied(P[r], new) ELSE P[p]
      BY <1>1, <2>1
    <2>3. [p \in DOMAIN P |-> IF p \in ToSet(m.ports) THEN Proxied(P[p], nw(Index(p))) ELSE P[p]]
            = [p \in DOMAIN P |-> IF p = r THEN Proxied(P[r], new) ELSE P[p]]
      BY <2>2
    <2>4. [P EXCEPT ![r] = Proxied(@, new)]
            = [p \in DOMAIN P |-> IF p = r THEN Proxied(P[r], new) ELSE P[p]]
      BY <2>0
    <2> QED BY <2>3, <2>4
  <1>6. ConvertToProxies(w, m, node).message
          = [m EXCEPT !.ports = [i \in DOMAIN @ |-> nw(i)],
                      !.descriptors = [i \in DOMAIN m.ports |->
                            Descriptor(m.ports[i], w.ports[m.ports[i]])]]
    BY DEF ConvertToProxies
  <1>7. ConvertToProxies(w, m, node).world
          = [w EXCEPT !.names = w.names + Len(m.ports),
                      !.ports = [p \in DOMAIN w.ports |-> IF p \in ToSet(m.ports)
                                  THEN Proxied(w.ports[p], nw(Index(p)))
                                  ELSE w.ports[p]]]
    BY DEF ConvertToProxies, IsWorld
  <1>8. ConvertToProxies(w, m, node).world
          = [w EXCEPT !.names = w.names + 1,
                      !.ports = [w.ports EXCEPT ![r] = Proxied(@, new)]]
    BY <1>1, <1>5, <1>7
  <1> QED BY <1>3, <1>4, <1>6, <1>8 DEF Converted, Describing

\* ConvertToProxies for a message that carries none.
LEMMA ConvertNone ==
    ASSUME NEW w, IsWorld(w), w.names \in Nat, NEW m, m.ports = << >>,
           m.descriptors = << >>,
           NEW N, m \in Message(N), NEW node
    PROVE  /\ ConvertToProxies(w, m, node).world = w
           /\ ConvertToProxies(w, m, node).message = m
  <1>1. Len(m.ports) = 0 /\ DOMAIN m.ports = {} /\ ToSet(m.ports) = {}
    BY DEF ToSet
  <1> DEFINE Index(p) == CHOOSE i \in DOMAIN m.ports : m.ports[i] = p
             nw(i) == <<node, w.names + i>>
  <1>3. [i \in DOMAIN m.ports |-> nw(i)] = << >>
    BY <1>1
  <1>4. [i \in DOMAIN m.ports |-> Descriptor(m.ports[i], w.ports[m.ports[i]])] = << >>
    <2> HIDE DEF Descriptor
    <2> QED BY <1>1
  <1>5. [p \in DOMAIN w.ports |-> IF p \in ToSet(m.ports)
                                  THEN Proxied(w.ports[p], nw(Index(p)))
                                  ELSE w.ports[p]]
          = w.ports
    <2> PICK P : P = w.ports
      OBVIOUS
    <2>0. P = [p \in DOMAIN P |-> P[p]]
      BY DEF IsWorld
    <2> HIDE DEF nw, Index, Proxied
    <2>3. [p \in DOMAIN P |-> IF p \in ToSet(m.ports) THEN Proxied(P[p], nw(Index(p))) ELSE P[p]]
            = [p \in DOMAIN P |-> P[p]]
      BY <1>1
    <2> QED BY <2>0, <2>3
  <1>6. ConvertToProxies(w, m, node).message
          = [m EXCEPT !.ports = [i \in DOMAIN @ |-> nw(i)],
                      !.descriptors = [i \in DOMAIN m.ports |->
                            Descriptor(m.ports[i], w.ports[m.ports[i]])]]
    BY DEF ConvertToProxies
  <1>7. ConvertToProxies(w, m, node).world
          = [w EXCEPT !.names = w.names + Len(m.ports),
                      !.ports = [p \in DOMAIN w.ports |-> IF p \in ToSet(m.ports)
                                  THEN Proxied(w.ports[p], nw(Index(p)))
                                  ELSE w.ports[p]]]
    BY DEF ConvertToProxies, IsWorld
  <1>8. [m EXCEPT !.ports = << >>, !.descriptors = << >>] = m
    BY DEF Message
  <1>9. ConvertToProxies(w, m, node).world = w
    <2>1. ConvertToProxies(w, m, node).world
            = [w EXCEPT !.names = w.names, !.ports = w.ports]
      <3>1. w.names + Len(m.ports) = w.names
        BY <1>1
      <3> HIDE DEF nw, Index
      <3> QED BY <1>5, <1>7, <3>1
    <2>2. PICK a, b, c, e, f, g, h :
            w = [ ports |-> a, names |-> b, held |-> c, closed |-> e, mate |-> f,
                  merged |-> g, out |-> h ]
      BY DEF IsWorld
    <2>3. [w EXCEPT !.names = w.names, !.ports = w.ports] = w
      BY <2>2
    <2> QED BY <2>1, <2>3
  <1> QED BY <1>3, <1>4, <1>6, <1>8, <1>9

\* A handler's other results: the ends and the handles stay, no port comes or
\* goes, and proxies change at most in their queues.
Kept(b, a) ==
    /\ b.end = a.end
    /\ b.state = a.state
    /\ b.peer = a.peer
    /\ b.last_sequence_num_to_receive = a.last_sequence_num_to_receive
    /\ b.peer_closed = a.peer_closed
    /\ b.remove_proxy_on_last_message = a.remove_proxy_on_last_message
    /\ b.send_on_proxy_removal = a.send_on_proxy_removal

Onward(w, o, w2, o2) ==
    /\ w.names \in Nat /\ w2.names \in Nat /\ w.names <= w2.names
    /\ \A a \in Addr(w.names) : o2[a] = o[a]
    /\ w2.held = w.held
    /\ w2.closed = w.closed
    /\ w2.mate = w.mate
    /\ w2.merged = w.merged
    /\ DOMAIN w2.ports = DOMAIN w.ports
    /\ \A r \in DOMAIN w.ports : ~Receiving(w.ports, r) => Kept(w2.ports[r], w.ports[r])

\* It is reflexive and transitive.
LEMMA OnwardRefl ==
    ASSUME NEW w, NEW w2, NEW o, w.names \in Nat, w2.names = w.names, w2.ports = w.ports,
           w2.held = w.held, w2.closed = w.closed, w2.mate = w.mate, w2.merged = w.merged
    PROVE  Onward(w, o, w2, o)
  BY DEF Onward, Kept

\* Two such steps are one.
LEMMA OnwardTrans ==
    ASSUME NEW w, NEW o, NEW w2, NEW o2, NEW w3, NEW o3,
           Onward(w, o, w2, o2), Onward(w2, o2, w3, o3)
    PROVE  Onward(w, o, w3, o3)
  <1>1. /\ w.names \in Nat /\ w2.names \in Nat /\ w3.names \in Nat
        /\ w.names <= w2.names /\ w2.names <= w3.names
    BY DEF Onward
  <1>2. w.names <= w3.names
    BY <1>1
  <1>3. Addr(w.names) \subseteq Addr(w2.names)
    BY <1>1, AddrGrows
  <1>4. \A a \in Addr(w.names) : o3[a] = o[a]
    BY <1>3 DEF Onward
  <1> QED BY <1>1, <1>2, <1>4 DEF Onward, Kept, Receiving

\* A port is sent to another node.
LEMMA GoodLaunch ==
    ASSUME NEW w, NEW q, NEW n, NEW S, NEW R, NEW V, NEW d, NEW o, Out \notin DOMAIN q,
           Good(w, q, n, S, R, V, d, o),
           NEW r, Free(w, q, r),
           NEW m \in Message(w.names) \cup MergeRequest(w.names),
           m.ports = <<r>>, m.descriptors = << >>,
           NEW node \in Nodes, m.port_name[1] = node,
           m.type = "UserMessage" =>
             w.ports[r].end \notin ToMerge /\ Deliverable(m, m.port_name, S, w.mate, d, o),
           m.type = "MergePort" => \E f \in ToMerge : m.port_name = Home(f),
           NEW c, c = ConvertToProxies(w, m, node),
           NEW w2, w2 = Forward(c.world, c.message)
    PROVE  \E o2 : Good(w2, q, n, S, R, V, d, o2) /\ Onward(w, o, w2, o2)
  <1>0. PICK N : N = w.names
    OBVIOUS
  <1>a. N \in Nat /\ r \in DOMAIN w.ports /\ IsWorld(w) /\ DOMAIN w.ports \subseteq Addr(N)
        /\ w.ports[r] \in PortRecord(N) /\ Receiving(w.ports, r)
    BY <1>0 DEF Good, Free, Unattached, Safe, WellTyped
  <1> DEFINE new == <<node, N + 1>>
             D == Descriptor(r, w.ports[r])
             e == [m EXCEPT !.ports = <<new>>, !.descriptors = <<D>>]
             P2 == [w.ports EXCEPT ![r] = Proxied(@, new)]
             v == [w EXCEPT !.names = w.names + 1, !.ports = P2]
  <1>1. c.world = v /\ c.message = e
    <2>1. new = <<node, w.names + 1>> /\ w.names \in Nat
      BY <1>0, <1>a
    <2>2. c.world = Converted(w, r, new) /\ c.message = Describing(w, m, r, new)
      <3> HIDE DEF new
      <3> QED BY <1>a, <2>1, ConvertOne
    <2> QED BY <2>2 DEF Converted, Describing
  <1>b. new \in Addr(N + 1) /\ Addr(N) \subseteq Addr(N + 1)
    BY <1>a, FreshAddress
  <1>c. D \in DescriptorRecord(N + 1) /\ Proxied(w.ports[r], new) \in PortRecord(N + 1)
    BY <1>a, <1>b, ProxiedTypes
  <1>2. /\ e \in Event(N + 1)
        /\ e.type = m.type /\ e.port_name = m.port_name
        /\ e.ports = <<new>> /\ e.descriptors = <<D>>
        /\ m.type \in {"UserMessage", "MergePort"}
        /\ m.type = "UserMessage" => e.body = m.body /\ e.sequence_num = m.sequence_num
        /\ m.port_name \in Addr(N)
    <2> HIDE DEF D, new
    <2>1. <<new>> \in AtMostOne(Addr(N + 1)) /\ <<D>> \in AtMostOne(DescriptorRecord(N + 1))
      BY <1>b, <1>c, AtMostOneFacts
    <2>2. CASE m \in Message(N)
      <3>1. m \in Message(N + 1)
        BY <1>a, <2>2, TypesGrow
      <3>2. e \in Message(N + 1)
        BY <2>1, <3>1 DEF Message
      <3> QED BY <2>2, <3>1, <3>2 DEF Message, Event
    <2>3. CASE m \in MergeRequest(N)
      <3>1. m \in MergeRequest(N + 1)
        <4>1. AtMostOne(Addr(N)) \subseteq AtMostOne(Addr(N + 1))
          BY <1>b, AtMostOneGrows
        <4>2. AtMostOne(DescriptorRecord(N)) \subseteq AtMostOne(DescriptorRecord(N + 1))
          BY <1>a, AtMostOneGrows, TypesGrow
        <4> QED BY <1>b, <2>3, <4>1, <4>2 DEF MergeRequest
      <3>2. e \in MergeRequest(N + 1)
        BY <2>1, <3>1 DEF MergeRequest
      <3> QED BY <2>3, <3>1, <3>2 DEF MergeRequest, Event
    <2> QED BY <1>0, <2>2, <2>3
  <1>3. Moving(e) /\ Carried(e) = new /\ Described(e) = D /\ e.ports # << >> /\ ~Attaching(e)
    <2> HIDE DEF D, new, e
    <2> QED BY <1>2 DEF Moving, Carried, Described, Attaching
  <1>d. /\ IsWorld(v) /\ v.names = N + 1 /\ v.ports = P2 /\ v.held = w.held
        /\ v.closed = w.closed /\ v.mate = w.mate /\ v.merged = w.merged /\ v.out = w.out
    <2>1. P2 = [p \in DOMAIN P2 |-> P2[p]]
      BY <1>a DEF IsWorld
    <2>2. w.names + 1 = N + 1
      BY <1>0
    <2> HIDE DEF P2
    <2>3. v = Updated(w, N + 1, P2)
      BY <2>2 DEF Updated
    <2> HIDE DEF v
    <2> QED BY <1>a, <2>1, <2>3, WorldExcept
  <1>e. PICK P3 : P3 = P2
    OBVIOUS
  <1> HIDE DEF v, P2, e, D
  <1>4. /\ IsWorld(w2) /\ w2.names = N + 1 /\ w2.ports = P2 /\ w2.held = w.held
        /\ w2.closed = w.closed /\ w2.mate = w.mate /\ w2.merged = w.merged
        /\ w2.out = Append(w.out, e)
    BY <1>1, <1>d, ForwardFields
  <1>5. w.out \in Seq(Event(N + 1))
    <2>1. Event(N) \subseteq Event(N + 1)
      BY <1>a, TypesGrow
    <2> QED BY <1>0, <2>1 DEF Good
  <1>6. Extends(Ev(q, w2), Ev(q, w), <<Out, Len(w.out) + 1>>, e)
    BY <1>2, <1>4, <1>5, EvAppend
  <1> PICK o2 : o2 = OneMore(o, N, w.ports[r].end)
    OBVIOUS
  <1>7. Safe(P2, N + 1, w.held, w.closed, w.mate, w.merged, Ev(q, w2), S, R, V, d, o2)
    <2>1. Safe(w.ports, N, w.held, w.closed, w.mate, w.merged, Ev(q, w), S, R, V, d, o)
      BY <1>0 DEF Good
    <2>2. Unattached(w.ports, w.held, Ev(q, w), r)
      BY DEF Free
    <2>3. e.type = "UserMessage" =>
             w.ports[r].end \notin ToMerge /\ Deliverable(e, e.port_name, S, w.mate, d, o)
      BY <1>2 DEF Deliverable, Numbered
    <2>4. e.type = "MergePort" => \E f \in ToMerge : e.port_name = Home(f)
      BY <1>2
    <2>5. P2 = [w.ports EXCEPT ![r] = Proxied(@, new)]
      BY DEF P2
    <2>6. Described(e) = Descriptor(r, w.ports[r])
      BY <1>3 DEF D
    <2>7. e.port_name \in Addr(N) /\ e.port_name[1] = node
      BY <1>2
    <2>8. PICK nw : nw = <<node, N + 1>>
      OBVIOUS
    <2>9. Carried(e) = nw /\ P2 = [w.ports EXCEPT ![r] = Proxied(@, nw)]
      BY <1>3, <2>5, <2>8
    <2> HIDE DEF new
    <2> QED BY <1>2, <1>3, <1>6, <2>1, <2>2, <2>3, <2>4, <2>6, <2>7, <2>8, <2>9, Launch
  <1>8. /\ w2.out \in Seq(Event(w2.names))
        /\ \A i \in 1 .. Len(w2.out) : InPlace(n, w2.out[i])
    <2>1. InPlace(n, e)
      BY <1>3 DEF InPlace
    <2> QED BY <1>2, <1>4, <1>5, <2>1, OutAppend DEF Good
  <1>9. Good(w2, q, n, S, R, V, d, o2)
    BY <1>4, <1>7, <1>8 DEF Good
  <1>10. Onward(w, o, w2, o2)
    <2>1. \A a \in Addr(N) : o2[a] = o[a]
      BY <1>b DEF OneMore
    <2>2. DOMAIN P2 = DOMAIN w.ports /\ \A x \in DOMAIN w.ports : x # r => P2[x] = w.ports[x]
      BY <1>a DEF P2
    <2>3. \A x \in DOMAIN w.ports : ~Receiving(w.ports, x) => P2[x] = w.ports[x]
      BY <1>a, <2>2
    <2>4. N <= N + 1 /\ N + 1 \in Nat
      BY <1>a
    <2> QED BY <1>0, <1>a, <1>4, <2>1, <2>2, <2>3, <2>4 DEF Onward, Kept
  <1> QED BY <1>9, <1>10

\* The port that message m carries, if any, is free and on node n.
Loadable(w, q, n, m) ==
    m.ports # << >> =>
        /\ Free(w, q, Carried(m))
        /\ w.ports[Carried(m)].end \notin ToMerge
        /\ Carried(m)[1] = n

\* A numbered message leaves node n for its address.
Route(w, n, m) ==
    IF m.port_name[1] = n THEN Forward(w, m)
    ELSE LET moved == ConvertToProxies(w, m, m.port_name[1])
         IN  Forward(moved.world, moved.message)

\* It may.
LEMMA RouteGood ==
    ASSUME NEW w, NEW q, NEW n, NEW S, NEW R, NEW V, NEW d, NEW o, Out \notin DOMAIN q,
           Good(w, q, n, S, R, V, d, o),
           NEW m \in Message(w.names), m.descriptors = << >>,
           Deliverable(m, m.port_name, S, w.mate, d, o),
           Loadable(w, q, n, m)
    PROVE  \E o2 : /\ Good(Route(w, n, m), q, n, S, R, V, d, o2)
                   /\ Onward(w, o, Route(w, n, m), o2)
  <1>0. /\ w.names \in Nat /\ IsWorld(w) /\ m.type = "UserMessage" /\ m \in Event(w.names)
        /\ m.port_name \in Addr(w.names)
    BY MessageTypes DEF Good, Safe, WellTyped, Event
  <1>a. m.ports # << >> => m.ports = <<Carried(m)>>
    BY MessageTypes
  <1>1. CASE m.port_name[1] = n \/ m.ports = << >>
    <2>1. Route(w, n, m) = Forward(w, m)
      BY <1>0, <1>1, ConvertNone DEF Route
    <2>2. MaySend(w, q, S, d, o, m)
      BY <1>0 DEF MaySend, Sendable, Moving, Attaching, Loadable, Free
    <2>3. InPlace(n, m)
      BY <1>1 DEF InPlace, Attaching, Loadable
    <2>4. Good(Forward(w, m), q, n, S, R, V, d, o)
      BY <1>0, <2>2, <2>3, GoodForward
    <2>5. Onward(w, o, Forward(w, m), o)
      BY <1>0, ForwardFields, OnwardRefl
    <2> QED BY <2>1, <2>4, <2>5
  <1>2. CASE m.port_name[1] # n /\ m.ports # << >>
    <2> DEFINE node == m.port_name[1]
               r == Carried(m)
    <2>1. node \in Nodes
      BY <1>0 DEF Addr
    <2>2. PICK c : c = ConvertToProxies(w, m, node)
      OBVIOUS
    <2>3. Route(w, n, m) = Forward(c.world, c.message)
      BY <1>2, <2>2 DEF Route
    <2>4. Free(w, q, r) /\ w.ports[r].end \notin ToMerge /\ m.ports = <<r>>
      BY <1>2, <1>a DEF Loadable
    <2> HIDE DEF r
    <2> QED BY <1>0, <2>1, <2>2, <2>3, <2>4, GoodLaunch
  <1> QED BY <1>1, <1>2

\* PrepareToForwardUserMessage, for a message that has its number.
LEMMA PrepareIsRoute ==
    ASSUME NEW w, NEW p, NEW N, NEW m \in Message(N), NEW a, a = w.ports[p].peer
    PROVE  PrepareToForwardUserMessage(w, p, m) = Route(w, p[1], [m EXCEPT !.port_name = a])
  <1>1. m.sequence_num # 0
    BY MessageTypes
  <1>2. [m EXCEPT !.sequence_num = IF @ = 0 THEN w.ports[p].next_sequence_num_to_send ELSE @,
                  !.port_name = w.ports[p].peer]
          = [m EXCEPT !.port_name = a]
    BY <1>1 DEF Message
  <1>3. [m EXCEPT !.port_name = a].port_name = a
    BY DEF Message
  <1> HIDE DEF Message
  <1> QED BY <1>1, <1>2, <1>3 DEF PrepareToForwardUserMessage, Route

\* The next message of a queue.
LEMMA NextMessageFacts ==
    ASSUME NEW N, NEW r \in PortRecord(N), HasNextMessage(r)
    PROVE  /\ NextMessage(r) \in r.message_queue
           /\ NextMessage(r).sequence_num = r.next_sequence_num
  <1>0. /\ \A m \in r.message_queue : m.sequence_num \in Nat
        /\ r.next_sequence_num \in Nat
    BY MessageTypes DEF PortRecord
  <1>1. PICK m \in r.message_queue : m.sequence_num = r.next_sequence_num
    BY DEF HasNextMessage
  <1>2. \A o \in r.message_queue : m.sequence_num <= o.sequence_num
    BY <1>1 DEF HasNextMessage
  <1>3. /\ NextMessage(r) \in r.message_queue
        /\ \A o \in r.message_queue : NextMessage(r).sequence_num <= o.sequence_num
    BY <1>1, <1>2 DEF NextMessage
  <1> QED BY <1>0, <1>1, <1>2, <1>3

\* A world with other ports.
WithPorts(w, P) == [w EXCEPT !.ports = P]

\* Its other fields are the same.
LEMMA WithPortsFields ==
    ASSUME NEW w, IsWorld(w), NEW P, P = [p \in DOMAIN P |-> P[p]]
    PROVE  LET v == WithPorts(w, P)
           IN  /\ IsWorld(v) /\ v.ports = P /\ v.names = w.names /\ v.held = w.held
               /\ v.closed = w.closed /\ v.mate = w.mate /\ v.merged = w.merged
               /\ v.out = w.out
  <1>1. PICK a, b, c, e, f, g, h :
          w = [ ports |-> a, names |-> b, held |-> c, closed |-> e, mate |-> f,
                merged |-> g, out |-> h ]
    BY Zenon DEF IsWorld
  <1>2. WithPorts(w, P) = [ ports |-> P, names |-> b, held |-> c, closed |-> e, mate |-> f,
                            merged |-> g, out |-> h ]
    BY <1>1 DEF WithPorts
  <1> QED BY <1>1, <1>2 DEF IsWorld

\* It is good if its ports are.
LEMMA GoodPorts ==
    ASSUME NEW w, NEW q, NEW n, NEW S, NEW R, NEW V, NEW V2, NEW d, NEW o,
           Good(w, q, n, S, R, V, d, o),
           NEW P, P = [p \in DOMAIN P |-> P[p]],
           Safe(P, w.names, w.held, w.closed, w.mate, w.merged, Ev(q, w), S, R, V2, d, o)
    PROVE  Good(WithPorts(w, P), q, n, S, R, V2, d, o)
  <1> DEFINE v == WithPorts(w, P)
  <1>1. /\ IsWorld(v) /\ v.ports = P /\ v.names = w.names /\ v.held = w.held
        /\ v.closed = w.closed /\ v.mate = w.mate /\ v.merged = w.merged
        /\ v.out = w.out
    BY WithPortsFields DEF Good
  <1> HIDE DEF v
  <1>2. Ev(q, v) = Ev(q, w)
    BY <1>1 DEF Ev
  <1>3. Good(v, q, n, S, R, V2, d, o)
    BY <1>1, <1>2 DEF Good
  <1> QED BY <1>3 DEF v

\* The body of the loop of ForwardUserMessagesFromProxy.
ForwardNext(u, p) ==
    LET m == NextMessage(u.ports[p])
    IN  IF HasNextMessage(u.ports[p])
        THEN PrepareToForwardUserMessage([u EXCEPT !.ports[p] = TakeMessage(@, m)], p, m)
        ELSE u

\* It leaves a good world, and moves no end.
LEMMA ForwardNextGood ==
    ASSUME NEW w, NEW q, NEW n, NEW S, NEW R, NEW V, NEW d, NEW o, Out \notin DOMAIN q,
           Good(w, q, n, S, R, V, d, o),
           NEW p \in DOMAIN w.ports, ~Receiving(w.ports, p), p[1] = n
    PROVE  \E o2 : /\ Good(ForwardNext(w, p), q, n, S, R, V, d, o2)
                   /\ Onward(w, o, ForwardNext(w, p), o2)
  <1>0. w.names \in Nat /\ w.ports[p] \in PortRecord(w.names) /\ IsWorld(w)
    BY DEF Good, Safe, WellTyped
  <1>1. CASE ~HasNextMessage(w.ports[p])
    <2>1. ForwardNext(w, p) = w
      BY <1>1 DEF ForwardNext
    <2>2. Onward(w, o, w, o)
      BY <1>0, OnwardRefl
    <2> QED BY <2>1, <2>2
  <1>2. CASE HasNextMessage(w.ports[p])
    <2>0. PICK m : m = NextMessage(w.ports[p])
      OBVIOUS
    <2>1. m \in w.ports[p].message_queue
      BY <1>0, <1>2, <2>0, NextMessageFacts
    <2>2. PICK P2 : P2 = [w.ports EXCEPT ![p] = TakeMessage(@, m)]
      OBVIOUS
    <2>3. P2 = [x \in DOMAIN P2 |-> P2[x]]
      BY <1>0, <2>2 DEF IsWorld
    <2> DEFINE v == WithPorts(w, P2)
    <2>4. ForwardNext(w, p) = PrepareToForwardUserMessage(v, p, m)
      BY <1>2, <2>0, <2>2 DEF ForwardNext, WithPorts
    <2>5. /\ Safe(P2, w.names, w.held, w.closed, w.mate, w.merged, Ev(q, w), S, R, V, d, o)
          /\ m.ports # << >> =>
                /\ Unattached(P2, w.held, Ev(q, w), Carried(m))
                /\ P2[Carried(m)].end \notin ToMerge
                /\ Carried(m)[1] = p[1]
          /\ Deliverable(m, p, S, w.mate, d, o)
          /\ m.descriptors = << >> /\ m \in Message(w.names)
      <3>1. PICK P : P = w.ports
        OBVIOUS
      <3>2. /\ Safe(P, w.names, w.held, w.closed, w.mate, w.merged, Ev(q, w), S, R, V, d, o)
            /\ p \in DOMAIN P /\ ~Receiving(P, p) /\ m \in P[p].message_queue
            /\ P2 = Unqueued(P, p, m)
        BY <2>1, <2>2, <3>1 DEF Good, Unqueued
      <3> QED BY <3>2, Unqueue
    <2>6. Good(v, q, n, S, R, V, d, o)
      BY <2>3, <2>5, GoodPorts
    <2>7. /\ v.ports = P2 /\ v.names = w.names /\ v.held = w.held
          /\ v.closed = w.closed /\ v.mate = w.mate /\ v.merged = w.merged
          /\ v.out = w.out
      BY <1>0, <2>3, WithPortsFields
    <2>8. Ev(q, v) = Ev(q, w)
      BY <2>7 DEF Ev
    <2> HIDE DEF v
    <2>9. /\ DOMAIN P2 = DOMAIN w.ports /\ \A x \in DOMAIN w.ports : x # p => P2[x] = w.ports[x]
          /\ Kept(P2[p], w.ports[p])
      BY <1>0, <2>2 DEF TakeMessage, PortRecord, Kept
    <2> DEFINE a == P2[p].peer
               k == [m EXCEPT !.port_name = a]
    <2>10. /\ a \in Addr(w.names) /\ d[o[a]] = d[o[p]]
           /\ P2[p].end = w.ports[p].end /\ ~Receiving(P2, p) /\ p \in DOMAIN P2
      <3>1. /\ d[o[w.ports[p].peer]] = d[w.ports[p].end] /\ o[p] = w.ports[p].end
            /\ w.ports[p].peer \in Addr(w.names)
        BY AddressesKnown DEF Good, Safe, Routes
      <3> QED BY <2>9, <3>1 DEF Kept, Receiving
    <2>11. /\ k \in Message(w.names) /\ k.port_name = a /\ k.descriptors = << >>
           /\ k.ports = m.ports /\ k.body = m.body /\ k.sequence_num = m.sequence_num
      <3> HIDE DEF a
      <3> QED BY <2>5, <2>10 DEF Message
    <2> HIDE DEF k
    <2>12. Deliverable(k, k.port_name, S, v.mate, d, o)
      BY <2>5, <2>7, <2>10, <2>11 DEF Deliverable, Numbered
    <2>13. Loadable(v, q, n, k)
      BY <2>5, <2>7, <2>8, <2>11 DEF Loadable, Free, Carried
    <2>14. PrepareToForwardUserMessage(v, p, m) = Route(v, p[1], [m EXCEPT !.port_name = a])
      BY <2>5, <2>7, PrepareIsRoute
    <2>15. PICK o2 : Good(Route(v, n, k), q, n, S, R, V, d, o2) /\ Onward(v, o, Route(v, n, k), o2)
      BY <2>6, <2>7, <2>11, <2>12, <2>13, RouteGood
    <2>16. Onward(w, o, v, o)
      BY <1>0, <2>7, <2>9 DEF Onward, Kept
    <2>17. Onward(w, o, Route(v, n, k), o2)
      BY <2>15, <2>16, OnwardTrans
    <2>18. ForwardNext(w, p) = Route(v, n, k)
      BY <2>4, <2>14 DEF k
    <2> QED BY <2>15, <2>17, <2>18
  <1> QED BY <1>1, <1>2

\* f holds the worlds after each round of the loop of ForwardUserMessagesFromProxy.
Loop(f, w, p, n) == f = [i \in 0 .. n |-> IF i = 0 THEN w ELSE ForwardNext(f[i - 1], p)]

\* There is such an f: the loop is well defined.
LEMMA Rounds ==
    ASSUME NEW w, NEW p, NEW n \in Nat
    PROVE  \E f : Loop(f, w, p, n)
  <1> DEFINE Body(u) == ForwardNext(u, p)
  <1> HIDE DEF Body
  <1> DEFINE Is(f, k) == f = [i \in 0 .. k |-> IF i = 0 THEN w ELSE Body(f[i - 1])]
             T == {k \in Nat : ~ \E f : Is(f, k)}
  <1>1. T = {}
    <2> SUFFICES ASSUME T # {} PROVE FALSE
      OBVIOUS
    <2>1. PICK k \in T : \A y \in T : k <= y
      <3>1. T \subseteq Nat
        OBVIOUS
      <3> QED BY <3>1, LeastNat
    <2>2. k \in Nat /\ ~ \E f : Is(f, k)
      OBVIOUS
    <2>3. CASE k = 0
      <3>1. Is([i \in 0 .. 0 |-> w], 0)
        OBVIOUS
      <3> QED BY <2>2, <2>3, <3>1
    <2>4. CASE k # 0
      <3>1. k - 1 \in Nat /\ k - 1 \notin T
        <4>1. k \in Nat
          BY <2>2
        <4> HIDE DEF T
        <4> QED BY <2>1, <2>4, <4>1
      <3>2. PICK f : Is(f, k - 1)
        BY <3>1
      <3> DEFINE g == [i \in 0 .. k |-> IF i = 0 THEN w ELSE Body(f[i - 1])]
      <3>3. \A i \in 0 .. k - 1 : f[i] = IF i = 0 THEN w ELSE Body(f[i - 1])
        BY <3>2
      <3>4. \A i \in 0 .. k : g[i] = IF i = 0 THEN w ELSE Body(f[i - 1])
        OBVIOUS
      <3>5. \A i \in 0 .. k : i # 0 => i - 1 \in 0 .. k - 1 /\ i - 1 \in 0 .. k
        BY <2>2
      <3>6. \A i \in 0 .. k : i # 0 => g[i - 1] = f[i - 1]
        <4> HIDE DEF g
        <4> QED BY <3>3, <3>4, <3>5
      <3>7. Is(g, k)
        BY <3>6
      <3> QED BY <2>2, <3>7
    <2> QED BY <2>3, <2>4
  <1>2. PICK f : Is(f, n)
    BY <1>1
  <1>3. Loop(f, w, p, n)
    BY <1>2 DEF Body, Loop
  <1> QED BY <1>3

\* Forwarding all it can.
LEMMA FlushGood ==
    ASSUME NEW w, NEW q, NEW n, NEW S, NEW R, NEW V, NEW d, NEW o, Out \notin DOMAIN q,
           Good(w, q, n, S, R, V, d, o),
           NEW p \in DOMAIN w.ports, ~Receiving(w.ports, p), p[1] = n,
           NEW v, v = ForwardUserMessagesFromProxy(w, p)
    PROVE  \E o2 : Good(v, q, n, S, R, V, d, o2) /\ Onward(w, o, v, o2)
  <1> DEFINE k == Cardinality(w.ports[p].message_queue)
             Is(f) == Loop(f, w, p, k)
             after == CHOOSE f : Is(f)
  <1>1. k \in Nat /\ w.names \in Nat
    <2>1. IsFiniteSet(w.ports[p].message_queue)
      BY DEF Good, Safe, WellTyped
    <2> QED BY <2>1, FS_CardinalityType DEF Good, Safe, WellTyped
  <1>2. v = after[k]
    BY DEF ForwardUserMessagesFromProxy, ForwardNext, Loop
  <1> HIDE DEF k
  <1>3. \A i \in 0 .. k : after[i] = IF i = 0 THEN w ELSE ForwardNext(after[i - 1], p)
    <2> HIDE DEF ForwardNext
    <2>1. \E f : Is(f)
      BY <1>1, Rounds
    <2>2. Is(after)
      <3> HIDE DEF Is
      <3> QED BY <2>1
    <2> HIDE DEF after
    <2> QED BY <2>2 DEF Loop
  <1> HIDE DEF after, Is
  <1> DEFINE Reached(u) == \E o2 : Good(u, q, n, S, R, V, d, o2) /\ Onward(w, o, u, o2)
             T == {i \in 0 .. k : ~Reached(after[i])}
  <1>4. T = {}
    <2> SUFFICES ASSUME T # {} PROVE FALSE
      OBVIOUS
    <2>1. PICK j \in T : \A y \in T : j <= y
      <3>1. T \subseteq Nat
        BY <1>1
      <3> HIDE DEF T
      <3> QED BY <3>1, LeastNat
    <2>2. j \in 0 .. k /\ ~Reached(after[j])
      OBVIOUS
    <2>3. j # 0
      <3>1. Onward(w, o, w, o)
        BY <1>1, OnwardRefl
      <3>2. Reached(w)
        BY <3>1
      <3> HIDE DEF Reached
      <3> QED BY <1>3, <2>2, <3>2
    <2>4. j - 1 \in 0 .. k /\ j - 1 \notin T
      <3>1. j \in Nat /\ k \in Nat
        BY <1>1, <2>2
      <3>2. j - 1 \in 0 .. k /\ ~(j <= j - 1)
        BY <2>2, <2>3, <3>1
      <3> HIDE DEF T
      <3> QED BY <2>1, <3>2
    <2>5. Reached(after[j - 1])
      BY <2>4
    <2>6. PICK u : u = after[j - 1]
      OBVIOUS
    <2>7. PICK o1 : Good(u, q, n, S, R, V, d, o1) /\ Onward(w, o, u, o1)
      BY <2>5, <2>6
    <2>8. p \in DOMAIN u.ports /\ ~Receiving(u.ports, p)
      BY <2>7 DEF Onward, Kept, Receiving
    <2>9. PICK o2 : Good(ForwardNext(u, p), q, n, S, R, V, d, o2) /\ Onward(u, o1, ForwardNext(u, p), o2)
      BY <2>7, <2>8, ForwardNextGood
    <2>10. Reached(ForwardNext(u, p))
      BY <2>7, <2>9, OnwardTrans
    <2>11. after[j] = ForwardNext(u, p)
      BY <1>3, <2>2, <2>3, <2>6
    <2> HIDE DEF Reached
    <2> QED BY <2>2, <2>10, <2>11
  <1>5. Reached(after[k])
    <2>1. k \in 0 .. k
      BY <1>1
    <2> QED BY <1>4, <2>1
  <1> QED BY <1>2, <1>5

\* A proxy's erasure.
LEMMA ErasePortsFields ==
    ASSUME NEW w, IsWorld(w), NEW K, NEW v, v = ErasePorts(w, K)
    PROVE  /\ IsWorld(v) /\ v.ports = Without(w.ports, K) /\ v.names = w.names
           /\ v.held = w.held \ K
           /\ v.closed = w.closed /\ v.mate = w.mate /\ v.merged = w.merged
           /\ v.out = w.out
  <1>1. PICK a, b, c, e, f, g, h :
          w = [ ports |-> a, names |-> b, held |-> c, closed |-> e, mate |-> f,
                merged |-> g, out |-> h ]
    BY Zenon DEF IsWorld
  <1>2. v = [ ports |-> Without(a, K), names |-> b, held |-> c \ K, closed |-> e, mate |-> f,
              merged |-> g, out |-> h ]
    BY <1>1 DEF ErasePorts, Without
  <1>3. Without(a, K) = [x \in DOMAIN Without(a, K) |-> Without(a, K)[x]]
    BY DEF Without
  <1> QED BY <1>1, <1>2, <1>3 DEF IsWorld

\* Forwarding a sequence of at most one event.
LEMMA OutConcat ==
    ASSUME NEW w, IsWorld(w), NEW T, w.out \in Seq(T)
    PROVE  /\ [w EXCEPT !.out = @ \o << >>] = w
           /\ \A e \in T : [w EXCEPT !.out = @ \o <<e>>] = Forward(w, e)
  <1>1. PICK a, b, c, dd, f, g, h :
          w = [ ports |-> a, names |-> b, held |-> c, closed |-> dd, mate |-> f,
                merged |-> g, out |-> h ]
    BY Zenon DEF IsWorld
  <1>2. h \in Seq(T)
    BY <1>1
  <1>3. h \o << >> = h
    BY <1>2
  <1>4. \A e \in T : h \o <<e>> = Append(h, e)
    BY <1>2
  <1>5. [w EXCEPT !.out = @ \o << >>] = w
    BY <1>1, <1>3
  <1>6. ASSUME NEW e \in T PROVE [w EXCEPT !.out = @ \o <<e>>] = Forward(w, e)
    BY <1>1, <1>4 DEF Forward
  <1> QED BY <1>5, <1>6

\* Apart from port p, the ports stay.
Survive(w, v, p) ==
    /\ v.names = w.names /\ v.closed = w.closed /\ v.mate = w.mate /\ v.merged = w.merged
    /\ \A x \in DOMAIN w.ports \ {p} : x \in DOMAIN v.ports /\ v.ports[x] = w.ports[x]

\* Forwarding an event touches no port.
LEMMA ForwardSurvive ==
    ASSUME NEW w, NEW v, NEW p, NEW e, IsWorld(v), Survive(w, v, p)
    PROVE  Survive(w, Forward(v, e), p)
  BY ForwardFields DEF Survive

\* A proxy may be erased, and then its peer be told.
LEMMA TryRemoveGood ==
    ASSUME NEW w, NEW q, NEW n, NEW S, NEW R, NEW V, NEW d, NEW o, Out \notin DOMAIN q,
           Good(w, q, n, S, R, V, d, o),
           NEW p \in DOMAIN w.ports, w.ports[p].state = "Proxying",
           NEW v, v = TryRemoveProxy(w, p)
    PROVE  Good(v, q, n, S, R, V, d, o) /\ Survive(w, v, p)
  <1>0. w.ports[p] \in PortRecord(w.names) /\ IsWorld(w)
    BY DEF Good, Safe, WellTyped
  <1>1. CASE v = w
    BY <1>1 DEF Survive
  <1>2. CASE v # w
    <2> DEFINE u == ErasePorts(w, {p})
               s == w.ports[p].send_on_proxy_removal
    <2>1. v = [u EXCEPT !.out = @ \o s]
      BY <1>2 DEF TryRemoveProxy
    <2>2. /\ IsWorld(u) /\ u.ports = Without(w.ports, {p}) /\ u.names = w.names
          /\ u.held = w.held \ {p} /\ u.closed = w.closed /\ u.mate = w.mate
          /\ u.merged = w.merged /\ u.out = w.out
      BY <1>0, ErasePortsFields
    <2>3. s \in AtMostOne(Acknowledgement(w.names))
      BY <1>0 DEF PortRecord
    <2> HIDE DEF u
    <2>4. Ev(q, u) = Ev(q, w)
      BY <2>2 DEF Ev
    <2>5. Good(u, q, n, S, R, V, d, o)
      <3>1. Safe(w.ports, w.names, w.held, w.closed, w.mate, w.merged, Ev(q, w), S, R, V, d, o)
        BY DEF Good
      <3>2. Safe(Without(w.ports, {p}), w.names, w.held \ {p}, w.closed, w.mate, w.merged,
                 Ev(q, w), S, R, V, d, o)
        BY <3>1, Erase DEF Without
      <3>3. Safe(u.ports, u.names, u.held, u.closed, u.mate, u.merged, Ev(q, u), S, R, V, d, o)
        BY <2>2, <2>4, <3>2
      <3> QED BY <2>2, <3>3 DEF Good
    <2>6. Survive(w, u, p)
      BY <2>2 DEF Survive, Without
    <2>7. w.out \in Seq(Event(w.names))
      BY DEF Good
    <2>8. CASE s = << >>
      <3>1. v = u
        BY <2>1, <2>2, <2>7, <2>8, OutConcat
      <3> QED BY <2>5, <2>6, <3>1
    <2>9. CASE s # << >>
      <3> PICK a : a = s[1]
        OBVIOUS
      <3>1. a \in Acknowledgement(w.names) /\ s = <<a>>
        BY <2>3, <2>9, AtMostOneFacts
      <3>2. a \in Event(w.names) /\ a.type = "ObserveProxyAck"
        BY <3>1 DEF Event, Acknowledgement
      <3>3. v = Forward(u, a)
        <4>1. v = [u EXCEPT !.out = @ \o <<a>>]
          BY <2>1, <3>1
        <4>2. \A e \in Event(w.names) : [u EXCEPT !.out = @ \o <<e>>] = Forward(u, e)
          BY <2>2, <2>7, OutConcat
        <4> HIDE DEF s
        <4> QED BY <3>2, <4>1, <4>2
      <3>4. Announced(w.ports, Ev(q, w), a.port_name)
        BY <2>9 DEF Good, Safe, Moves
      <3>5. Announced(u.ports, Ev(q, u), a.port_name)
        BY <2>2, <2>4, <3>4 DEF Announced, Without
      <3>6. MaySend(u, q, S, d, o, a)
        BY <3>2, <3>5 DEF MaySend, Sendable, Moving, Attaching
      <3>7. InPlace(n, a)
        BY <3>2 DEF InPlace, Attaching
      <3>8. Good(v, q, n, S, R, V, d, o)
        BY <2>2, <2>5, <3>2, <3>3, <3>6, <3>7, GoodForward
      <3>9. Survive(w, v, p)
        BY <2>2, <2>6, <3>3, ForwardSurvive
      <3> QED BY <3>8, <3>9
    <2> QED BY <2>8, <2>9
  <1> QED BY <1>1, <1>2

\* A closure may be told to who may know it.
LEMMA GoodClosure ==
    ASSUME NEW w, NEW q, NEW n, NEW S, NEW R, NEW V, NEW d, NEW o, Out \notin DOMAIN q,
           Good(w, q, n, S, R, V, d, o),
           NEW to \in Addr(w.names), NEW last \in Nat,
           Tellable(d[o[to]], last, S, w.mate, w.closed, w.merged)
    PROVE  Good(Forward(w, ObserveClosure(to, last)), q, n, S, R, V, d, o)
  <1> DEFINE e == ObserveClosure(to, last)
  <1>1. /\ e \in Event(w.names) /\ e.type = "ObserveClosure" /\ e.port_name = to
        /\ e.last_sequence_num = last
    BY DEF ObserveClosure, Event, Closure
  <1> HIDE DEF e
  <1>2. MaySend(w, q, S, d, o, e)
    BY <1>1 DEF MaySend, Sendable, Moving, Attaching
  <1>3. InPlace(n, e)
    BY <1>1 DEF InPlace, Attaching
  <1> QED BY <1>1, <1>2, <1>3, GoodForward DEF e

\* A proxy may announce itself.
LEMMA InitiateGood ==
    ASSUME NEW w, NEW q, NEW n, NEW S, NEW R, NEW V, NEW d, NEW o, Out \notin DOMAIN q,
           Good(w, q, n, S, R, V, d, o),
           NEW p \in DOMAIN w.ports, w.ports[p].state = "Proxying",
           NEW v, v = InitiateProxyRemoval(w, p)
    PROVE  Good(v, q, n, S, R, V, d, o) /\ Survive(w, v, p)
  <1> DEFINE a == w.ports[p].peer
             e == ObserveProxy(a, p, a)
  <1>0. /\ a \in Addr(w.names) /\ p \in Addr(w.names) /\ d[o[p]] = d[o[a]] /\ IsWorld(w)
        /\ NotUnborn(Ev(q, w), p)
    <2>1. a \in Addr(w.names) /\ p \in Addr(w.names) /\ IsWorld(w)
      BY AddressesKnown DEF Good
    <2>2. d[o[p]] = d[o[a]]
      BY DEF Good, Safe, Routes, Receiving
    <2>3. NotUnborn(Ev(q, w), p)
      BY DEF NotUnborn, Good, Safe, Moves
    <2> QED BY <2>1, <2>2, <2>3
  <1>1. /\ e \in Event(w.names) /\ e.type = "ObserveProxy" /\ e.port_name = a
        /\ e.proxy = p /\ e.proxy_target = a
    <2> HIDE DEF a
    <2> QED BY <1>0 DEF ObserveProxy, Event, Announcement
  <1>2. v = Forward(w, e)
    BY DEF InitiateProxyRemoval
  <1>3. Announced(w.ports, Ev(q, w), p)
    BY <1>0 DEF Announced
  <1> HIDE DEF e, a
  <1>4. MaySend(w, q, S, d, o, e)
    BY <1>0, <1>1, <1>3 DEF MaySend, Sendable, Moving, Attaching
  <1>5. InPlace(n, e)
    BY <1>1 DEF InPlace, Attaching
  <1>6. Good(v, q, n, S, R, V, d, o)
    BY <1>1, <1>2, <1>4, <1>5, GoodForward
  <1>7. Survive(w, w, p)
    BY DEF Survive
  <1> QED BY <1>0, <1>2, <1>6, <1>7, ForwardSurvive

\* What is known of a closure is passed on by a proxy that stops buffering.
LEMMA CompleteGood ==
    ASSUME NEW w, NEW q, NEW n, NEW S, NEW R, NEW V, NEW d, NEW o, Out \notin DOMAIN q,
           Good(w, q, n, S, R, V, d, o),
           NEW p \in DOMAIN w.ports, w.ports[p].state = "Proxying",
           w.ports[p].remove_proxy_on_last_message =>
             Tellable(d[o[w.ports[p].peer]], w.ports[p].last_sequence_num_to_receive,
                      S, w.mate, w.closed, w.merged),
           NEW v, v = CompleteMerge(w, p)
    PROVE  Good(v, q, n, S, R, V, d, o) /\ Survive(w, v, p)
  <1>1. CASE ~w.ports[p].remove_proxy_on_last_message
    BY <1>1, InitiateGood DEF CompleteMerge
  <1>2. CASE w.ports[p].remove_proxy_on_last_message
    <2> DEFINE a == w.ports[p].peer
               l == w.ports[p].last_sequence_num_to_receive
    <2>1. PICK u : u = TryRemoveProxy(w, p)
      OBVIOUS
    <2>2. v = Forward(u, ObserveClosure(a, l))
      BY <1>2, <2>1 DEF CompleteMerge
    <2>3. Good(u, q, n, S, R, V, d, o) /\ Survive(w, u, p)
      BY <2>1, TryRemoveGood
    <2>4. a \in Addr(w.names) /\ l \in Nat
      <3>1. w.ports[p] \in PortRecord(w.names)
        BY DEF Good, Safe, WellTyped
      <3> QED BY <3>1 DEF PortRecord
    <2>5. a \in Addr(u.names) /\ Tellable(d[o[a]], l, S, u.mate, u.closed, u.merged)
      BY <1>2, <2>3, <2>4 DEF Survive
    <2> HIDE DEF a, l
    <2>6. Good(v, q, n, S, R, V, d, o)
      BY <2>2, <2>3, <2>4, <2>5, GoodClosure
    <2>7. Survive(w, v, p)
      BY <2>2, <2>3, ForwardSurvive DEF Good
    <2> QED BY <2>6, <2>7
  <1> QED BY <1>1, <1>2

\* A port whose new place has accepted it starts to forward.
LEMMA BeginGood ==
    ASSUME NEW w, NEW q, NEW n, NEW S, NEW R, NEW V, NEW d, NEW o, Out \notin DOMAIN q,
           Good(w, q, n, S, R, V, d, o),
           NEW p \in DOMAIN w.ports, w.ports[p].state = "Buffering", p[1] = n,
           \A y \in DOMAIN Ev(q, w) :
              /\ Ev(q, w)[y].type = "PortAccepted" => Ev(q, w)[y].port_name # p
              /\ Moving(Ev(q, w)[y]) => Described(Ev(q, w)[y]).referring # p,
           NEW v, v = BeginProxying(w, p)
    PROVE  \E o2 : Good(v, q, n, S, R, V, d, o2)
  <1> DEFINE P2 == [w.ports EXCEPT ![p].state = "Proxying"]
             u == WithPorts(w, P2)
  <1>0. IsWorld(w) /\ w.ports[p] \in PortRecord(w.names)
    BY DEF Good, Safe, WellTyped
  <1>1. P2 = [x \in DOMAIN P2 |-> P2[x]]
    BY <1>0 DEF IsWorld
  <1>2. Safe(P2, w.names, w.held, w.closed, w.mate, w.merged, Ev(q, w), S, R, V, d, o)
    BY Begin DEF Good
  <1>3. /\ p \in DOMAIN P2
        /\ P2[p].state = "Proxying"
        /\ P2[p].end = w.ports[p].end
        /\ P2[p].peer = w.ports[p].peer
        /\ P2[p].remove_proxy_on_last_message = w.ports[p].remove_proxy_on_last_message
        /\ P2[p].last_sequence_num_to_receive = w.ports[p].last_sequence_num_to_receive
    BY <1>0 DEF PortRecord
  <1>a. BeginProxying(w, p) = CompleteMerge(ForwardUserMessagesFromProxy(u, p), p)
    BY DEF BeginProxying, CompleteMerge, WithPorts
  <1> HIDE DEF P2
  <1>4. Good(u, q, n, S, R, V, d, o)
    BY <1>1, <1>2, GoodPorts
  <1>5. /\ u.ports = P2 /\ u.names = w.names /\ u.closed = w.closed /\ u.mate = w.mate
        /\ u.merged = w.merged
    BY <1>0, <1>1, WithPortsFields
  <1> HIDE DEF u
  <1>6. PICK x : x = ForwardUserMessagesFromProxy(u, p)
    OBVIOUS
  <1>7. p \in DOMAIN u.ports /\ ~Receiving(u.ports, p)
    BY <1>3, <1>5 DEF Receiving
  <1>8. PICK o2 : Good(x, q, n, S, R, V, d, o2) /\ Onward(u, o, x, o2)
    BY <1>4, <1>6, <1>7, FlushGood
  <1>9. Kept(x.ports[p], u.ports[p]) /\ p \in DOMAIN x.ports
    BY <1>7, <1>8 DEF Onward
  <1>10. x.ports[p].remove_proxy_on_last_message =>
             Tellable(d[o2[x.ports[p].peer]], x.ports[p].last_sequence_num_to_receive,
                      S, x.mate, x.closed, x.merged)
    <2>1. w.ports[p].peer \in Addr(w.names) /\ d[o[w.ports[p].peer]] = d[w.ports[p].end]
      BY AddressesKnown DEF Good, Safe, Routes, Receiving
    <2>2. o2[w.ports[p].peer] = o[w.ports[p].peer]
      BY <1>5, <1>8, <2>1 DEF Onward
    <2>3. w.ports[p].remove_proxy_on_last_message =>
             Tellable(d[w.ports[p].end], w.ports[p].last_sequence_num_to_receive,
                      S, w.mate, w.closed, w.merged)
      BY DEF Good, Safe, Closures
    <2>4. x.mate = w.mate /\ x.closed = w.closed /\ x.merged = w.merged
      BY <1>5, <1>8 DEF Onward
    <2>5. /\ x.ports[p].remove_proxy_on_last_message = w.ports[p].remove_proxy_on_last_message
          /\ x.ports[p].peer = w.ports[p].peer
          /\ x.ports[p].last_sequence_num_to_receive = w.ports[p].last_sequence_num_to_receive
      BY <1>3, <1>5, <1>9 DEF Kept
    <2> QED BY <2>1, <2>2, <2>3, <2>4, <2>5
  <1>11. x.ports[p].state = "Proxying"
    BY <1>3, <1>5, <1>9 DEF Kept
  <1>12. v = CompleteMerge(x, p)
    BY <1>a, <1>6
  <1> QED BY <1>8, <1>9, <1>10, <1>11, <1>12, CompleteGood

-----------------------------------------------------------------------------
(* The handlers.                                                            *)

\* A handler of node n has event e in its hands.
Hand(w, q, n, S, R, V, d, o, e) ==
    /\ IsWorld(w)
    /\ w.out = << >>
    /\ InPlace(n, e) /\ e.port_name[1] = n
    /\ \E E, x : /\ Extends(E, Ev(q, w), x, e)
                 /\ Safe(w.ports, w.names, w.held, w.closed, w.mate, w.merged, E, S, R, V, d, o)

\* What is known of an event that is taken.
LEMMA TakenSendable ==
    ASSUME NEW P, NEW N, NEW H, NEW C, NEW M, NEW G, NEW E, NEW S, NEW R, NEW V, NEW d, NEW o,
           Safe(P, N, H, C, M, G, E, S, R, V, d, o),
           NEW E2, NEW x, NEW e, Extends(E, E2, x, e), ~Moving(e)
    PROVE  Sendable(P, H, E2, C, M, G, S, d, o, e) /\ e \in Event(N)
  <1>1. /\ x \in DOMAIN E /\ E[x] = e /\ x \notin DOMAIN E2
        /\ \A y \in DOMAIN E2 : y \in DOMAIN E /\ y # x /\ E2[y] = E[y]
    BY DEF Extends
  <1>2. e \in Event(N)
    BY <1>1 DEF Safe, WellTyped
  <1>3. Attaching(e) => Unattached(P, H, E2, Carried(e)) /\ P[Carried(e)].end \notin ToMerge
    BY <1>1 DEF Safe, Carry, Unattached, Loose
  <1>4. e.type = "UserMessage" => Deliverable(e, e.port_name, S, M, d, o)
    BY <1>1 DEF Safe, Routes, Numbers, Deliverable
  <1>5. e.type = "PortAccepted" =>
          /\ e.port_name \in DOMAIN P
          /\ P[e.port_name].state = "Buffering"
          /\ \A y \in DOMAIN E2 :
                /\ E2[y].type = "PortAccepted" => E2[y].port_name # e.port_name
                /\ Moving(E2[y]) => Described(E2[y]).referring # e.port_name
    BY <1>1 DEF Safe, Moves
  <1>6. \A a : Announced(P, E, a) => Announced(P, E2, a)
    BY <1>1 DEF Announced, NotUnborn
  <1>7. e.type = "ObserveProxy" =>
          Announced(P, E2, e.proxy) /\ d[o[e.proxy]] = d[o[e.proxy_target]]
    BY <1>1, <1>6 DEF Safe, Moves, Routes
  <1>8. e.type = "ObserveProxyAck" => Announced(P, E2, e.port_name)
    BY <1>1, <1>6 DEF Safe, Moves
  <1>9. e.type = "ObserveClosure" =>
          Tellable(d[o[e.port_name]], e.last_sequence_num, S, M, C, G)
    BY <1>1 DEF Safe, Closures
  <1>10. e.type # "MergePort"
    BY <1>1 DEF Safe, Moves
  <1> QED BY <1>2, <1>3, <1>4, <1>5, <1>7, <1>8, <1>9, <1>10 DEF Sendable

\* What a handler knows of an event that brings no new port.
LEMMA HandGood ==
    ASSUME NEW w, NEW q, NEW n, NEW S, NEW R, NEW V, NEW d, NEW o, NEW e,
           Hand(w, q, n, S, R, V, d, o, e), ~Moving(e)
    PROVE  /\ Good(w, q, n, S, R, V, d, o)
           /\ MaySend(w, q, S, d, o, e)
           /\ e \in Event(w.names)
  <1>1. PICK E, x : /\ Extends(E, Ev(q, w), x, e)
                    /\ Safe(w.ports, w.names, w.held, w.closed, w.mate, w.merged, E,
                            S, R, V, d, o)
    BY DEF Hand
  <1>2. Safe(w.ports, w.names, w.held, w.closed, w.mate, w.merged, Ev(q, w), S, R, V, d, o)
    BY <1>1, Drop
  <1>3. MaySend(w, q, S, d, o, e) /\ e \in Event(w.names)
    BY <1>1, TakenSendable DEF MaySend
  <1>4. w.out \in Seq(Event(w.names)) /\ \A i \in 1 .. Len(w.out) : InPlace(n, w.out[i])
    BY DEF Hand
  <1> QED BY <1>2, <1>3, <1>4 DEF Hand, Good

\* OnPortAccepted leaves a good world.
LEMMA OnPortAcceptedGood ==
    ASSUME NEW w, NEW q, NEW n, NEW S, NEW R, NEW V, NEW d, NEW o, Out \notin DOMAIN q, NEW e,
           Hand(w, q, n, S, R, V, d, o, e), e.type = "PortAccepted"
    PROVE  \E o2 : Good(OnPortAccepted(w, e), q, n, S, R, V, d, o2)
  <1>1. ~Moving(e)
    BY DEF Moving
  <1>2. Good(w, q, n, S, R, V, d, o) /\ MaySend(w, q, S, d, o, e)
    BY <1>1, HandGood
  <1>3. e.port_name[1] = n
    BY DEF Hand
  <1>4. /\ e.port_name \in DOMAIN w.ports
        /\ w.ports[e.port_name].state = "Buffering"
        /\ \A y \in DOMAIN Ev(q, w) :
              /\ Ev(q, w)[y].type = "PortAccepted" => Ev(q, w)[y].port_name # e.port_name
              /\ Moving(Ev(q, w)[y]) => Described(Ev(q, w)[y]).referring # e.port_name
    BY <1>2 DEF MaySend, Sendable
  <1>5. OnPortAccepted(w, e) = BeginProxying(w, e.port_name)
    BY <1>4 DEF OnPortAccepted
  <1> QED BY <1>2, <1>3, <1>4, <1>5, BeginGood

\* A world with another port p.
WithPort(w, p, r) == WithPorts(w, [w.ports EXCEPT ![p] = r])

\* A handler changes one port, and not its end, state or queue.
LEMMA GoodUpdate ==
    ASSUME NEW w, NEW q, NEW n, NEW S, NEW R, NEW V, NEW d, NEW o,
           Good(w, q, n, S, R, V, d, o),
           NEW p \in DOMAIN w.ports, NEW r,
           r \in PortRecord(w.names),
           r.end = w.ports[p].end,
           r.state = w.ports[p].state,
           r.message_queue = w.ports[p].message_queue,
           r.next_sequence_num_to_send = w.ports[p].next_sequence_num_to_send,
           r.next_sequence_num = w.ports[p].next_sequence_num,
           d[o[r.peer]] = d[o[w.ports[p].peer]],
           r.send_on_proxy_removal # << >> =>
              Announced(w.ports, Ev(q, w), r.send_on_proxy_removal[1].port_name),
           Receiving(w.ports, p) => ~r.remove_proxy_on_last_message,
           Receiving(w.ports, p) /\ r.peer_closed =>
              Tellable(w.ports[p].end, r.last_sequence_num_to_receive,
                       S, w.mate, w.closed, w.merged),
           w.ports[p].state = "Buffering" /\ r.remove_proxy_on_last_message =>
              Tellable(d[w.ports[p].end], r.last_sequence_num_to_receive,
                       S, w.mate, w.closed, w.merged),
           NEW V2, Hears(V2, V, r),
           NEW v, v = WithPort(w, p, r)
    PROVE  /\ Good(v, q, n, S, R, V2, d, o)
           /\ Ev(q, v) = Ev(q, w)
           /\ v.names = w.names /\ v.held = w.held /\ v.closed = w.closed
           /\ v.mate = w.mate /\ v.merged = w.merged
           /\ DOMAIN v.ports = DOMAIN w.ports /\ v.ports[p] = r
           /\ \A x \in DOMAIN w.ports : x # p => v.ports[x] = w.ports[x]
  <1> DEFINE P2 == [w.ports EXCEPT ![p] = r]
  <1>0. IsWorld(w)
    BY DEF Good
  <1>1. P2 = [x \in DOMAIN P2 |-> P2[x]]
    BY <1>0 DEF IsWorld
  <1>2. /\ P2[p] = r /\ DOMAIN P2 = DOMAIN w.ports
        /\ \A x \in DOMAIN w.ports : x # p => P2[x] = w.ports[x]
    OBVIOUS
  <1>3. Changes(P2, w.ports, p)
    BY <1>2 DEF Changes
  <1>v. v = WithPorts(w, P2)
    BY DEF WithPort
  <1> HIDE DEF P2
  <1>4. Safe(P2, w.names, w.held, w.closed, w.mate, w.merged, Ev(q, w), S, R, V2, d, o)
    BY <1>2, <1>3, Update DEF Good
  <1>5. Good(v, q, n, S, R, V2, d, o)
    BY <1>1, <1>4, <1>v, GoodPorts
  <1>6. /\ v.ports = P2 /\ v.names = w.names /\ v.held = w.held /\ v.closed = w.closed
        /\ v.mate = w.mate /\ v.merged = w.merged /\ v.out = w.out
    BY <1>0, <1>1, <1>v, WithPortsFields
  <1>7. Ev(q, v) = Ev(q, w)
    BY <1>6 DEF Ev
  <1> QED BY <1>2, <1>5, <1>6, <1>7

\* A port that knows of a closure what it knew.
LEMMA HearsNothing ==
    ASSUME NEW w, NEW q, NEW n, NEW S, NEW R, NEW V, NEW d, NEW o,
           Good(w, q, n, S, R, V, d, o), NEW p \in DOMAIN w.ports, NEW r,
           r.end = w.ports[p].end, r.state = w.ports[p].state,
           Receiving(w.ports, p) =>
             /\ r.peer_closed = w.ports[p].peer_closed
             /\ r.last_sequence_num_to_receive = w.ports[p].last_sequence_num_to_receive
    PROVE  Hears(V, V, r)
  BY DEF Good, Safe, Notified, Hears, Receiving

\* OnObserveProxy leaves a good world.
LEMMA OnObserveProxyGood ==
    ASSUME NEW w, NEW q, NEW n, NEW S, NEW R, NEW V, NEW d, NEW o, Out \notin DOMAIN q, NEW e,
           Hand(w, q, n, S, R, V, d, o, e), e.type = "ObserveProxy"
    PROVE  \E o2 : Good(OnObserveProxy(w, e), q, n, S, R, V, d, o2)
  <1> DEFINE p == e.port_name
             port == w.ports[p]
             v == OnObserveProxy(w, e)
  <1>1. ~Moving(e) /\ ~Attaching(e)
    BY DEF Moving, Attaching
  <1>2. Good(w, q, n, S, R, V, d, o) /\ MaySend(w, q, S, d, o, e) /\ e \in Event(w.names)
    BY <1>1, HandGood
  <1>3. e \in Announcement(w.names)
    BY <1>2, EventTypes
  <1>4. /\ Announced(w.ports, Ev(q, w), e.proxy) /\ d[o[e.proxy]] = d[o[e.proxy_target]]
        /\ e.proxy \in Addr(w.names) /\ e.proxy_target \in Addr(w.names)
        /\ p \in Addr(w.names)
    BY <1>2, <1>3 DEF MaySend, Sendable, Announcement
  <1>5. p[2] # InvalidPortName
    BY <1>4 DEF Addr, InvalidPortName
  <1>6. CASE p \notin DOMAIN w.ports
    <2>1. v = w
      BY <1>5, <1>6 DEF OnObserveProxy
    <2> QED BY <1>2, <2>1
  <1>7. CASE p \in DOMAIN w.ports /\ port.peer # e.proxy
    <2> DEFINE f == [e EXCEPT !.port_name = port.peer]
    <2>1. v = Forward(w, f)
      BY <1>5, <1>7 DEF OnObserveProxy
    <2>2. port.peer \in Addr(w.names)
      BY <1>2, <1>7, AddressesKnown DEF Good
    <2>3. /\ f \in Event(w.names) /\ f.type = "ObserveProxy" /\ f.proxy = e.proxy
          /\ f.proxy_target = e.proxy_target
      BY <1>3, <2>2 DEF Event, Announcement
    <2> HIDE DEF f
    <2>4. MaySend(w, q, S, d, o, f)
      BY <1>4, <2>3 DEF MaySend, Sendable, Moving, Attaching
    <2>5. InPlace(n, f)
      BY <2>3 DEF InPlace, Attaching
    <2> HIDE DEF v
    <2>6. Good(v, q, n, S, R, V, d, o)
      BY <1>2, <2>1, <2>3, <2>4, <2>5, GoodForward
    <2> QED BY <2>6 DEF v
  <1>a. ASSUME p \in DOMAIN w.ports
        PROVE  port \in PortRecord(w.names) /\ IsWorld(w)
    BY <1>2, <1>a DEF Good, Safe, WellTyped
  <1>8. CASE p \in DOMAIN w.ports /\ port.peer = e.proxy /\ port.state = "Receiving"
    <2> DEFINE r == [port EXCEPT !.peer = e.proxy_target]
               u == WithPort(w, p, r)
               l == port.next_sequence_num_to_send - 1
               a == ObserveProxyAck(e.proxy, l)
    <2>1. v = Forward(u, a)
      <3>1. [w EXCEPT !.ports[p].peer = e.proxy_target] = u
        BY DEF WithPort, WithPorts
      <3> QED BY <1>5, <1>8, <3>1 DEF OnObserveProxy
    <2>p. port \in PortRecord(w.names)
      BY <1>8, <1>a
    <2>2. /\ r \in PortRecord(w.names)
          /\ r.end = port.end /\ r.state = port.state
          /\ r.message_queue = port.message_queue
          /\ r.next_sequence_num_to_send = port.next_sequence_num_to_send
          /\ r.next_sequence_num = port.next_sequence_num
          /\ r.peer = e.proxy_target
          /\ r.send_on_proxy_removal = port.send_on_proxy_removal
          /\ r.remove_proxy_on_last_message = port.remove_proxy_on_last_message
          /\ r.peer_closed = port.peer_closed
          /\ r.last_sequence_num_to_receive = port.last_sequence_num_to_receive
      BY <2>p, <1>4 DEF PortRecord
    <2> HIDE DEF r
    <2>3. /\ port.send_on_proxy_removal # << >> =>
              Announced(w.ports, Ev(q, w), port.send_on_proxy_removal[1].port_name)
          /\ Receiving(w.ports, p) => ~port.remove_proxy_on_last_message
          /\ Receiving(w.ports, p) /\ port.peer_closed =>
              Tellable(port.end, port.last_sequence_num_to_receive,
                       S, w.mate, w.closed, w.merged)
          /\ port.state = "Buffering" /\ port.remove_proxy_on_last_message =>
              Tellable(d[port.end], port.last_sequence_num_to_receive,
                       S, w.mate, w.closed, w.merged)
      BY <1>2, <1>8 DEF Good, Safe, Moves, Closures
    <2>4. /\ Good(u, q, n, S, R, V, d, o)
          /\ Ev(q, u) = Ev(q, w)
          /\ u.names = w.names /\ DOMAIN u.ports = DOMAIN w.ports /\ u.ports[p] = r
          /\ \A x \in DOMAIN w.ports : x # p => u.ports[x] = w.ports[x]
      <3>1. Hears(V, V, r)
        BY <1>2, <1>8, <2>2, HearsNothing
      <3> QED BY <1>2, <1>4, <1>8, <2>2, <2>3, <3>1, GoodUpdate
    <2>5. l \in Nat
      BY <2>p DEF PortRecord
    <2>6. a \in Event(w.names) /\ a.type = "ObserveProxyAck" /\ a.port_name = e.proxy
      <3> HIDE DEF l
      <3> QED BY <1>4, <2>5 DEF ObserveProxyAck, Event, Acknowledgement
    <2>7. Announced(u.ports, Ev(q, u), e.proxy)
      BY <1>4, <2>2, <2>4 DEF Announced
    <2> HIDE DEF a, u
    <2>8. MaySend(u, q, S, d, o, a)
      BY <2>6, <2>7 DEF MaySend, Sendable, Moving, Attaching
    <2>9. InPlace(n, a)
      BY <2>6 DEF InPlace, Attaching
    <2>10. Good(Forward(u, a), q, n, S, R, V, d, o)
      BY <2>4, <2>6, <2>8, <2>9, GoodForward
    <2> QED BY <2>1, <2>10
  <1>9. CASE p \in DOMAIN w.ports /\ port.peer = e.proxy /\ port.state # "Receiving"
    <2> DEFINE a == ObserveProxyAck(e.proxy, InvalidSequenceNum)
               r == [port EXCEPT !.send_on_proxy_removal = <<a>>]
               u == WithPort(w, p, r)
    <2>1. v = u
      <3>1. [w EXCEPT !.ports[p].send_on_proxy_removal = <<a>>] = u
        BY DEF WithPort, WithPorts
      <3> QED BY <1>5, <1>9, <3>1 DEF OnObserveProxy
    <2>p. port \in PortRecord(w.names)
      BY <1>9, <1>a
    <2>a. a \in Acknowledgement(w.names) /\ a.port_name = e.proxy
      BY <1>4 DEF ObserveProxyAck, Acknowledgement, InvalidSequenceNum
    <2>b. <<a>> \in AtMostOne(Acknowledgement(w.names)) /\ <<a>>[1] = a
      BY <2>a, AtMostOneFacts
    <2> HIDE DEF a
    <2>2. /\ r \in PortRecord(w.names)
          /\ r.end = port.end /\ r.state = port.state
          /\ r.message_queue = port.message_queue
          /\ r.next_sequence_num_to_send = port.next_sequence_num_to_send
          /\ r.next_sequence_num = port.next_sequence_num
          /\ r.peer = port.peer
          /\ r.send_on_proxy_removal = <<a>>
          /\ r.remove_proxy_on_last_message = port.remove_proxy_on_last_message
          /\ r.peer_closed = port.peer_closed
          /\ r.last_sequence_num_to_receive = port.last_sequence_num_to_receive
      BY <2>p, <2>b DEF PortRecord
    <2> HIDE DEF r
    <2>3. /\ Receiving(w.ports, p) => ~port.remove_proxy_on_last_message
          /\ Receiving(w.ports, p) /\ port.peer_closed =>
              Tellable(port.end, port.last_sequence_num_to_receive,
                       S, w.mate, w.closed, w.merged)
          /\ port.state = "Buffering" /\ port.remove_proxy_on_last_message =>
              Tellable(d[port.end], port.last_sequence_num_to_receive,
                       S, w.mate, w.closed, w.merged)
      BY <1>2, <1>9 DEF Good, Safe, Closures
    <2>5. r.send_on_proxy_removal # << >> =>
              Announced(w.ports, Ev(q, w), r.send_on_proxy_removal[1].port_name)
      BY <1>4, <2>a, <2>b, <2>2
    <2>4. Good(u, q, n, S, R, V, d, o)
      <3>1. Hears(V, V, r)
        BY <1>2, <1>9, <2>2, HearsNothing
      <3> QED BY <1>2, <1>4, <1>9, <2>2, <2>3, <2>5, <3>1, GoodUpdate
    <2> QED BY <2>1, <2>4
  <1> QED BY <1>6, <1>7, <1>8, <1>9

\* OnObserveProxyAck leaves a good world.
LEMMA OnObserveProxyAckGood ==
    ASSUME NEW w, NEW q, NEW n, NEW S, NEW R, NEW V, NEW d, NEW o, Out \notin DOMAIN q, NEW e,
           Hand(w, q, n, S, R, V, d, o, e), e.type = "ObserveProxyAck"
    PROVE  \E o2 : Good(OnObserveProxyAck(w, e), q, n, S, R, V, d, o2)
  <1> DEFINE p == e.port_name
             port == w.ports[p]
             last == e.last_sequence_num
             v == OnObserveProxyAck(w, e)
  <1>1. ~Moving(e)
    BY DEF Moving
  <1>2. Good(w, q, n, S, R, V, d, o) /\ MaySend(w, q, S, d, o, e) /\ e \in Event(w.names)
    BY <1>1, HandGood
  <1>3. e \in Acknowledgement(w.names)
    BY <1>2, EventTypes
  <1>4. Announced(w.ports, Ev(q, w), p)
    BY <1>2 DEF MaySend, Sendable
  <1>5. p \in DOMAIN w.ports => port.state = "Proxying"
    BY <1>4 DEF Announced
  <1>6. CASE p \notin DOMAIN w.ports
    <2>1. v = w
      BY <1>6 DEF OnObserveProxyAck
    <2> QED BY <1>2, <2>1
  <1>7. CASE p \in DOMAIN w.ports /\ last = InvalidSequenceNum
    <2>1. v = InitiateProxyRemoval(w, p)
      BY <1>7 DEF OnObserveProxyAck
    <2> QED BY <1>2, <1>5, <1>7, <2>1, InitiateGood
  <1>8. CASE p \in DOMAIN w.ports /\ last # InvalidSequenceNum
    <2> DEFINE r == [port EXCEPT !.remove_proxy_on_last_message = TRUE,
                                 !.last_sequence_num_to_receive = last]
               u == WithPort(w, p, r)
    <2>p. port \in PortRecord(w.names) /\ IsWorld(w)
      BY <1>2, <1>8 DEF Good, Safe, WellTyped
    <2>1. v = TryRemoveProxy(u, p)
      <3>1. [w EXCEPT !.ports[p].remove_proxy_on_last_message = TRUE,
                      !.ports[p].last_sequence_num_to_receive = last] = u
        <4>1. PICK P : P = w.ports
          OBVIOUS
        <4>2. P = [x \in DOMAIN P |-> P[x]] /\ p \in DOMAIN P /\ P[p] \in PortRecord(w.names)
          BY <1>8, <2>p, <4>1 DEF IsWorld
        <4>3. [P EXCEPT ![p].remove_proxy_on_last_message = TRUE,
                        ![p].last_sequence_num_to_receive = last]
               = [P EXCEPT ![p] = [P[p] EXCEPT !.remove_proxy_on_last_message = TRUE,
                                               !.last_sequence_num_to_receive = last]]
          BY <4>2
        <4>4. [w EXCEPT !.ports[p].remove_proxy_on_last_message = TRUE,
                        !.ports[p].last_sequence_num_to_receive = last]
               = [w EXCEPT !.ports = [w.ports EXCEPT
                                        ![p].remove_proxy_on_last_message = TRUE,
                                        ![p].last_sequence_num_to_receive = last]]
          OBVIOUS
        <4> QED BY <4>1, <4>3, <4>4 DEF WithPort, WithPorts
      <3> QED BY <1>8, <3>1 DEF OnObserveProxyAck
    <2>a. last \in Nat
      BY <1>3, <1>8 DEF Acknowledgement
    <2>2. /\ r \in PortRecord(w.names)
          /\ r.end = port.end /\ r.state = port.state
          /\ r.message_queue = port.message_queue
          /\ r.next_sequence_num_to_send = port.next_sequence_num_to_send
          /\ r.next_sequence_num = port.next_sequence_num
          /\ r.peer = port.peer
          /\ r.send_on_proxy_removal = port.send_on_proxy_removal
      BY <2>p, <2>a DEF PortRecord
    <2> HIDE DEF r
    <2>3. /\ port.send_on_proxy_removal # << >> =>
              Announced(w.ports, Ev(q, w), port.send_on_proxy_removal[1].port_name)
      BY <1>2, <1>8 DEF Good, Safe, Moves
    <2>5. ~Receiving(w.ports, p) /\ port.state # "Buffering"
      BY <1>5, <1>8 DEF Receiving
    <2>4. Good(u, q, n, S, R, V, d, o) /\ p \in DOMAIN u.ports /\ u.ports[p] = r
      <3>1. Hears(V, V, r)
        BY <1>2, <1>8, <2>2, <2>5, HearsNothing
      <3> QED BY <1>2, <1>8, <2>2, <2>3, <2>5, <3>1, GoodUpdate
    <2> HIDE DEF u, v
    <2>6. Good(v, q, n, S, R, V, d, o)
      BY <1>5, <1>8, <2>1, <2>2, <2>4, TryRemoveGood
    <2> QED BY <2>6 DEF v
  <1> QED BY <1>6, <1>7, <1>8

\* V2 is V, or one end more has been told of a closure and nothing was closed.
Follows(V2, V, C2, C) ==
    \/ V2 = V
    \/ /\ C2 = C
       /\ V2.gone = V.gone
       /\ \E e \in Ends :
             /\ V2.told[e] = TRUE
             /\ \A f \in Ends : f # e => V2.told[f] = V.told[f] /\ V2.last[f] = V.last[f]

\* OnObserveClosure leaves a good world.
LEMMA OnObserveClosureGood ==
    ASSUME NEW w, NEW q, NEW n, NEW S, NEW R, NEW V, NEW d, NEW o, Out \notin DOMAIN q, NEW e,
           Hand(w, q, n, S, R, V, d, o, e), e.type = "ObserveClosure"
    PROVE  \E V2, o2 : /\ Good(OnObserveClosure(w, e), q, n, S, R, V2, d, o2)
                        /\ Follows(V2, V, OnObserveClosure(w, e).closed, w.closed)
  <1> DEFINE p == e.port_name
             port == w.ports[p]
             last == e.last_sequence_num
             receiving == port.state = "Receiving"
             v == OnObserveClosure(w, e)
  <1>1. ~Moving(e)
    BY DEF Moving
  <1>2. Good(w, q, n, S, R, V, d, o) /\ MaySend(w, q, S, d, o, e) /\ e \in Event(w.names)
    BY <1>1, HandGood
  <1>3. e \in Closure(w.names)
    BY <1>2, EventTypes
  <1>4. last \in Nat /\ Tellable(d[o[p]], last, S, w.mate, w.closed, w.merged)
    BY <1>2, <1>3 DEF MaySend, Sendable, Closure
  <1>5. CASE p \notin DOMAIN w.ports
    <2>1. v = w
      BY <1>5 DEF OnObserveClosure
    <2> QED BY <1>2, <2>1 DEF Follows
  <1>6. CASE p \in DOMAIN w.ports
    <2> DEFINE r == [port EXCEPT !.peer_closed = TRUE,
                                 !.last_sequence_num_to_receive = last,
                                 !.remove_proxy_on_last_message = @ \/ ~receiving]
               u == WithPort(w, p, r)
               x == IF port.state = "Proxying" THEN TryRemoveProxy(u, p) ELSE u
               l == IF receiving THEN port.next_sequence_num_to_send - 1 ELSE last
               a == port.peer
    <2>p. port \in PortRecord(w.names) /\ IsWorld(w)
      BY <1>2, <1>6 DEF Good, Safe, WellTyped
    <2>1. v = Forward(x, ObserveClosure(a, l))
      <3> DEFINE b == port.remove_proxy_on_last_message \/ ~receiving
      <3>1. [w EXCEPT !.ports[p].peer_closed = TRUE,
                      !.ports[p].last_sequence_num_to_receive = last,
                      !.ports[p].remove_proxy_on_last_message = @ \/ ~receiving] = u
        <4>1. PICK P : P = w.ports
          OBVIOUS
        <4>2. P = [y \in DOMAIN P |-> P[y]] /\ p \in DOMAIN P /\ P[p] \in PortRecord(w.names)
          BY <1>6, <2>p, <4>1 DEF IsWorld
        <4>3. [P EXCEPT ![p].peer_closed = TRUE,
                        ![p].last_sequence_num_to_receive = last,
                        ![p].remove_proxy_on_last_message = @ \/ ~receiving]
               = [P EXCEPT ![p] = [P[p] EXCEPT !.peer_closed = TRUE,
                                               !.last_sequence_num_to_receive = last,
                                               !.remove_proxy_on_last_message = @ \/ ~receiving]]
          BY <4>2 DEF PortRecord
        <4>4. [w EXCEPT !.ports[p].peer_closed = TRUE,
                      !.ports[p].last_sequence_num_to_receive = last,
                      !.ports[p].remove_proxy_on_last_message = @ \/ ~receiving]
               = [w EXCEPT !.ports = [w.ports EXCEPT
                                 ![p].peer_closed = TRUE,
                                 ![p].last_sequence_num_to_receive = last,
                                 ![p].remove_proxy_on_last_message = @ \/ ~receiving]]
          OBVIOUS
        <4> QED BY <4>1, <4>3, <4>4 DEF WithPort, WithPorts
      <3> QED BY <1>6, <3>1 DEF OnObserveClosure
    <2>2. /\ r \in PortRecord(w.names)
          /\ r.end = port.end /\ r.state = port.state
          /\ r.message_queue = port.message_queue
          /\ r.next_sequence_num_to_send = port.next_sequence_num_to_send
          /\ r.next_sequence_num = port.next_sequence_num
          /\ r.peer = port.peer
          /\ r.send_on_proxy_removal = port.send_on_proxy_removal
          /\ r.remove_proxy_on_last_message
               = (port.remove_proxy_on_last_message \/ ~receiving)
          /\ r.last_sequence_num_to_receive = last
          /\ r.peer_closed = TRUE
      <3> PICK b \in BOOLEAN : b = (port.remove_proxy_on_last_message \/ ~receiving)
        OBVIOUS
      <3>1. r = [port EXCEPT !.peer_closed = TRUE, !.last_sequence_num_to_receive = last,
                             !.remove_proxy_on_last_message = b]
        OBVIOUS
      <3> HIDE DEF r, receiving
      <3>2. r \in PortRecord(w.names)
        BY <2>p, <1>4, <3>1, Zenon DEF PortRecord
      <3>3. /\ r.end = port.end /\ r.state = port.state
            /\ r.message_queue = port.message_queue
            /\ r.next_sequence_num_to_send = port.next_sequence_num_to_send
            /\ r.next_sequence_num = port.next_sequence_num
            /\ r.peer = port.peer
            /\ r.send_on_proxy_removal = port.send_on_proxy_removal
            /\ r.remove_proxy_on_last_message = b
            /\ r.last_sequence_num_to_receive = last
            /\ r.peer_closed = TRUE
        BY <2>p, <3>1 DEF PortRecord
      <3> QED BY <3>2, <3>3
    <2> HIDE DEF r
    <2>3. /\ port.send_on_proxy_removal # << >> =>
              Announced(w.ports, Ev(q, w), port.send_on_proxy_removal[1].port_name)
          /\ receiving => ~port.remove_proxy_on_last_message
          /\ receiving => port.end \notin w.closed \cup w.merged /\ d[port.end] = port.end
          /\ o[p] = port.end /\ port.end \in Ends
          /\ a \in Addr(w.names)
          /\ receiving => d[o[a]] = w.mate[port.end]
          /\ ~receiving => d[o[a]] = d[port.end]
      <3>1. /\ port.send_on_proxy_removal # << >> =>
                Announced(w.ports, Ev(q, w), port.send_on_proxy_removal[1].port_name)
            /\ receiving => ~port.remove_proxy_on_last_message
        BY <1>2, <1>6 DEF Good, Safe, Moves, Closures, Receiving
      <3>2. /\ receiving => port.end \notin w.closed \cup w.merged
            /\ a \in Addr(w.names) /\ port.end \in Ends
        BY <1>2, <1>6, AddressesKnown DEF Good, Safe, Single, Receiving
      <3>3. /\ o[p] = port.end
            /\ receiving => d[o[a]] = w.mate[port.end]
            /\ ~receiving => d[o[a]] = d[port.end]
        BY <1>2, <1>6 DEF Good, Safe, Routes, Receiving
      <3>4. receiving => d[port.end] = port.end
        BY <1>2, <3>2 DEF Good, Safe, Routes, Mated
      <3> QED BY <3>1, <3>2, <3>3, <3>4
    <2>4. /\ Receiving(w.ports, p) => ~r.remove_proxy_on_last_message
          /\ Receiving(w.ports, p) =>
                Tellable(port.end, last, S, w.mate, w.closed, w.merged)
          /\ Tellable(d[port.end], last, S, w.mate, w.closed, w.merged)
      BY <1>4, <2>2, <2>3 DEF Receiving
    <2>v. PICK V2 : /\ Hears(V2, V, r)
                    /\ \A C : Follows(V2, V, C, C)
      <3>1. CASE receiving
        <4>1. PICK t, s : /\ t = [y \in Ends |-> IF y = port.end THEN TRUE ELSE V.told[y]]
                          /\ s = [y \in Ends |-> IF y = port.end THEN last ELSE V.last[y]]
          OBVIOUS
        <4>2. PICK V2 : V2 = [gone |-> V.gone, told |-> t, last |-> s]
          OBVIOUS
        <4>3. V2.gone = V.gone /\ V2.told = t /\ V2.last = s
          BY <4>2
        <4>4. /\ V2.told[port.end] = TRUE /\ V2.last[port.end] = last
              /\ \A y \in Ends : y # port.end => V2.told[y] = V.told[y] /\ V2.last[y] = V.last[y]
          BY <2>3, <4>1, <4>3
        <4>5. Hears(V2, V, r)
          BY <2>2, <2>3, <3>1, <4>3, <4>4 DEF Hears
        <4>6. \A C : Follows(V2, V, C, C)
          BY <2>3, <4>3, <4>4 DEF Follows
        <4> QED BY <4>5, <4>6
      <3>2. CASE ~receiving
        BY <2>2, <3>2 DEF Hears, Follows
      <3> QED BY <3>1, <3>2
    <2>5. /\ Good(u, q, n, S, R, V2, d, o) /\ p \in DOMAIN u.ports /\ u.ports[p] = r
          /\ u.names = w.names /\ u.closed = w.closed /\ u.mate = w.mate /\ u.merged = w.merged
      BY <1>2, <1>6, <2>2, <2>3, <2>4, <2>v, GoodUpdate
    <2> HIDE DEF u
    <2>6. /\ Good(x, q, n, S, R, V2, d, o) /\ x.names = w.names /\ x.closed = w.closed
          /\ x.mate = w.mate /\ x.merged = w.merged
      <3>1. CASE port.state = "Proxying"
        <4>1. x = TryRemoveProxy(u, p)
          BY <3>1
        <4>2. Good(x, q, n, S, R, V2, d, o) /\ Survive(u, x, p)
          BY <2>2, <2>5, <3>1, <4>1, TryRemoveGood
        <4> QED BY <2>5, <4>2 DEF Survive
      <3>2. CASE port.state # "Proxying"
        BY <2>5, <3>2
      <3> QED BY <3>1, <3>2
    <2>7. l \in Nat
      BY <2>p, <1>4 DEF PortRecord
    <2>8. Tellable(d[o[a]], l, S, w.mate, w.closed, w.merged)
      <3>1. CASE receiving
        <4>1. w.mate[port.end] \in w.closed
          BY <2>3, <2>4, <3>1 DEF Tellable, Receiving
        <4> QED BY <2>3, <3>1, <4>1 DEF Tellable
      <3>2. CASE ~receiving
        BY <2>3, <2>4, <3>2
      <3> QED BY <3>1, <3>2
    <2> HIDE DEF x, l, a, v
    <2>9. Good(v, q, n, S, R, V2, d, o)
      BY <2>1, <2>3, <2>6, <2>7, <2>8, GoodClosure
    <2>10. v.closed = w.closed
      <3>1. IsWorld(x)
        BY <2>6 DEF Good
      <3> QED BY <2>1, <2>6, <3>1, ForwardFields
    <2> QED BY <2>9, <2>10, <2>v DEF v
  <1> QED BY <1>5, <1>6

-----------------------------------------------------------------------------
(* ClosePort.                                                               *)

\* A finite set has an element whose key is the greatest.
LEMMA GreatestKey ==
    ASSUME NEW A, IsFiniteSet(A), A # {}, NEW g, \A a \in A : g[a] \in Nat
    PROVE  \E m \in A : \A y \in A : g[y] <= g[m]
  <1> DEFINE Above(x) == {y \in A : g[y] > g[x]}
             T == {Cardinality(Above(x)) : x \in A}
  <1>1. ASSUME NEW x \in A
        PROVE  IsFiniteSet(Above(x)) /\ Cardinality(Above(x)) \in Nat
    <2>1. Above(x) \in SUBSET A
      OBVIOUS
    <2> HIDE DEF Above
    <2> QED BY <2>1, FS_Subset, FS_CardinalityType
  <1>2. PICK x \in A : \A y \in A : Cardinality(Above(x)) <= Cardinality(Above(y))
    <2> HIDE DEF Above
    <2>1. T \subseteq Nat
      BY <1>1
    <2>2. T # {}
      OBVIOUS
    <2>3. PICK c \in T : \A e \in T : c <= e
      BY <2>1, <2>2, LeastNat
    <2> QED BY <2>3
  <1>3. ASSUME NEW y \in A, ~(g[y] <= g[x])
        PROVE  FALSE
    <2>0. g[x] \in Nat /\ g[y] \in Nat /\ g[y] > g[x] /\ \A z \in A : g[z] \in Nat
      BY <1>3
    <2>1. Above(y) \in SUBSET Above(x) /\ y \in Above(x) /\ y \notin Above(y)
      <3>1. ASSUME NEW z \in Above(y) PROVE z \in Above(x)
        <4>1. z \in A /\ g[z] \in Nat /\ g[z] > g[y]
          BY <2>0
        <4>2. g[z] > g[x]
          BY <4>1, <2>0
        <4> QED BY <4>1, <4>2
      <3>2. y \in Above(x) /\ y \notin Above(y)
        BY <2>0
      <3> QED BY <3>1, <3>2
    <2> HIDE DEF Above
    <2>2. /\ Cardinality(Above(y)) <= Cardinality(Above(x))
          /\ Cardinality(Above(x)) # Cardinality(Above(y))
      BY <2>1, <1>1, FS_Subset
    <2>3. Cardinality(Above(x)) <= Cardinality(Above(y))
      BY <1>2
    <2> QED BY <2>2, <2>3, <1>1
  <1> QED BY <1>3

\* A sequence in the order of the keys g.
Sorted(s, g) == \A i, j \in DOMAIN s : i < j => g[s[i]] <= g[s[j]]

\* A finite set can be put in that order.
LEMMA SortedEnumeration ==
    ASSUME NEW K, IsFiniteSet(K), NEW g, \A a \in K : g[a] \in Nat
    PROVE  \E s \in SetToSeqs(K) : Sorted(s, g)
  <1> DEFINE Fine(A) == \E s \in SetToSeqs(A) : Sorted(s, g)
             Bad == {A \in SUBSET K : ~Fine(A)}
             T == {Cardinality(A) : A \in Bad}
  <1> SUFFICES ASSUME ~Fine(K) PROVE FALSE
    OBVIOUS
  <1>0. \A A \in SUBSET K : IsFiniteSet(A) /\ Cardinality(A) \in Nat
    BY FS_Subset, FS_CardinalityType
  <1>1. PICK A \in Bad : \A B \in Bad : Cardinality(A) <= Cardinality(B)
    <2> HIDE DEF Fine
    <2>1. K \in Bad
      OBVIOUS
    <2>2. T \subseteq Nat
      BY <1>0
    <2>3. T # {}
      BY <2>1
    <2> HIDE DEF Bad
    <2>4. PICK c \in T : \A e \in T : c <= e
      BY <2>2, <2>3, LeastNat
    <2> QED BY <2>4
  <1>2. A \in SUBSET K /\ ~Fine(A) /\ IsFiniteSet(A) /\ Cardinality(A) \in Nat
    <2> HIDE DEF Fine
    <2> QED BY <1>0
  <1> PICK n \in Nat : n = Cardinality(A)
    BY <1>2
  <1>3. A # {}
    <2> SUFFICES ASSUME A = {} PROVE Fine(A)
      BY <1>2
    <2>1. Cardinality(A) = 0
      BY FS_EmptySet
    <2>2. 1 .. 0 = {}
      OBVIOUS
    <2> DEFINE s == [i \in 1 .. 0 |-> 0]
    <2>3. s \in [1 .. Cardinality(A) -> A] /\ DOMAIN s = {}
      BY <2>1, <2>2
    <2> HIDE DEF s
    <2>4. s \in SetToSeqs(A)
      BY <2>1, <2>2, <2>3 DEF SetToSeqs
    <2>5. Sorted(s, g)
      BY <2>3 DEF Sorted
    <2> QED BY <2>4, <2>5
  <1>4. PICK m \in A : \A y \in A : g[y] <= g[m]
    <2>1. \A a \in A : g[a] \in Nat
      BY <1>2
    <2> QED BY <1>2, <1>3, <2>1, GreatestKey
  <1> DEFINE B == A \ {m}
  <1>5. B \in SUBSET K /\ Cardinality(B) = n - 1 /\ n - 1 \in Nat
    <2>1. Cardinality(B) = n - 1
      BY <1>2, <1>4, FS_RemoveElement
    <2>2. B \in SUBSET K
      BY <1>2
    <2>3. Cardinality(B) \in Nat
      BY <1>0, <2>2
    <2> QED BY <2>1, <2>2, <2>3
  <1>6. Fine(B)
    <2> HIDE DEF Fine
    <2>1. B \notin Bad
      <3> SUFFICES ASSUME B \in Bad PROVE FALSE
        OBVIOUS
      <3>1. Cardinality(A) <= Cardinality(B)
        BY <1>1
      <3> QED BY <1>5, <3>1
    <2> QED BY <1>5, <2>1
  <1>7. PICK s \in SetToSeqs(B) : Sorted(s, g)
    BY <1>6
  <1> HIDE DEF B, Bad, T
  <1>8. /\ s \in [1 .. n - 1 -> B]
        /\ \A i, j \in 1 .. n - 1 : i # j => s[i] # s[j]
    BY <1>5, <1>7 DEF SetToSeqs
  <1> DEFINE t == [i \in 1 .. n |-> IF i = n THEN m ELSE s[i]]
  <1>9. \A i \in 1 .. n : i = n \/ i \in 1 .. n - 1
    OBVIOUS
  <1>10. /\ DOMAIN t = 1 .. n
         /\ \A i \in 1 .. n - 1 : t[i] = s[i] /\ i \in 1 .. n /\ s[i] \in B
         /\ n \in 1 .. n /\ t[n] = m
    <2>1. n # 0
      BY <1>5
    <2> QED BY <1>8, <2>1
  <1> HIDE DEF t
  <1>11. t \in SetToSeqs(A)
    <2>1. t \in [1 .. n -> A]
      <3>1. t = [i \in 1 .. n |-> t[i]]
        BY DEF t
      <3>2. \A i \in 1 .. n : t[i] \in A
        BY <1>4, <1>9, <1>10 DEF B
      <3> QED BY <3>1, <3>2
    <2>2. \A i, j \in 1 .. n : i # j => t[i] # t[j]
      BY <1>8, <1>9, <1>10 DEF B
    <2> QED BY <2>1, <2>2 DEF SetToSeqs
  <1>12. Sorted(t, g)
    <2> SUFFICES ASSUME NEW i \in 1 .. n, NEW j \in 1 .. n, i < j PROVE g[t[i]] <= g[t[j]]
      BY <1>10 DEF Sorted
    <2>1. i \in 1 .. n - 1
      OBVIOUS
    <2>2. CASE j = n
      BY <1>4, <1>10, <2>1, <2>2 DEF B
    <2>3. CASE j \in 1 .. n - 1
      <3>1. g[s[i]] <= g[s[j]]
        BY <1>7, <1>8, <2>1, <2>3 DEF Sorted
      <3> QED BY <1>10, <2>1, <2>3, <3>1
    <2> QED BY <1>9, <2>2, <2>3
  <1> QED BY <1>2, <1>11, <1>12

\* Closures that may be told may all be told.
LEMMA AddClosures ==
    ASSUME NEW P, NEW N, NEW H, NEW C, NEW M, NEW G, NEW E, NEW S, NEW R, NEW V, NEW d, NEW o,
           Safe(P, N, H, C, M, G, E, S, R, V, d, o),
           NEW E2, DOMAIN E \subseteq DOMAIN E2, \A x \in DOMAIN E : E2[x] = E[x],
           \A x \in DOMAIN E2 \ DOMAIN E :
              /\ E2[x] \in Closure(N)
              /\ Tellable(d[o[E2[x].port_name]], E2[x].last_sequence_num, S, M, C, G)
    PROVE  Safe(P, N, H, C, M, G, E2, S, R, V, d, o)
  <1>1. \A x \in DOMAIN E2 : x \in DOMAIN E \/
           /\ x \notin DOMAIN E
           /\ E2[x] \in Event(N) /\ E2[x].type = "ObserveClosure"
           /\ ~Moving(E2[x]) /\ ~Attaching(E2[x])
           /\ Tellable(d[o[E2[x].port_name]], E2[x].last_sequence_num, S, M, C, G)
    BY DEF Closure, Event, Moving, Attaching
  <1>2. WellTyped(P, N, H, C, M, G, E2, S, R, d, o)
    BY <1>1 DEF Safe, WellTyped
  <1>3. Carry(P, H, E2)
    BY <1>1 DEF Safe, Carry
  <1>4. Moves(P, E2)
    <2>1. \A a : Announced(P, E, a) => Announced(P, E2, a)
      BY <1>1 DEF Announced, NotUnborn
    <2> QED BY <1>1, <2>1 DEF Safe, Moves
  <1>5. Single(P, E2, C, G)
    BY <1>1 DEF Safe, Single
  <1>6. Routes(P, E2, M, G, d, o)
    BY <1>1 DEF Safe, Routes
  <1>7. Numbers(P, E2, S, R, M, G)
    BY <1>1 DEF Safe, Numbers
  <1>8. Closures(P, E2, S, M, C, G, d, o)
    BY <1>1 DEF Safe, Closures
  <1>9. Notified(P, E2, C, V)
    BY <1>1 DEF Safe, Notified
  <1> QED BY <1>2, <1>3, <1>4, <1>5, <1>6, <1>7, <1>8, <1>9 DEF Safe

\* The receiving ports among some, and the search of ClosePorts.
Live(w, T) == {p \in T \cap DOMAIN w.ports : w.ports[p].state = "Receiving"}
Spread(w, X) == X \cup Live(w, UNION {Attached(w.ports[p]) : p \in X})
Search(f, w, roots, n) ==
    f = [i \in 0 .. n |-> IF i = 0 THEN Live(w, roots) ELSE Spread(w, f[i - 1])]
Closing(w, roots) ==
    LET depth == Cardinality(DOMAIN w.ports)
    IN  (CHOOSE f : Search(f, w, roots, depth))[depth]

\* The search is well defined.
LEMMA SearchExists ==
    ASSUME NEW w, NEW roots, NEW n \in Nat
    PROVE  \E f : Search(f, w, roots, n)
  <1> DEFINE T == {k \in Nat : ~ \E f : Search(f, w, roots, k)}
             L == Live(w, roots)
             Body(X) == Spread(w, X)
  <1>0. \A f, k : Search(f, w, roots, k) <=>
                    f = [i \in 0 .. k |-> IF i = 0 THEN L ELSE Body(f[i - 1])]
    BY DEF Search
  <1> HIDE DEF L, Body
  <1>1. T = {}
    <2> SUFFICES ASSUME T # {} PROVE FALSE
      OBVIOUS
    <2>1. PICK k \in T : \A y \in T : k <= y
      <3>1. T \subseteq Nat
        OBVIOUS
      <3> QED BY <3>1, LeastNat
    <2>2. k \in Nat /\ ~ \E f : Search(f, w, roots, k)
      OBVIOUS
    <2>3. CASE k = 0
      <3> DEFINE g == [i \in 0 .. 0 |-> L]
      <3>0. \A i \in 0 .. 0 : L = IF i = 0 THEN L ELSE Body(g[i - 1])
        OBVIOUS
      <3>1. g = [i \in 0 .. 0 |-> IF i = 0 THEN L ELSE Body(g[i - 1])]
        BY <3>0
      <3> HIDE DEF g
      <3>2. Search(g, w, roots, 0)
        BY <1>0, <3>1
      <3> QED BY <2>2, <2>3, <3>2
    <2>4. CASE k # 0
      <3>1. k - 1 \in Nat /\ k - 1 \notin T
        <4>1. k \in Nat
          BY <2>2
        <4> HIDE DEF T
        <4> QED BY <2>1, <2>4, <4>1
      <3>2. PICK f : Search(f, w, roots, k - 1)
        BY <3>1
      <3> DEFINE g == [i \in 0 .. k |-> IF i = 0 THEN L ELSE Body(f[i - 1])]
      <3>3. \A i \in 0 .. k - 1 : f[i] = IF i = 0 THEN L ELSE Body(f[i - 1])
        BY <1>0, <3>2
      <3>4. \A i \in 0 .. k : g[i] = IF i = 0 THEN L ELSE Body(f[i - 1])
        OBVIOUS
      <3>5. \A i \in 0 .. k : i # 0 => i - 1 \in 0 .. k - 1 /\ i - 1 \in 0 .. k
        BY <2>2
      <3>6. \A i \in 0 .. k : i # 0 => g[i - 1] = f[i - 1]
        <4> HIDE DEF g
        <4> QED BY <3>3, <3>4, <3>5
      <3>7. g = [i \in 0 .. k |-> IF i = 0 THEN L ELSE Body(g[i - 1])]
        BY <3>6
      <3>8. Search(g, w, roots, k)
        <4> HIDE DEF g
        <4> QED BY <1>0, <3>7
      <3> QED BY <2>2, <3>8
    <2> QED BY <2>3, <2>4
  <1> QED BY <1>1

\* Message m carries the port r.
Brings(m, r) == m.ports # << >> /\ Carried(m) = r

\* The ports found are receiving, and each is a root or carried by a message of
\* one that was found.
Found(w, roots, X) ==
    /\ X \subseteq DOMAIN w.ports
    /\ \A r \in X : Receiving(w.ports, r)
    /\ \A r \in X : r \in roots \/ \E p \in X : \E m \in w.ports[p].message_queue : Brings(m, r)

\* The search finds the ports that are to be closed, and with them what they carry.
LEMMA ClosingFound ==
    ASSUME NEW w, IsFiniteSet(DOMAIN w.ports), NEW N,
           \A p \in DOMAIN w.ports : w.ports[p] \in PortRecord(N),
           NEW roots
    PROVE  Found(w, roots, Closing(w, roots))
  <1> DEFINE k == Cardinality(DOMAIN w.ports)
             f == CHOOSE g : Search(g, w, roots, k)
  <1>1. k \in Nat
    BY FS_CardinalityType
  <1>2. Closing(w, roots) = f[k]
    BY DEF Closing
  <1> HIDE DEF k
  <1>3. Search(f, w, roots, k)
    <2>1. \E g : Search(g, w, roots, k)
      BY <1>1, SearchExists
    <2> QED BY <2>1
  <1> HIDE DEF f
  <1>4. \A i \in 0 .. k : f[i] = IF i = 0 THEN Live(w, roots) ELSE Spread(w, f[i - 1])
    BY <1>3 DEF Search
  <1>5. Found(w, roots, Live(w, roots))
    BY DEF Found, Live, Receiving
  <1>6. ASSUME NEW X, Found(w, roots, X) PROVE Found(w, roots, Spread(w, X))
    <2>1. X \subseteq Spread(w, X)
      BY DEF Spread
    <2>2. ASSUME NEW r \in Spread(w, X), r \notin X
          PROVE  /\ r \in DOMAIN w.ports /\ Receiving(w.ports, r)
                 /\ \E p \in X : \E m \in w.ports[p].message_queue : Brings(m, r)
      <3>1. r \in Live(w, UNION {Attached(w.ports[p]) : p \in X})
        BY <2>2 DEF Spread
      <3>2. PICK p \in X : r \in Attached(w.ports[p])
        BY <3>1 DEF Live
      <3>3. PICK m \in w.ports[p].message_queue : r \in ToSet(m.ports)
        BY <3>2 DEF Attached
      <3>4. m \in Message(N)
        BY <1>6, <3>2, <3>3 DEF Found, PortRecord
      <3>5. m.ports # << >> => m.ports = <<Carried(m)>>
        BY <3>4, MessageTypes
      <3>6. m.ports # << >>
        BY <3>3 DEF ToSet
      <3>7. ToSet(<<Carried(m)>>) = {Carried(m)}
        BY DEF ToSet
      <3>8. Brings(m, r)
        BY <3>3, <3>5, <3>6, <3>7 DEF Brings
      <3> QED BY <3>1, <3>2, <3>3, <3>8 DEF Live, Receiving
    <2> QED BY <1>6, <2>1, <2>2 DEF Found
  <1> DEFINE T == {i \in 0 .. k : ~Found(w, roots, f[i])}
  <1>7. T = {}
    <2> SUFFICES ASSUME T # {} PROVE FALSE
      OBVIOUS
    <2>1. PICK j \in T : \A y \in T : j <= y
      <3>1. T \subseteq Nat
        BY <1>1
      <3> HIDE DEF T
      <3> QED BY <3>1, LeastNat
    <2>2. j \in 0 .. k /\ ~Found(w, roots, f[j]) /\ j \in Nat
      BY <1>1
    <2>3. j # 0
      BY <1>4, <1>5, <2>2
    <2>4. j - 1 \in 0 .. k /\ ~(j <= j - 1)
      BY <1>1, <2>2, <2>3
    <2>5. Found(w, roots, f[j - 1])
      BY <2>1, <2>4
    <2>6. f[j] = Spread(w, f[j - 1])
      BY <1>4, <2>2, <2>3
    <2> QED BY <1>6, <2>2, <2>5, <2>6
  <1>8. k \in 0 .. k
    BY <1>1
  <1>9. Found(w, roots, f[k])
    BY <1>7, <1>8
  <1> QED BY <1>2, <1>9

\* The notices of ClosePorts, in their order.
Order(w, K) ==
    CHOOSE s \in SetToSeqs(K) :
        \A i, j \in DOMAIN s : i < j => w.ports[s[i]].end <= w.ports[s[j]].end
Notice(w, p) == ObserveClosure(w.ports[p].peer, w.ports[p].next_sequence_num_to_send - 1)
Notices(w, K) == [i \in DOMAIN Order(w, K) |-> Notice(w, Order(w, K)[i])]

\* One for each.
LEMMA OrderFacts ==
    ASSUME NEW w, NEW K, IsFiniteSet(K), \A p \in K : w.ports[p].end \in Nat
    PROVE  \E n \in Nat : Order(w, K) \in [1 .. n -> K]
  <1> DEFINE g == [p \in K |-> w.ports[p].end]
  <1>1. \A p \in K : g[p] \in Nat /\ g[p] = w.ports[p].end
    OBVIOUS
  <1> HIDE DEF g
  <1>2. PICK s \in SetToSeqs(K) : Sorted(s, g)
    BY <1>1, SortedEnumeration
  <1>3. s \in [1 .. Cardinality(K) -> K]
    BY DEF SetToSeqs
  <1>4. \A i, j \in DOMAIN s : i < j => w.ports[s[i]].end <= w.ports[s[j]].end
    BY <1>1, <1>2, <1>3 DEF Sorted
  <1>5. Order(w, K) \in SetToSeqs(K)
    BY <1>4 DEF Order
  <1>6. Order(w, K) \in [1 .. Cardinality(K) -> K]
    BY <1>5 DEF SetToSeqs
  <1>7. Cardinality(K) \in Nat
    BY FS_CardinalityType
  <1> QED BY <1>6, <1>7

\* What ClosePorts is.
LEMMA ClosePortsIs ==
    ASSUME NEW w, NEW roots, NEW K, K = Closing(w, roots)
    PROVE  ClosePorts(w, roots) =
             [ErasePorts(w, K) EXCEPT !.closed = @ \cup {w.ports[p].end : p \in K},
                                      !.out = @ \o Notices(w, K)]
  <1>1. ClosePorts(w, roots) =
          [ErasePorts(w, Closing(w, roots)) EXCEPT
              !.closed = @ \cup {w.ports[p].end : p \in Closing(w, roots)},
              !.out = @ \o Notices(w, Closing(w, roots))]
    BY Zenon DEF ClosePorts, Closing, Search, Spread, Live, Notices, Notice, Order
  <1> QED BY <1>1

\* The world w2 has sent what w has, and then s.
Longer(q, w2, w, s) ==
    /\ \A k \in 1 .. Len(w2.out) : \/ k \in 1 .. Len(w.out) /\ w2.out[k] = w.out[k]
                                   \/ \E i \in 1 .. Len(s) : w2.out[k] = s[i]
    /\ DOMAIN Ev(q, w) \subseteq DOMAIN Ev(q, w2)
    /\ \A x \in DOMAIN Ev(q, w) : Ev(q, w2)[x] = Ev(q, w)[x]
    /\ \A x \in DOMAIN Ev(q, w2) \ DOMAIN Ev(q, w) :
          \E i \in 1 .. Len(s) : Ev(q, w2)[x] = s[i]

\* Several events more.
LEMMA EvConcat ==
    ASSUME NEW w, NEW q, Out \notin DOMAIN q, NEW T, w.out \in Seq(T), NEW s, s \in Seq(T),
           NEW w2, w2.out = w.out \o s
    PROVE  w2.out \in Seq(T) /\ Longer(q, w2, w, s)
  <1>1. PICK j \in Nat : j = Len(w.out)
    OBVIOUS
  <1>2. PICK l \in Nat : l = Len(s)
    OBVIOUS
  <1>3. /\ w2.out \in Seq(T) /\ Len(w2.out) = j + l
        /\ \A k \in 1 .. j : w2.out[k] = w.out[k]
        /\ \A k \in j + 1 .. j + l : w2.out[k] = s[k - j]
    BY <1>1, <1>2, ConcatProperties
  <1>4. /\ DOMAIN w.out = 1 .. j /\ DOMAIN w2.out = 1 .. (j + l)
        /\ Len(s) = l /\ Len(w.out) = j /\ Len(w2.out) = j + l
    BY <1>1, <1>2, <1>3
  <1>5. \A k \in 1 .. (j + l) : \/ k \in 1 .. j /\ w2.out[k] = w.out[k]
                                \/ \E i \in 1 .. l : w2.out[k] = s[i]
    <2> SUFFICES ASSUME NEW k \in 1 .. (j + l), k \notin 1 .. j
                 PROVE  \E i \in 1 .. l : w2.out[k] = s[i]
      BY <1>3
    <2>1. k - j \in 1 .. l /\ k \in j + 1 .. j + l
      OBVIOUS
    <2> QED BY <1>3, <2>1
  <1>6. 1 .. j \subseteq 1 .. (j + l)
    OBVIOUS
  <1> DEFINE a == With(q, w.out)
             b == With(q, w2.out)
  <1>7. /\ DOMAIN a = DOMAIN q \cup {Out} /\ DOMAIN b = DOMAIN q \cup {Out}
        /\ a[Out] = w.out /\ b[Out] = w2.out
        /\ \A i \in DOMAIN q : a[i] = q[i] /\ b[i] = q[i]
    BY DEF With
  <1>8. Ev(q, w) = Toks(a) /\ Ev(q, w2) = Toks(b)
    BY DEF Ev
  <1> HIDE DEF a, b
  <1>9. ASSUME NEW x \in DOMAIN Toks(a) PROVE x \in DOMAIN Toks(b) /\ Toks(b)[x] = Toks(a)[x]
    <2>1. PICK i \in DOMAIN a : \E k \in DOMAIN a[i] : x = <<i, k>>
      BY <1>9, ToksFacts
    <2>2. PICK k \in DOMAIN a[i] : x = <<i, k>>
      BY <2>1
    <2>3. i \in DOMAIN b /\ k \in DOMAIN b[i] /\ b[i][k] = a[i][k]
      BY <1>3, <1>4, <1>6, <1>7
    <2> QED BY <2>2, <2>3, ToksFacts
  <1>10. ASSUME NEW x \in DOMAIN Toks(b), x \notin DOMAIN Toks(a)
         PROVE  \E i \in 1 .. l : Toks(b)[x] = s[i]
    <2>1. PICK i \in DOMAIN b : \E k \in DOMAIN b[i] : x = <<i, k>>
      BY <1>10, ToksFacts
    <2>2. PICK k \in DOMAIN b[i] : x = <<i, k>>
      BY <2>1
    <2>3. ~(i \in DOMAIN a /\ k \in DOMAIN a[i])
      BY <1>10, <2>2, ToksFacts
    <2>4. i = Out /\ k \in 1 .. (j + l) /\ k \notin 1 .. j
      BY <1>4, <1>7, <2>3
    <2>5. Toks(b)[x] = w2.out[k]
      BY <1>7, <2>2, <2>4, ToksFacts
    <2> QED BY <1>5, <2>4, <2>5
  <1> QED BY <1>3, <1>4, <1>5, <1>8, <1>9, <1>10 DEF Longer

\* The fields of the world after ClosePorts.
LEMMA ClosePortsFields ==
    ASSUME NEW w, IsWorld(w), NEW roots, NEW K, K = Closing(w, roots),
           NEW v, v = ClosePorts(w, roots)
    PROVE  /\ IsWorld(v) /\ v.ports = Without(w.ports, K) /\ v.names = w.names
           /\ v.held = w.held \ K /\ v.closed = AlsoClosed(w.closed, w.ports, K)
           /\ v.mate = w.mate /\ v.merged = w.merged
           /\ v.out = w.out \o Notices(w, K)
  <1>1. PICK u : u = ErasePorts(w, K)
    OBVIOUS
  <1>2. /\ IsWorld(u) /\ u.ports = Without(w.ports, K) /\ u.names = w.names
        /\ u.held = w.held \ K
        /\ u.closed = w.closed /\ u.mate = w.mate /\ u.merged = w.merged
        /\ u.out = w.out
    BY <1>1, ErasePortsFields
  <1>3. PICK X : X = {w.ports[p].end : p \in K}
    OBVIOUS
  <1>4. PICK Y : Y = Notices(w, K)
    OBVIOUS
  <1>5. v = [u EXCEPT !.closed = @ \cup X, !.out = @ \o Y]
    BY <1>1, <1>3, <1>4, ClosePortsIs
  <1>6. PICK a, b, c, e, f, g, h :
          u = [ ports |-> a, names |-> b, held |-> c, closed |-> e, mate |-> f,
                merged |-> g, out |-> h ]
    BY <1>2, Zenon DEF IsWorld
  <1>7. v = [ ports |-> a, names |-> b, held |-> c, closed |-> e \cup X, mate |-> f,
              merged |-> g, out |-> h \o Y ]
    BY <1>5, <1>6
  <1>8. /\ v.ports = a /\ v.names = b /\ v.held = c /\ v.closed = e \cup X
        /\ v.mate = f /\ v.merged = g /\ v.out = h \o Y
        /\ u.ports = a /\ u.names = b /\ u.held = c /\ u.closed = e
        /\ u.mate = f /\ u.merged = g /\ u.out = h
    BY <1>6, <1>7
  <1>9. a = [x \in DOMAIN a |-> a[x]]
    BY <1>2, <1>8 DEF IsWorld
  <1>10. IsWorld(v)
    BY <1>7, <1>8, <1>9 DEF IsWorld
  <1>11. e \cup X = AlsoClosed(w.closed, w.ports, K)
    BY <1>2, <1>3, <1>8 DEF AlsoClosed
  <1> QED BY <1>2, <1>4, <1>8, <1>10, <1>11

\* Ports that nobody else carries, and what their messages carry, may be closed.
LEMMA ClosePortsGood ==
    ASSUME NEW w, NEW q, NEW n, NEW S, NEW R, NEW V, NEW d, NEW o, Out \notin DOMAIN q,
           Good(w, q, n, S, R, V, d, o),
           NEW roots, \A r \in roots : r \in DOMAIN w.ports /\ Receiving(w.ports, r) =>
                         r \in w.held \/ Free(w, q, r),
           NEW v, v = ClosePorts(w, roots)
    PROVE  Good(v, q, n, S, R, V, d, o)
  <1>1. PICK K : K = Closing(w, roots)
    OBVIOUS
  <1> PICK P2 : P2 = Without(w.ports, K)
    OBVIOUS
  <1> PICK C2 : C2 = AlsoClosed(w.closed, w.ports, K)
    OBVIOUS
  <1>2. /\ IsFiniteSet(DOMAIN w.ports) /\ w.names \in Nat
        /\ \A p \in DOMAIN w.ports : w.ports[p] \in PortRecord(w.names)
    BY DEF Good, Safe, WellTyped
  <1>3. Found(w, roots, K)
    BY <1>1, <1>2, ClosingFound
  <1>4. /\ Safe(P2, w.names, w.held \ K, C2, w.mate, w.merged, Ev(q, w), S, R, V, d, o)
        /\ \A p \in K : Tellable(d[o[w.ports[p].peer]], w.ports[p].next_sequence_num_to_send - 1,
                                 S, w.mate, C2, w.merged)
    <2>1. K \subseteq DOMAIN w.ports
      BY <1>3 DEF Found
    <2>2. \A p \in K : Receiving(w.ports, p)
      BY <1>3 DEF Found
    <2>3. \A r \in K : \/ r \in w.held
                       \/ Unattached(w.ports, w.held, Ev(q, w), r)
                       \/ \E p \in K : \E m \in w.ports[p].message_queue :
                             m.ports # << >> /\ Carried(m) = r
      BY <1>3, <2>1, <2>2 DEF Found, Brings, Free
    <2>4. Safe(w.ports, w.names, w.held, w.closed, w.mate, w.merged, Ev(q, w), S, R, V, d, o)
      BY DEF Good
    <2>5. Closable(w.ports, w.held, Ev(q, w), K)
      BY <2>1, <2>2, <2>3 DEF Closable
    <2> QED BY <2>4, <2>5, CloseSet
  <1>5. /\ IsWorld(v) /\ v.ports = P2 /\ v.names = w.names
        /\ v.held = w.held \ K /\ v.closed = C2
        /\ v.mate = w.mate /\ v.merged = w.merged
        /\ v.out = w.out \o Notices(w, K)
    BY <1>1, ClosePortsFields DEF Good
  <1>6. PICK k \in Nat : Order(w, K) \in [1 .. k -> K]
    <2>1. IsFiniteSet(K)
      BY <1>2, <1>3, FS_Subset DEF Found
    <2>2. \A p \in K : w.ports[p].end \in Nat
      BY <1>2, <1>3 DEF Found, PortRecord, Ends
    <2> QED BY <2>1, <2>2, OrderFacts
  <1>7. PICK s : s = Notices(w, K)
    OBVIOUS
  <1>8. ASSUME NEW p \in K
        PROVE  /\ Notice(w, p) \in Closure(w.names)
               /\ Tellable(d[o[Notice(w, p).port_name]], Notice(w, p).last_sequence_num,
                           S, w.mate, C2, w.merged)
    <2>1. w.ports[p] \in PortRecord(w.names)
      BY <1>2, <1>3 DEF Found
    <2>2. w.ports[p].peer \in Addr(w.names) /\ w.ports[p].next_sequence_num_to_send - 1 \in Nat
      BY <2>1 DEF PortRecord
    <2> QED BY <1>4, <2>2 DEF Notice, ObserveClosure, Closure
  <1>9. /\ s \in Seq(Closure(w.names)) /\ Len(s) = k
        /\ \A i \in 1 .. k : \E p \in K : s[i] = Notice(w, p)
    <2>1. DOMAIN Order(w, K) = 1 .. k /\ \A i \in 1 .. k : Order(w, K)[i] \in K
      BY <1>6
    <2>2. s = [i \in 1 .. k |-> Notice(w, Order(w, K)[i])]
      BY <1>7, <2>1 DEF Notices
    <2>3. \A i \in 1 .. k : Notice(w, Order(w, K)[i]) \in Closure(w.names)
      BY <1>8, <2>1
    <2>4. s \in [1 .. k -> Closure(w.names)]
      BY <2>2, <2>3
    <2>5. s \in Seq(Closure(w.names)) /\ Len(s) = k
      BY <2>4
    <2>6. \A i \in 1 .. k : s[i] = Notice(w, Order(w, K)[i])
      BY <2>2
    <2> QED BY <2>1, <2>5, <2>6
  <1>10. s \in Seq(Event(w.names))
    <2>1. Closure(w.names) \subseteq Event(w.names)
      BY DEF Event
    <2> QED BY <1>9, <2>1
  <1>11. w.out \in Seq(Event(w.names))
    BY DEF Good
  <1>12. v.out = w.out \o s
    BY <1>5, <1>7
  <1>13. /\ v.out \in Seq(Event(w.names))
         /\ \A j \in 1 .. Len(v.out) : \/ j \in 1 .. Len(w.out) /\ v.out[j] = w.out[j]
                                       \/ \E i \in 1 .. k : v.out[j] = s[i]
         /\ DOMAIN Ev(q, w) \subseteq DOMAIN Ev(q, v)
         /\ \A x \in DOMAIN Ev(q, w) : Ev(q, v)[x] = Ev(q, w)[x]
         /\ \A x \in DOMAIN Ev(q, v) \ DOMAIN Ev(q, w) :
               \E i \in 1 .. k : Ev(q, v)[x] = s[i]
    <2>1. v.out \in Seq(Event(w.names)) /\ Longer(q, v, w, s)
      BY <1>10, <1>11, <1>12, EvConcat
    <2> QED BY <1>9, <2>1 DEF Longer
  <1>14. \A i \in 1 .. k :
           /\ s[i] \in Closure(w.names)
           /\ Tellable(d[o[s[i].port_name]], s[i].last_sequence_num,
                       S, w.mate, C2, w.merged)
    BY <1>8, <1>9
  <1>15. Safe(P2, w.names, w.held \ K, C2, w.mate, w.merged, Ev(q, v), S, R, V, d, o)
    <2>1. \A x \in DOMAIN Ev(q, v) \ DOMAIN Ev(q, w) :
             /\ Ev(q, v)[x] \in Closure(w.names)
             /\ Tellable(d[o[Ev(q, v)[x].port_name]], Ev(q, v)[x].last_sequence_num,
                         S, w.mate, C2, w.merged)
      BY <1>13, <1>14
    <2> QED BY <1>4, <1>13, <2>1, AddClosures
  <1>16. \A j \in 1 .. Len(v.out) : InPlace(n, v.out[j])
    <2>1. \A i \in 1 .. k : InPlace(n, s[i])
      BY <1>14 DEF Closure, InPlace, Attaching
    <2>2. \A j \in 1 .. Len(w.out) : InPlace(n, w.out[j])
      BY DEF Good
    <2> QED BY <1>13, <2>1, <2>2
  <1> QED BY <1>5, <1>13, <1>15, <1>16 DEF Good

-----------------------------------------------------------------------------
\* AcceptPorts, OnUserMessage, and the merging of ports.

\* The port that the description D speaks of.
Revived(D) == NewPort(D.end, D.peer, D.next_sequence_num_to_send,
                      D.next_sequence_num_to_receive,
                      D.last_sequence_num_to_receive, D.peer_closed)

\* Changing the ports and sending.
WithPortsAndOut(w, B, X) == [w EXCEPT !.ports = B, !.out = X]

\* Changing the ports and then forwarding.
LEMMA PortsThenForward ==
    ASSUME NEW w, IsWorld(w), NEW B, NEW a
    PROVE  Forward(WithPorts(w, B), a) =
             [ ports |-> B, names |-> w.names, held |-> w.held, closed |-> w.closed,
               mate |-> w.mate, merged |-> w.merged, out |-> Append(w.out, a) ]
  <1>1. PICK b, c, e, f, g, h, i :
          w = [ ports |-> i, names |-> b, held |-> c, closed |-> e, mate |-> f,
                merged |-> g, out |-> h ]
    BY Zenon DEF IsWorld
  <1>2. WithPorts(w, B) = [ ports |-> B, names |-> b, held |-> c, closed |-> e, mate |-> f,
                            merged |-> g, out |-> h ]
    BY <1>1 DEF WithPorts
  <1>3. Forward(WithPorts(w, B), a) =
          [ ports |-> B, names |-> b, held |-> c, closed |-> e, mate |-> f,
            merged |-> g, out |-> Append(h, a) ]
    BY <1>2 DEF Forward
  <1> QED BY <1>1, <1>3

\* Doing both at once is the same.
LEMMA PortsAndOut ==
    ASSUME NEW w, IsWorld(w), NEW B, NEW a, NEW X, X = Append(w.out, a),
           NEW v, v = WithPortsAndOut(w, B, X)
    PROVE  v = Forward(WithPorts(w, B), a)
  <1>1. PICK b, c, e, f, g, h, i :
          w = [ ports |-> i, names |-> b, held |-> c, closed |-> e, mate |-> f,
                merged |-> g, out |-> h ]
    BY Zenon DEF IsWorld
  <1>2. v = [ ports |-> B, names |-> w.names, held |-> w.held, closed |-> w.closed,
              mate |-> w.mate, merged |-> w.merged, out |-> X ]
    BY <1>1 DEF WithPortsAndOut
  <1> QED BY <1>2, PortsThenForward, Zenon

\* What AcceptPorts does with a port that arrives.
LEMMA AcceptPortsIs ==
    ASSUME NEW w, IsWorld(w), w.out = << >>, NEW m, NEW new, NEW D,
           m.ports = <<new>>, m.descriptors = <<D>>,
           NEW v, v = WithPorts(w, Born(w.ports, new, Revived(D)))
    PROVE  AcceptPorts(w, m) = Forward(v, PortAccepted(D.referring))
  <1>1. /\ DOMAIN m.ports = {1} /\ m.ports[1] = new /\ m.descriptors[1] = D
        /\ m.descriptors # << >> /\ ToSet(m.ports) = {new}
    BY DEF ToSet
  <1>2. (CHOOSE i \in DOMAIN m.ports : m.ports[i] = new) = 1
    BY <1>1
  <1>3. m.descriptors[CHOOSE i \in DOMAIN m.ports : m.ports[i] = new] = D
    BY <1>1, <1>2
  <1> DEFINE Accepted(p) ==
            LET dd == m.descriptors[CHOOSE i \in DOMAIN m.ports : m.ports[i] = p]
            IN  NewPort(dd.end, dd.peer, dd.next_sequence_num_to_send,
                        dd.next_sequence_num_to_receive,
                        dd.last_sequence_num_to_receive, dd.peer_closed)
             B == [p \in DOMAIN w.ports \cup ToSet(m.ports) |->
                             IF p \in ToSet(m.ports) THEN Accepted(p) ELSE w.ports[p]]
             T == [i \in DOMAIN m.ports |-> PortAccepted(m.descriptors[i].referring)]
  <1>4. AcceptPorts(w, m) = [w EXCEPT !.ports = B, !.out = w.out \o T]
    BY <1>1, Zenon DEF AcceptPorts
  <1>5. Accepted(new) = Revived(D)
    BY <1>3 DEF Revived
  <1> HIDE DEF Accepted
  <1>6. B = Born(w.ports, new, Revived(D))
    BY <1>1, <1>5 DEF Born
  <1>7. T = <<PortAccepted(D.referring)>>
    <2>1. T = [i \in {1} |-> PortAccepted(D.referring)]
      BY <1>1
    <2>2. <<PortAccepted(D.referring)>> = [i \in {1} |-> PortAccepted(D.referring)]
      OBVIOUS
    <2> QED BY <2>1, <2>2
  <1> HIDE DEF B, T
  <1>8. PICK a : a = PortAccepted(D.referring)
    OBVIOUS
  <1>9. w.out \o T = <<a>> /\ Append(w.out, a) = <<a>>
    BY <1>7, <1>8
  <1>10. AcceptPorts(w, m) = Forward(WithPorts(w, B), a)
    <2>1. PICK X : X = w.out \o T
      OBVIOUS
    <2>2. AcceptPorts(w, m) = WithPortsAndOut(w, B, X)
      BY <1>4, <2>1 DEF WithPortsAndOut
    <2>3. X = Append(w.out, a)
      BY <1>9, <2>1
    <2> QED BY <2>2, <2>3, PortsAndOut
  <1> QED BY <1>6, <1>8, <1>10

\* The world v with the ports of message e, which the world w has taken, bound.
Bound(w, v, q, n, S, d, o, e) ==
    /\ v.names = w.names /\ v.held = w.held /\ v.closed = w.closed
    /\ v.mate = w.mate /\ v.merged = w.merged
    /\ e \in Event(w.names)
    /\ \A p \in DOMAIN w.ports : p \in DOMAIN v.ports /\ v.ports[p] = w.ports[p]
    /\ e.ports # << >> => Free(v, q, Carried(e)) /\ Carried(e)[1] = n
    /\ e.type = "UserMessage" =>
          /\ Deliverable(e, e.port_name, S, w.mate, d, o)
          /\ e.ports # << >> => v.ports[Carried(e)].end \notin ToMerge
    /\ e.type = "MergePort" =>
          /\ e.ports # << >>
          /\ Carried(e) \notin DOMAIN w.ports
          /\ \E f \in ToMerge : e.port_name = Home(f)

\* A message that brings no port, or one that lives.
LEMMA AcceptNone ==
    ASSUME NEW w, NEW q, NEW n, NEW S, NEW R, NEW V, NEW d, NEW o, NEW e,
           Hand(w, q, n, S, R, V, d, o, e), e.type \in {"UserMessage", "MergePort"}, ~Moving(e)
    PROVE  /\ Good(AcceptPorts(w, e), q, n, S, R, V, d, o)
           /\ Bound(w, AcceptPorts(w, e), q, n, S, d, o, e)
  <1>1. Good(w, q, n, S, R, V, d, o) /\ MaySend(w, q, S, d, o, e) /\ e \in Event(w.names)
    BY HandGood
  <1>2. e.descriptors = << >>
    BY DEF Moving
  <1>3. AcceptPorts(w, e) = w
    BY <1>2 DEF AcceptPorts
  <1>4. e.type = "UserMessage"
    BY <1>1 DEF MaySend, Sendable
  <1>5. e.ports # << >> => Attaching(e)
    BY <1>2, <1>4 DEF Attaching
  <1>6. e.ports # << >> => Free(w, q, Carried(e)) /\ w.ports[Carried(e)].end \notin ToMerge
    BY <1>1, <1>5 DEF MaySend, Sendable, Free
  <1>7. e.ports # << >> => Carried(e)[1] = n
    BY <1>5 DEF Hand, InPlace
  <1>8. Deliverable(e, e.port_name, S, w.mate, d, o)
    BY <1>1, <1>4 DEF MaySend, Sendable
  <1> QED BY <1>1, <1>3, <1>4, <1>6, <1>7, <1>8 DEF Bound

\* Accepting a port that arrives.
LEMMA AcceptOne ==
    ASSUME NEW w, NEW q, NEW n, NEW S, NEW R, NEW V, NEW d, NEW o, Out \notin DOMAIN q, NEW e,
           Hand(w, q, n, S, R, V, d, o, e), Moving(e)
    PROVE  /\ Good(AcceptPorts(w, e), q, n, S, R, V, d, o)
           /\ Bound(w, AcceptPorts(w, e), q, n, S, d, o, e)
  <1>1. PICK E, x : /\ Extends(E, Ev(q, w), x, e)
                    /\ Safe(w.ports, w.names, w.held, w.closed, w.mate, w.merged, E, S, R, V, d, o)
    BY DEF Hand
  <1>2. x \in DOMAIN E /\ E[x] = e
    BY <1>1 DEF Extends
  <1>3. e \in Event(w.names) /\ w.names \in Nat
    BY <1>1, <1>2 DEF Safe, WellTyped
  <1>4. PICK D : D = Described(e)
    OBVIOUS
  <1>5. PICK new : new = Carried(e)
    OBVIOUS
  <1>6. e.ports # << >>
    BY <1>1, <1>2 DEF Safe, Moves
  <1>7. /\ D \in DescriptorRecord(w.names) /\ e.descriptors = <<D>>
        /\ new \in Addr(w.names) /\ e.ports = <<new>>
    BY <1>3, <1>4, <1>5, <1>6, MovingTypes
  <1>8. PICK P2 : P2 = Born(w.ports, new, Revived(D))
    OBVIOUS
  <1>9. /\ Safe(P2, w.names, w.held, w.closed, w.mate, w.merged, Ev(q, w), S, R, V, d, o)
        /\ Unattached(P2, w.held, Ev(q, w), new)
        /\ new[1] = e.port_name[1] /\ new \notin DOMAIN w.ports
        /\ e.type = "UserMessage" => P2[new].end \notin ToMerge
        /\ D.referring \in DOMAIN P2
        /\ P2[D.referring].state = "Buffering"
        /\ \A y \in DOMAIN Ev(q, w) :
              /\ Ev(q, w)[y].type = "PortAccepted" => Ev(q, w)[y].port_name # D.referring
              /\ Moving(Ev(q, w)[y]) => Described(Ev(q, w)[y]).referring # D.referring
    <2>1. PICK port : port = Revived(D)
      OBVIOUS
    <2>2. port = NewPort(D.end, D.peer, D.next_sequence_num_to_send,
                         D.next_sequence_num_to_receive,
                         D.last_sequence_num_to_receive, D.peer_closed)
      BY <2>1 DEF Revived
    <2>3. P2 = Born(w.ports, new, port)
      BY <1>8, <2>1
    <2> QED BY <1>1, <1>4, <1>5, <2>2, <2>3, Accept
  <1>10. /\ P2 = [p \in DOMAIN P2 |-> P2[p]]
         /\ \A p \in DOMAIN w.ports : p # new => p \in DOMAIN P2 /\ P2[p] = w.ports[p]
    BY <1>8 DEF Born
  <1>11. PICK v : v = WithPorts(w, P2)
    OBVIOUS
  <1>12. /\ IsWorld(v) /\ v.ports = P2 /\ v.names = w.names /\ v.held = w.held
         /\ v.closed = w.closed /\ v.mate = w.mate /\ v.merged = w.merged
         /\ v.out = w.out
    BY <1>10, <1>11, WithPortsFields DEF Hand
  <1>13. Ev(q, v) = Ev(q, w)
    BY <1>12 DEF Ev
  <1>14. v.out = << >>
    BY <1>12 DEF Hand
  <1>15. Good(v, q, n, S, R, V, d, o)
    BY <1>9, <1>12, <1>13, <1>14 DEF Good
  <1>16. PICK a : a = PortAccepted(D.referring)
    OBVIOUS
  <1>17. a.type = "PortAccepted" /\ a.port_name = D.referring
    BY <1>16 DEF PortAccepted
  <1>18. a \in Event(w.names)
    <2>1. D.referring \in Addr(w.names)
      BY <1>7 DEF DescriptorRecord
    <2> QED BY <1>16, <2>1 DEF PortAccepted, Event, Acceptance
  <1>19. ~Moving(a) /\ ~Attaching(a)
    BY <1>17 DEF Moving, Attaching
  <1>20. MaySend(v, q, S, d, o, a)
    BY <1>9, <1>12, <1>13, <1>17, <1>19 DEF MaySend, Sendable
  <1>21. PICK b : b = Forward(v, a)
    OBVIOUS
  <1>22. Good(b, q, n, S, R, V, d, o)
    BY <1>12, <1>15, <1>18, <1>19, <1>20, <1>21, GoodForward DEF InPlace
  <1>23. /\ b.ports = P2 /\ b.names = w.names /\ b.held = w.held
         /\ b.closed = w.closed /\ b.mate = w.mate /\ b.merged = w.merged
         /\ b.out = Append(v.out, a)
    BY <1>12, <1>21, ForwardFields
  <1>24. Extends(Ev(q, b), Ev(q, v), <<Out, Len(v.out) + 1>>, a)
    <2>1. v.out \in Seq(Event(w.names))
      BY <1>14
    <2> QED BY <1>18, <1>23, <2>1, EvAppend
  <1>25. Free(b, q, new)
    BY <1>9, <1>13, <1>19, <1>23, <1>24 DEF Free, Unattached, Extends
  <1>26. AcceptPorts(w, e) = b
    BY <1>7, <1>8, <1>11, <1>16, <1>21, AcceptPortsIs DEF Hand
  <1>27. e.type = "UserMessage" => Deliverable(e, e.port_name, S, w.mate, d, o)
    BY <1>1, <1>2 DEF Safe, Routes, Numbers, Deliverable
  <1>28. e.type = "MergePort" => \E f \in ToMerge : e.port_name = Home(f)
    BY <1>1, <1>2 DEF Safe, Moves
  <1>29. new[1] = n
    BY <1>9 DEF Hand
  <1>30. Bound(w, b, q, n, S, d, o, e)
    BY <1>3, <1>5, <1>6, <1>9, <1>10, <1>23, <1>25, <1>27, <1>28, <1>29 DEF Bound
  <1> QED BY <1>22, <1>26, <1>30

\* A handler takes a message or a merge request.
LEMMA AcceptPortsGood ==
    ASSUME NEW w, NEW q, NEW n, NEW S, NEW R, NEW V, NEW d, NEW o, Out \notin DOMAIN q, NEW e,
           Hand(w, q, n, S, R, V, d, o, e), e.type \in {"UserMessage", "MergePort"},
           NEW b, b = AcceptPorts(w, e)
    PROVE  Good(b, q, n, S, R, V, d, o) /\ Bound(w, b, q, n, S, d, o, e)
  BY AcceptNone, AcceptOne

\* The message as it is queued.
Bare(e) == [e EXCEPT !.descriptors = << >>]

\* A message without descriptors is a message.
LEMMA BareTypes ==
    ASSUME NEW N, NEW e \in Message(N), NEW m, m = Bare(e)
    PROVE  /\ m \in Message(N) /\ m.port_name = e.port_name /\ m.ports = e.ports
           /\ m.descriptors = << >> /\ m.body = e.body /\ m.sequence_num = e.sequence_num
           /\ m.type = "UserMessage"
  <1>1. << >> \in AtMostOne(DescriptorRecord(N))
    BY AtMostOneFacts
  <1> QED BY <1>1 DEF Message, Bare

\* The world b with the message m queued at port p.
WithQueued(b, p, m) == WithPorts(b, Queued(b.ports, p, m))

\* It is good if the message may be delivered.
LEMMA QueuedGood ==
    ASSUME NEW b, NEW q, NEW n, NEW S, NEW R, NEW V, NEW d, NEW o, Good(b, q, n, S, R, V, d, o),
           NEW p \in DOMAIN b.ports, p[1] = n, NEW m \in Message(b.names),
           m.port_name = p, m.descriptors = << >>, Deliverable(m, p, S, b.mate, d, o),
           Loadable(b, q, n, m), NEW v, v = WithQueued(b, p, m)
    PROVE  /\ Good(v, q, n, S, R, V, d, o)
           /\ p \in DOMAIN v.ports /\ v.ports[p].state = b.ports[p].state
  <1>1. PICK P2 : P2 = Queued(b.ports, p, m)
    OBVIOUS
  <1>2. Safe(P2, b.names, b.held, b.closed, b.mate, b.merged, Ev(q, b), S, R, V, d, o)
    <2>1. m.ports # << >> =>
             /\ Unattached(b.ports, b.held, Ev(q, b), Carried(m))
             /\ b.ports[Carried(m)].end \notin ToMerge
             /\ Carried(m)[1] = p[1]
      BY DEF Loadable, Free
    <2>2. Safe(b.ports, b.names, b.held, b.closed, b.mate, b.merged, Ev(q, b), S, R, V, d, o)
      BY DEF Good
    <2> QED BY <1>1, <2>1, <2>2, Enqueue
  <1>3. P2 = [x \in DOMAIN P2 |-> P2[x]] /\ p \in DOMAIN P2
    <2>1. b.ports = [x \in DOMAIN b.ports |-> b.ports[x]]
      BY DEF Good, IsWorld
    <2> QED BY <1>1, <2>1 DEF Queued
  <1>4. P2[p].state = b.ports[p].state
    <2>1. b.ports[p] \in PortRecord(b.names)
      BY DEF Good, Safe, WellTyped
    <2>2. P2[p] = [b.ports[p] EXCEPT !.message_queue = @ \cup {m}]
      BY <1>1 DEF Queued
    <2> QED BY <2>1, <2>2 DEF PortRecord
  <1>5. v = WithPorts(b, P2)
    BY <1>1 DEF WithQueued
  <1>6. Good(v, q, n, S, R, V, d, o)
    BY <1>2, <1>3, <1>5, GoodPorts
  <1>7. v.ports = P2
    BY <1>3, <1>5, WithPortsFields DEF Good
  <1> QED BY <1>3, <1>4, <1>6, <1>7

\* The port that a message brings, and any port that may be closed.
LEMMA CarriedSet ==
    ASSUME NEW T, NEW s \in AtMostOne(T)
    PROVE  \A r \in ToSet(s) : s # << >> /\ r = s[1]
  <1>1. s # << >> => s = <<s[1]>>
    BY AtMostOneFacts
  <1>2. s # << >> => ToSet(s) = {s[1]}
    <2>1. ToSet(<<s[1]>>) = {s[1]}
      BY DEF ToSet
    <2> QED BY <1>1, <2>1
  <1>3. s = << >> => ToSet(s) = {}
    BY DEF ToSet
  <1> QED BY <1>2, <1>3

\* OnUserMessage.
LEMMA OnUserMessageGood ==
    ASSUME NEW w, NEW q, NEW n, NEW S, NEW R, NEW V, NEW d, NEW o, Out \notin DOMAIN q, NEW e,
           Hand(w, q, n, S, R, V, d, o, e), e.type = "UserMessage"
    PROVE  \E o2 : Good(OnUserMessage(w, e), q, n, S, R, V, d, o2)
  <1>1. PICK b : b = AcceptPorts(w, e)
    OBVIOUS
  <1>2. Good(b, q, n, S, R, V, d, o) /\ Bound(w, b, q, n, S, d, o, e)
    BY <1>1, AcceptPortsGood
  <1>3. PICK p : p = e.port_name
    OBVIOUS
  <1>4. PICK m : m = Bare(e)
    OBVIOUS
  <1>5. e \in Message(w.names) /\ p[1] = n /\ b.names = w.names /\ b.mate = w.mate
    BY <1>2, <1>3, EventTypes DEF Bound, Hand
  <1>6. /\ m \in Message(b.names) /\ m.port_name = p /\ m.ports = e.ports
        /\ m.descriptors = << >> /\ m.body = e.body /\ m.sequence_num = e.sequence_num
    BY <1>3, <1>4, <1>5, BareTypes
  <1>7. PICK v : v = WithQueued(b, p, m)
    OBVIOUS
  <1>8. OnUserMessage(w, e) =
          IF p \notin DOMAIN w.ports \/ ~CanAcceptMoreMessages(w.ports[p])
          THEN ClosePorts(b, ToSet(m.ports))
          ELSE IF w.ports[p].state = "Proxying"
          THEN TryRemoveProxy(ForwardUserMessagesFromProxy(v, p), p)
          ELSE v
    <2>1. [b EXCEPT !.ports[p].message_queue = @ \cup {m}] = v
      BY <1>7 DEF WithQueued, WithPorts, Queued
    <2> DEFINE Is(pp, bb, mm, vv) ==
                 IF pp \notin DOMAIN w.ports \/ ~CanAcceptMoreMessages(w.ports[pp])
                 THEN ClosePorts(bb, ToSet(mm.ports))
                 ELSE IF w.ports[pp].state = "Proxying"
                 THEN TryRemoveProxy(ForwardUserMessagesFromProxy(vv, pp), pp)
                 ELSE vv
    <2>2. OnUserMessage(w, e) = Is(e.port_name, AcceptPorts(w, e), Bare(e),
             [AcceptPorts(w, e) EXCEPT !.ports[e.port_name].message_queue = @ \cup {Bare(e)}])
      BY Zenon DEF OnUserMessage, Bare
    <2>3. [AcceptPorts(w, e) EXCEPT !.ports[e.port_name].message_queue = @ \cup {Bare(e)}] = v
      BY <1>1, <1>3, <1>4, <2>1
    <2>4. OnUserMessage(w, e) = Is(p, b, m, v)
      <3> HIDE DEF Is
      <3> QED BY <1>1, <1>3, <1>4, <2>2, <2>3
    <2> QED BY <2>4
  <1>9. e.ports # << >> => /\ Free(b, q, Carried(e)) /\ Carried(e)[1] = n
                           /\ b.ports[Carried(e)].end \notin ToMerge
    BY <1>2 DEF Bound
  <1>10. Good(ClosePorts(b, ToSet(m.ports)), q, n, S, R, V, d, o)
    <2>1. m.ports \in AtMostOne(Addr(b.names))
      BY <1>6, MessageTypes
    <2>2. \A r \in ToSet(m.ports) : m.ports # << >> /\ r = m.ports[1]
      BY <2>1, CarriedSet
    <2>3. \A r \in ToSet(m.ports) : Free(b, q, r)
      BY <1>6, <1>9, <2>2 DEF Carried
    <2> QED BY <1>2, <2>3, ClosePortsGood
  <1>11. ASSUME p \in DOMAIN w.ports
         PROVE  Good(v, q, n, S, R, V, d, o) /\ p \in DOMAIN v.ports
                /\ v.ports[p].state = w.ports[p].state
    <2>1. p \in DOMAIN b.ports /\ b.ports[p] = w.ports[p]
      BY <1>2, <1>11 DEF Bound
    <2>2. Loadable(b, q, n, m)
      BY <1>6, <1>9 DEF Loadable, Carried
    <2>3. Deliverable(m, p, S, b.mate, d, o)
      BY <1>2, <1>3, <1>5, <1>6 DEF Bound, Deliverable, Numbered
    <2> QED BY <1>2, <1>5, <1>6, <1>7, <2>1, <2>2, <2>3, QueuedGood
  <1>12. ASSUME p \in DOMAIN w.ports, w.ports[p].state = "Proxying"
         PROVE  \E o2 : Good(TryRemoveProxy(ForwardUserMessagesFromProxy(v, p), p), q, n, S, R, V, d, o2)
    <2>1. Good(v, q, n, S, R, V, d, o) /\ p \in DOMAIN v.ports /\ v.ports[p].state = "Proxying"
      BY <1>11, <1>12
    <2>2. PICK f : f = ForwardUserMessagesFromProxy(v, p)
      OBVIOUS
    <2>3. ~Receiving(v.ports, p)
      BY <2>1 DEF Receiving
    <2>4. PICK o2 : Good(f, q, n, S, R, V, d, o2) /\ Onward(v, o, f, o2)
      BY <1>5, <2>1, <2>2, <2>3, FlushGood
    <2>5. p \in DOMAIN f.ports /\ f.ports[p].state = "Proxying"
      BY <2>1, <2>3, <2>4 DEF Onward, Kept
    <2>6. Good(TryRemoveProxy(f, p), q, n, S, R, V, d, o2)
      BY <2>4, <2>5, TryRemoveGood
    <2> QED BY <2>2, <2>6
  <1> QED BY <1>8, <1>10, <1>11, <1>12

\* The port, as a proxy for the peer of the port it is merged with.
Fused(port, peer) ==
    [port EXCEPT
        !.peer = peer,
        !.state = "Proxying",
        !.remove_proxy_on_last_message = @ \/ port.peer_closed]
Swapped(w, p, r) ==
    [JoinEnds(w, p, r) EXCEPT
        !.ports[p] = Fused(@, w.ports[r].peer),
        !.ports[r] = Fused(@, w.ports[p].peer)]
Crossed(P, p, r) ==
    [P EXCEPT ![p] = Fused(@, P[r].peer), ![r] = Fused(@, P[p].peer)]

\* They are port records.
LEMMA FusedTypes ==
    ASSUME NEW N, NEW a \in PortRecord(N), NEW peer \in Addr(N), NEW b, b = Fused(a, peer)
    PROVE  /\ b \in PortRecord(N) /\ b.end = a.end /\ b.state = "Proxying" /\ b.peer = peer
           /\ b.message_queue = a.message_queue
           /\ b.send_on_proxy_removal = a.send_on_proxy_removal
           /\ b.last_sequence_num_to_receive = a.last_sequence_num_to_receive
           /\ b.remove_proxy_on_last_message = (a.remove_proxy_on_last_message \/ a.peer_closed)
  <1>1. PICK x \in BOOLEAN : x = (a.remove_proxy_on_last_message \/ a.peer_closed)
    OBVIOUS
  <1>2. b = [a EXCEPT !.peer = peer, !.state = "Proxying", !.remove_proxy_on_last_message = x]
    BY <1>1 DEF Fused
  <1>3. b \in PortRecord(N) /\ b.end = a.end /\ b.state = "Proxying" /\ b.peer = peer
        /\ b.message_queue = a.message_queue
        /\ b.send_on_proxy_removal = a.send_on_proxy_removal
        /\ b.last_sequence_num_to_receive = a.last_sequence_num_to_receive
    BY <1>2 DEF PortRecord
  <1>4. b.remove_proxy_on_last_message = x
    BY <1>2 DEF PortRecord
  <1> QED BY <1>1, <1>3, <1>4, Zenon

\* The fields of the world in which two ports have been crossed.
LEMMA SwappedFields ==
    ASSUME NEW w, IsWorld(w), NEW p \in DOMAIN w.ports, NEW r \in DOMAIN w.ports,
           NEW e, e = w.ports[p].end, NEW f, f = w.ports[r].end,
           NEW v, v = Swapped(w, p, r)
    PROVE  /\ IsWorld(v) /\ v.ports = Crossed(w.ports, p, r) /\ v.names = w.names
           /\ v.held = w.held \ {p, r} /\ v.closed = w.closed
           /\ v.mate = Rejoined(w.mate, e, f) /\ v.merged = w.merged \cup {e, f}
           /\ v.out = w.out
  <1>1. PICK a, b, c, x, g, h, i :
          w = [ ports |-> a, names |-> b, held |-> c, closed |-> x, mate |-> g,
                merged |-> h, out |-> i ]
    BY Zenon DEF IsWorld
  <1>2. w.ports = a /\ w.mate = g /\ w.held = c /\ w.merged = h /\ w.names = b
        /\ w.closed = x /\ w.out = i
    BY <1>1
  <1>3. PICK M2 : M2 = Rejoined(g, e, f)
    OBVIOUS
  <1>4. PICK u : u = JoinEnds(w, p, r)
    OBVIOUS
  <1>5. u = [w EXCEPT !.mate = M2, !.merged = w.merged \cup {e, f}, !.held = w.held \ {p, r}]
    BY <1>2, <1>3, <1>4 DEF JoinEnds, Rejoined
  <1>6. u = [ ports |-> a, names |-> b, held |-> c \ {p, r}, closed |-> x, mate |-> M2,
              merged |-> h \cup {e, f}, out |-> i ]
    <2>1. PICK G2 : G2 = w.merged \cup {e, f}
      OBVIOUS
    <2>2. PICK H2 : H2 = w.held \ {p, r}
      OBVIOUS
    <2>3. u = [w EXCEPT !.mate = M2, !.merged = G2, !.held = H2]
      BY <1>5, <2>1, <2>2
    <2>4. u = [ ports |-> a, names |-> b, held |-> H2, closed |-> x, mate |-> M2,
                merged |-> G2, out |-> i ]
      BY <1>1, <2>3
    <2> QED BY <1>2, <2>1, <2>2, <2>4
  <1>7. PICK s, t : s = w.ports[r].peer /\ t = w.ports[p].peer
    OBVIOUS
  <1>8. v = [u EXCEPT !.ports[p] = Fused(@, s), !.ports[r] = Fused(@, t)]
    BY <1>4, <1>7 DEF Swapped
  <1>9. PICK P2 : P2 = Crossed(a, p, r)
    OBVIOUS
  <1>10. P2 = [a EXCEPT ![p] = Fused(@, s), ![r] = Fused(@, t)]
    BY <1>2, <1>7, <1>9 DEF Crossed
  <1>11. v = [u EXCEPT !.ports = P2]
    <2>1. [u EXCEPT !.ports[p] = Fused(@, s), !.ports[r] = Fused(@, t)]
            = [u EXCEPT !.ports = [u.ports EXCEPT ![p] = Fused(@, s), ![r] = Fused(@, t)]]
      BY <1>6
    <2>2. u.ports = a
      BY <1>6
    <2> QED BY <1>8, <1>10, <2>1, <2>2
  <1>12. v = [ ports |-> P2, names |-> b, held |-> c \ {p, r}, closed |-> x, mate |-> M2,
              merged |-> h \cup {e, f}, out |-> i ]
    BY <1>6, <1>11
  <1>13. P2 = [y \in DOMAIN P2 |-> P2[y]]
    BY <1>9, <1>2 DEF Crossed, IsWorld
  <1> QED BY <1>2, <1>3, <1>9, <1>12, <1>13 DEF IsWorld

\* A port that the embedder or a handler has in its hands.
AtHand(w, q, r) == r \in w.held \/ Free(w, q, r)

\* The ports p and r have been crossed.
LEMMA SwappedGood ==
    ASSUME NEW w, NEW q, NEW n, NEW S, NEW R, NEW V, NEW d, NEW o,
           Good(w, q, n, S, R, V, d, o),
           NEW p \in DOMAIN w.ports, NEW r \in DOMAIN w.ports, p # r,
           AtHand(w, q, p), AtHand(w, q, r), CanMerge(w, p, r), Merges # {},
           NEW v, v = Swapped(w, p, r)
    PROVE  \E d2 :
             /\ Good(v, q, n, S, R, V, d2, o)
             /\ v.names = w.names
             /\ p \in DOMAIN v.ports /\ r \in DOMAIN v.ports
             /\ \A x \in {p, r} :
                  /\ v.ports[x].state = "Proxying"
                  /\ v.ports[x].peer \in Addr(v.names)
                  /\ v.ports[x].remove_proxy_on_last_message =>
                       Tellable(d2[o[v.ports[x].peer]],
                                v.ports[x].last_sequence_num_to_receive,
                                S, v.mate, v.closed, v.merged)
  <1>1. PICK e, f : e = w.ports[p].end /\ f = w.ports[r].end
    OBVIOUS
  <1>2. PICK P2 : P2 = Crossed(w.ports, p, r)
    OBVIOUS
  <1>3. PICK M2 : M2 = Rejoined(w.mate, e, f)
    OBVIOUS
  <1>4. PICK d2 : d2 = Redirected(d, w.mate, e, f)
    OBVIOUS
  <1>5. PICK G2 : G2 = AlsoMerged(w.merged, e, f)
    OBVIOUS
  <1>6. /\ IsWorld(v) /\ v.ports = P2 /\ v.names = w.names
        /\ v.held = w.held \ {p, r} /\ v.closed = w.closed
        /\ v.mate = M2 /\ v.merged = G2 /\ v.out = w.out
    BY <1>1, <1>2, <1>3, <1>5, SwappedFields DEF Good, AlsoMerged
  <1>7. Safe(w.ports, w.names, w.held, w.closed, w.mate, w.merged, Ev(q, w), S, R, V, d, o)
    BY DEF Good
  <1>8. \A x \in {p, r} : /\ Receiving(w.ports, x)
                          /\ w.ports[x].next_sequence_num_to_send = 1
    BY DEF CanMerge, InitialSequenceNum, Receiving
  <1>9. \A x \in {p, r} : Detached(w.ports, Ev(q, w), x)
    <2>1. ASSUME NEW x \in w.held PROVE Detached(w.ports, Ev(q, w), x)
      BY <1>7 DEF Safe, Carry, Loose, Detached
    <2>2. ASSUME NEW x, Free(w, q, x) PROVE Detached(w.ports, Ev(q, w), x)
      BY <2>2 DEF Free, Unattached, Detached
    <2> QED BY <2>1, <2>2 DEF AtHand
  <1>10. \A x \in DOMAIN w.ports :
           w.ports[x] \in PortRecord(w.names) /\ w.ports[x].peer \in Addr(w.names)
    BY <1>7 DEF Safe, WellTyped, PortRecord
  <1>11. /\ DOMAIN P2 = DOMAIN w.ports
         /\ \A x \in DOMAIN w.ports \ {p, r} : P2[x] = w.ports[x]
         /\ P2[p] = Fused(w.ports[p], w.ports[r].peer)
         /\ P2[r] = Fused(w.ports[r], w.ports[p].peer)
    BY <1>2 DEF Crossed
  <1>12. /\ P2[p] \in PortRecord(w.names)
         /\ P2[p].end = w.ports[p].end /\ P2[p].state = "Proxying"
         /\ P2[p].message_queue = w.ports[p].message_queue
         /\ P2[p].send_on_proxy_removal = w.ports[p].send_on_proxy_removal
         /\ P2[p].peer = w.ports[r].peer
         /\ P2[p].last_sequence_num_to_receive = w.ports[p].last_sequence_num_to_receive
         /\ P2[p].remove_proxy_on_last_message
              = (w.ports[p].remove_proxy_on_last_message \/ w.ports[p].peer_closed)
    BY <1>10, <1>11, FusedTypes
  <1>13. /\ P2[r] \in PortRecord(w.names)
         /\ P2[r].end = w.ports[r].end /\ P2[r].state = "Proxying"
         /\ P2[r].message_queue = w.ports[r].message_queue
         /\ P2[r].send_on_proxy_removal = w.ports[r].send_on_proxy_removal
         /\ P2[r].peer = w.ports[p].peer
         /\ P2[r].last_sequence_num_to_receive = w.ports[r].last_sequence_num_to_receive
         /\ P2[r].remove_proxy_on_last_message
              = (w.ports[r].remove_proxy_on_last_message \/ w.ports[r].peer_closed)
    BY <1>10, <1>11, FusedTypes
  <1>14. /\ Safe(P2, w.names, w.held \ {p, r}, w.closed, M2, G2, Ev(q, w), S, R, V, d2, o)
         /\ w.ports[p].peer_closed =>
              Tellable(d2[o[w.ports[r].peer]], w.ports[p].last_sequence_num_to_receive,
                       S, M2, w.closed, G2)
         /\ w.ports[r].peer_closed =>
              Tellable(d2[o[w.ports[p].peer]], w.ports[r].last_sequence_num_to_receive,
                       S, M2, w.closed, G2)
    <2>1. \A x \in {p, r} :
              /\ P2[x] \in PortRecord(w.names)
              /\ P2[x].end = w.ports[x].end
              /\ P2[x].state = "Proxying"
              /\ P2[x].message_queue = w.ports[x].message_queue
              /\ P2[x].send_on_proxy_removal = w.ports[x].send_on_proxy_removal
      BY <1>12, <1>13
    <2>2. /\ Receiving(w.ports, p) /\ Receiving(w.ports, r)
          /\ w.ports[p].next_sequence_num_to_send = 1
          /\ w.ports[r].next_sequence_num_to_send = 1
          /\ Detached(w.ports, Ev(q, w), p) /\ Detached(w.ports, Ev(q, w), r)
          /\ P2[p].peer = w.ports[r].peer /\ P2[r].peer = w.ports[p].peer
      BY <1>8, <1>9, <1>12, <1>13
    <2>3. Spliced(P2, w.ports, w.names, p, r)
      BY <1>11, <2>1, <2>2 DEF Spliced
    <2> QED BY <1>1, <1>3, <1>4, <1>5, <1>7, <2>2, <2>3, Merge
  <1>15. ~w.ports[p].remove_proxy_on_last_message /\ ~w.ports[r].remove_proxy_on_last_message
    BY <1>7, <1>8 DEF Safe, Closures
  <1>16. Ev(q, v) = Ev(q, w)
    BY <1>6 DEF Ev
  <1>17. Good(v, q, n, S, R, V, d2, o)
    BY <1>6, <1>14, <1>16 DEF Good
  <1>18. \A x \in {p, r} :
            /\ v.ports[x].state = "Proxying"
            /\ v.ports[x].peer \in Addr(v.names)
            /\ v.ports[x].remove_proxy_on_last_message =>
                 Tellable(d2[o[v.ports[x].peer]],
                          v.ports[x].last_sequence_num_to_receive,
                          S, v.mate, v.closed, v.merged)
    BY <1>6, <1>10, <1>12, <1>13, <1>14, <1>15
  <1> QED BY <1>6, <1>11, <1>17, <1>18

\* MergePortsInternal.
LEMMA MergeGood ==
    ASSUME NEW w, NEW q, NEW n, NEW S, NEW R, NEW V, NEW d, NEW o, Out \notin DOMAIN q,
           Good(w, q, n, S, R, V, d, o),
           NEW p \in DOMAIN w.ports, NEW r \in DOMAIN w.ports, p # r, p[1] = n, r[1] = n,
           Merges # {},
           Receiving(w.ports, p) => AtHand(w, q, p),
           Receiving(w.ports, r) => AtHand(w, q, r)
    PROVE  \E d2, o2 : Good(MergePortsInternal(w, p, r), q, n, S, R, V, d2, o2)
  <1>1. CASE ~CanMerge(w, p, r)
    <2>1. MergePortsInternal(w, p, r) = ClosePorts(w, {p, r})
      BY <1>1 DEF MergePortsInternal
    <2>2. \A x \in {p, r} : x \in DOMAIN w.ports /\ Receiving(w.ports, x) =>
                               x \in w.held \/ Free(w, q, x)
      BY DEF AtHand
    <2>3. Good(ClosePorts(w, {p, r}), q, n, S, R, V, d, o)
      BY <2>2, ClosePortsGood
    <2> QED BY <2>1, <2>3
  <1>2. CASE CanMerge(w, p, r)
    <2>1. PICK u : u = Swapped(w, p, r)
      OBVIOUS
    <2>2. PICK f : f = ForwardUserMessagesFromProxy(u, p)
      OBVIOUS
    <2>3. PICK g : g = ForwardUserMessagesFromProxy(f, r)
      OBVIOUS
    <2>4. PICK h : h = CompleteMerge(g, p)
      OBVIOUS
    <2>5. PICK v : v = CompleteMerge(h, r)
      OBVIOUS
    <2>6. MergePortsInternal(w, p, r) = v
      <3>1. MergePortsInternal(w, p, r) =
              CompleteMerge(CompleteMerge(ForwardUserMessagesFromProxy(
                ForwardUserMessagesFromProxy(Swapped(w, p, r), p), r), p), r)
        BY <1>2, Zenon DEF MergePortsInternal, Swapped, Fused
      <3> QED BY <2>1, <2>2, <2>3, <2>4, <2>5, <3>1
    <2>7. AtHand(w, q, p) /\ AtHand(w, q, r)
      BY <1>2 DEF CanMerge, Receiving
    <2>8. PICK d2 :
             /\ Good(u, q, n, S, R, V, d2, o)
             /\ u.names = w.names
             /\ p \in DOMAIN u.ports /\ r \in DOMAIN u.ports
             /\ \A x \in {p, r} :
                  /\ u.ports[x].state = "Proxying"
                  /\ u.ports[x].peer \in Addr(u.names)
                  /\ u.ports[x].remove_proxy_on_last_message =>
                       Tellable(d2[o[u.ports[x].peer]],
                                u.ports[x].last_sequence_num_to_receive,
                                S, u.mate, u.closed, u.merged)
      BY <1>2, <2>1, <2>7, SwappedGood
    <2>9. ~Receiving(u.ports, p) /\ ~Receiving(u.ports, r)
      BY <2>8 DEF Receiving
    <2>10. PICK o1 : Good(f, q, n, S, R, V, d2, o1) /\ Onward(u, o, f, o1)
      BY <2>2, <2>8, <2>9, FlushGood
    <2>11. r \in DOMAIN f.ports /\ ~Receiving(f.ports, r)
      BY <2>8, <2>9, <2>10 DEF Onward, Kept, Receiving
    <2>12. PICK o2 : Good(g, q, n, S, R, V, d2, o2) /\ Onward(f, o1, g, o2)
      BY <2>3, <2>10, <2>11, FlushGood
    <2>13. Onward(u, o, g, o2)
      BY <2>10, <2>12, OnwardTrans
    <2>14. \A x \in {p, r} :
                /\ x \in DOMAIN g.ports
                /\ g.ports[x].state = "Proxying"
                /\ g.ports[x].remove_proxy_on_last_message =>
                     Tellable(d2[o2[g.ports[x].peer]],
                              g.ports[x].last_sequence_num_to_receive,
                              S, g.mate, g.closed, g.merged)
      BY <2>8, <2>9, <2>13 DEF Onward, Kept
    <2>15. Good(h, q, n, S, R, V, d2, o2) /\ Survive(g, h, p)
      BY <2>4, <2>12, <2>14, CompleteGood
    <2>16. /\ r \in DOMAIN h.ports /\ h.ports[r] = g.ports[r] /\ h.mate = g.mate
           /\ h.closed = g.closed /\ h.merged = g.merged
      BY <2>14, <2>15 DEF Survive
    <2>17. Good(v, q, n, S, R, V, d2, o2)
      BY <2>5, <2>14, <2>15, <2>16, CompleteGood
    <2> QED BY <2>6, <2>17
  <1> QED BY <1>1, <1>2

\* The port of an end that is to be merged is never carried.
LEMMA MergedAtHand ==
    ASSUME NEW w, NEW q, NEW n, NEW S, NEW R, NEW V, NEW d, NEW o, Good(w, q, n, S, R, V, d, o),
           NEW f \in ToMerge, NEW p \in DOMAIN w.ports, p = Home(f), Receiving(w.ports, p)
    PROVE  AtHand(w, q, p)
  <1>1. Safe(w.ports, w.names, w.held, w.closed, w.mate, w.merged, Ev(q, w), S, R, V, d, o)
    BY DEF Good
  <1>2. f \in Ends /\ w.ports[p].end \in Ends
    <2>1. w.ports[p].end \in Ends
      BY <1>1, AddressesKnown
    <2> QED BY <2>1, MergesAssumption DEF ToMerge
  <1>3. p[2] = f /\ p[2] <= 2 * Len(Pipes)
    BY <1>2, PipesAssumption DEF Home, Ends
  <1>4. p = Home(w.ports[p].end)
    BY <1>1, <1>3 DEF Safe, Carry
  <1>5. w.ports[p].end = f
    BY <1>3, <1>4 DEF Home
  <1>6. \A y \in DOMAIN w.ports : \A m \in w.ports[y].message_queue :
           m.ports # << >> => Carried(m) # p
    BY <1>1, <1>5 DEF Safe, Carry, Loose
  <1>7. \A x \in DOMAIN Ev(q, w) : Attaching(Ev(q, w)[x]) => Carried(Ev(q, w)[x]) # p
    BY <1>1, <1>5 DEF Safe, Carry, Loose
  <1> QED BY <1>6, <1>7 DEF AtHand, Free, Unattached

\* OnMergePort.
LEMMA OnMergePortGood ==
    ASSUME NEW w, NEW q, NEW n, NEW S, NEW R, NEW V, NEW d, NEW o, Out \notin DOMAIN q, NEW e,
           Hand(w, q, n, S, R, V, d, o, e), e.type = "MergePort"
    PROVE  \E d2, o2 : Good(OnMergePort(w, e), q, n, S, R, V, d2, o2)
  <1>1. PICK b : b = AcceptPorts(w, e)
    OBVIOUS
  <1>2. Good(b, q, n, S, R, V, d, o) /\ Bound(w, b, q, n, S, d, o, e)
    BY <1>1, AcceptPortsGood
  <1>3. PICK p, r : p = e.port_name /\ r = Carried(e)
    OBVIOUS
  <1>4. /\ Free(b, q, r) /\ r[1] = n /\ p[1] = n /\ r \notin DOMAIN w.ports
        /\ \E f \in ToMerge : p = Home(f)
    BY <1>2, <1>3 DEF Bound, Hand
  <1>5. OnMergePort(w, e) = IF p \in DOMAIN w.ports THEN MergePortsInternal(b, p, r)
                            ELSE ClosePorts(b, {r})
    BY <1>1, <1>3 DEF OnMergePort, Carried
  <1>6. CASE p \notin DOMAIN w.ports
    <2>1. \A x \in {r} : x \in DOMAIN b.ports /\ Receiving(b.ports, x) =>
                            x \in b.held \/ Free(b, q, x)
      BY <1>4
    <2>2. Good(ClosePorts(b, {r}), q, n, S, R, V, d, o)
      BY <1>2, <2>1, ClosePortsGood
    <2> QED BY <1>5, <1>6, <2>2
  <1>7. CASE p \in DOMAIN w.ports
    <2>1. p \in DOMAIN b.ports /\ r \in DOMAIN b.ports /\ p # r
      BY <1>2, <1>4, <1>7 DEF Bound, Free, Unattached
    <2>2. Receiving(b.ports, p) => AtHand(b, q, p)
      BY <1>2, <1>4, <2>1, MergedAtHand
    <2>3. AtHand(b, q, r)
      BY <1>4 DEF AtHand
    <2>m. Merges # {}
      BY <1>4 DEF ToMerge
    <2>4. \E d2, o2 : Good(MergePortsInternal(b, p, r), q, n, S, R, V, d2, o2)
      BY <1>2, <1>4, <2>1, <2>2, <2>3, <2>m, MergeGood
    <2> QED BY <1>5, <1>7, <2>4
  <1> QED BY <1>6, <1>7

\* AcceptEvent.
LEMMA AcceptEventGood ==
    ASSUME NEW w, NEW q, NEW n, NEW S, NEW R, NEW V, NEW d, NEW o, Out \notin DOMAIN q, NEW e,
           Hand(w, q, n, S, R, V, d, o, e)
    PROVE  \E V2, d2, o2 : /\ Good(AcceptEvent(w, e), q, n, S, R, V2, d2, o2)
                            /\ Follows(V2, V, AcceptEvent(w, e).closed, w.closed)
  <1>1. e.type \in {"UserMessage", "MergePort", "PortAccepted", "ObserveProxy",
                    "ObserveProxyAck", "ObserveClosure"}
    <2>1. PICK E, x : /\ Extends(E, Ev(q, w), x, e)
                      /\ Safe(w.ports, w.names, w.held, w.closed, w.mate, w.merged, E, S, R, V, d, o)
      BY DEF Hand
    <2>2. e \in Event(w.names)
      BY <2>1 DEF Extends, Safe, WellTyped
    <2> QED BY <2>2, EventTypes
  <1>2. CASE e.type = "UserMessage"
    BY <1>2, OnUserMessageGood DEF AcceptEvent, Follows
  <1>3. CASE e.type = "MergePort"
    <2>1. AcceptEvent(w, e) = OnMergePort(w, e)
      BY <1>3 DEF AcceptEvent
    <2> QED BY <1>3, <2>1, OnMergePortGood DEF Follows
  <1>4. CASE e.type = "PortAccepted"
    <2>1. AcceptEvent(w, e) = OnPortAccepted(w, e)
      BY <1>4 DEF AcceptEvent
    <2> QED BY <1>4, <2>1, OnPortAcceptedGood DEF Follows
  <1>5. CASE e.type = "ObserveProxy"
    <2>1. AcceptEvent(w, e) = OnObserveProxy(w, e)
      BY <1>5 DEF AcceptEvent
    <2> QED BY <1>5, <2>1, OnObserveProxyGood DEF Follows
  <1>6. CASE e.type = "ObserveProxyAck"
    <2>1. AcceptEvent(w, e) = OnObserveProxyAck(w, e)
      BY <1>6 DEF AcceptEvent
    <2> QED BY <1>6, <2>1, OnObserveProxyAckGood DEF Follows
  <1>7. CASE e.type = "ObserveClosure"
    <2>1. AcceptEvent(w, e) = OnObserveClosure(w, e)
      BY <1>7 DEF AcceptEvent
    <2> QED BY <1>7, <2>1, OnObserveClosureGood
  <1> QED BY <1>1, <1>2, <1>3, <1>4, <1>5, <1>6, <1>7

-----------------------------------------------------------------------------
\* The threads and the channels.

\* The stacks st and the channels ch have events for N names, in their places.
Placed(st, ch, N) ==
    /\ st \in [Nodes -> [Threads -> Seq(Event(N))]]
    /\ ch \in [Nodes -> [Nodes -> Seq(Event(N))]]
    /\ \A n \in Nodes, t \in Threads : \A i \in DOMAIN st[n][t] : InPlace(n, st[n][t][i])
    /\ \A m, n \in Nodes : \A i \in DOMAIN ch[m][n] :
          ch[m][n][i].port_name[1] = n /\ ~Attaching(ch[m][n][i])

\* The slots of the queues.
LEMMA QueuesFacts ==
    ASSUME NEW st, NEW ch, NEW q, q = Queues(st, ch)
    PROVE  /\ DOMAIN q = Slots /\ Out \notin DOMAIN q
           /\ \A n \in Nodes, t \in Threads :
                 <<"stack", n, t>> \in Slots /\ q[<<"stack", n, t>>] = st[n][t]
           /\ \A m, n \in Nodes :
                 <<"chan", m, n>> \in Slots /\ q[<<"chan", m, n>>] = ch[m][n]
           /\ \A i \in Slots : \/ \E n \in Nodes, t \in Threads : i = <<"stack", n, t>>
                               \/ \E m, n \in Nodes : i = <<"chan", m, n>>
  <1>1. DOMAIN q = Slots
    BY DEF Queues
  <1>2. Out \notin Slots
    BY DEF Out, Slots
  <1>3. ASSUME NEW n \in Nodes, NEW t \in Threads
        PROVE  <<"stack", n, t>> \in Slots /\ q[<<"stack", n, t>>] = st[n][t]
    BY DEF Slots, Queues
  <1>4. ASSUME NEW m \in Nodes, NEW n \in Nodes
        PROVE  <<"chan", m, n>> \in Slots /\ q[<<"chan", m, n>>] = ch[m][n]
    BY DEF Slots, Queues
  <1>5. \A i \in Slots : \/ \E n \in Nodes, t \in Threads : i = <<"stack", n, t>>
                         \/ \E m, n \in Nodes : i = <<"chan", m, n>>
    BY DEF Slots
  <1> QED BY <1>1, <1>2, <1>3, <1>4, <1>5

\* A sequence, by what it holds.
Within(s, U) == \A i \in DOMAIN s : s[i] \in U

\* It is a sequence over the set that holds its elements.
LEMMA SeqWithin ==
    ASSUME NEW T, NEW U, NEW s, s \in Seq(T), Within(s, U)
    PROVE  s \in Seq(U)
  <1>1. PICK k \in Nat : k = Len(s)
    OBVIOUS
  <1>2. s = [i \in 1 .. k |-> s[i]] /\ DOMAIN s = 1 .. k
    BY <1>1
  <1>3. s \in [1 .. k -> U]
    BY <1>2 DEF Within
  <1> QED BY <1>3, SeqDef

\* The family f2 of queues differs from f at most in that f2[n][t] is s.
IsFamily(f, A, B, T) == f \in [A -> [B -> Seq(T)]]
Sets(f2, f, A, B, n, t, s) ==
    /\ f2[n][t] = s
    /\ \A m \in A, u \in B : m # n \/ u # t => f2[m][u] = f[m][u]
    /\ \A T : (\A m \in A, u \in B : f2[m][u] \in Seq(T)) => IsFamily(f2, A, B, T)

\* EXCEPT sets one queue.
LEMMA FamilyExcept ==
    ASSUME NEW A, NEW B, NEW T, NEW f, IsFamily(f, A, B, T), NEW n \in A, NEW t \in B, NEW s,
           NEW f2, f2 = [f EXCEPT ![n][t] = s]
    PROVE  Sets(f2, f, A, B, n, t, s)
  BY DEF IsFamily, Sets

\* The thread's stack when its handler has ended.
Stacked(st, n, t, out) == [st EXCEPT ![n][t] = out \o @]

\* Only that stack differs.
LEMMA StackedFacts ==
    ASSUME NEW T, NEW st, IsFamily(st, Nodes, Threads, T), NEW n \in Nodes, NEW t \in Threads,
           NEW out, NEW st2, st2 = Stacked(st, n, t, out)
    PROVE  Sets(st2, st, Nodes, Threads, n, t, out \o st[n][t])
  <1>1. PICK s : s = out \o st[n][t]
    OBVIOUS
  <1>2. st2 = [st EXCEPT ![n][t] = s]
    BY <1>1 DEF Stacked, IsFamily
  <1> QED BY <1>1, <1>2, FamilyExcept

\* A handler that has ended leaves its events at the top of its thread's stack.
LEMMA LandsSafe ==
    ASSUME NEW st, NEW ch, NEW N, Placed(st, ch, N), NEW q, q = Queues(st, ch),
           NEW w, NEW n \in Nodes, NEW t \in Threads, NEW S, NEW R, NEW V, NEW d, NEW o,
           Good(w, q, n, S, R, V, d, o),
           NEW st2, st2 = Stacked(st, n, t, w.out), NEW q2, q2 = Queues(st2, ch)
    PROVE  Safe(w.ports, w.names, w.held, w.closed, w.mate, w.merged, Toks(q2), S, R, V, d, o)
  <1>1. PICK i : i = <<"stack", n, t>>
    OBVIOUS
  <1>2. DOMAIN q = Slots /\ DOMAIN q2 = Slots /\ Out \notin DOMAIN q /\ i \in DOMAIN q
    BY <1>1, QueuesFacts
  <1>3. IsFamily(st, Nodes, Threads, Event(N))
    BY DEF Placed, IsFamily
  <1>4. /\ st2[n][t] = w.out \o st[n][t]
        /\ \A m \in Nodes, u \in Threads : m # n \/ u # t => st2[m][u] = st[m][u]
    <2>1. Sets(st2, st, Nodes, Threads, n, t, w.out \o st[n][t])
      BY <1>3, StackedFacts
    <2> QED BY <2>1 DEF Sets
  <1>5. q2[i] = w.out \o q[i]
    <2>1. q2[i] = st2[n][t] /\ q[i] = st[n][t]
      BY <1>1, QueuesFacts
    <2> QED BY <1>4, <2>1
  <1>6. ASSUME NEW j \in DOMAIN q \ {i} PROVE q2[j] = q[j]
    <2>1. \/ \E m \in Nodes, u \in Threads : j = <<"stack", m, u>>
          \/ \E m, k \in Nodes : j = <<"chan", m, k>>
      BY <1>2, <1>6, QueuesFacts
    <2>2. CASE \E m \in Nodes, u \in Threads : j = <<"stack", m, u>>
      <3>1. PICK m \in Nodes, u \in Threads : j = <<"stack", m, u>>
        BY <2>2
      <3>2. m # n \/ u # t
        BY <1>1, <3>1
      <3>3. q2[j] = st2[m][u] /\ q[j] = st[m][u]
        BY <3>1, QueuesFacts
      <3> QED BY <1>4, <3>2, <3>3
    <2>3. CASE \E m, k \in Nodes : j = <<"chan", m, k>>
      <3>1. PICK m \in Nodes, k \in Nodes : j = <<"chan", m, k>>
        BY <2>3
      <3> QED BY <3>1, QueuesFacts
    <2> QED BY <2>1, <2>2, <2>3
  <1>7. PICK T : T = Event(N) \cup Event(w.names)
    OBVIOUS
  <1>8. q[i] \in Seq(T)
    <2>1. q[i] = st[n][t] /\ st[n][t] \in Seq(Event(N))
      BY <1>1, <1>3, QueuesFacts DEF IsFamily
    <2> QED BY <1>7, <2>1
  <1>9. w.out \in Seq(T)
    <2>1. w.out \in Seq(Event(w.names))
      BY DEF Good
    <2> QED BY <1>7, <2>1
  <1>10. Safe(w.ports, w.names, w.held, w.closed, w.mate, w.merged, Toks(With(q, w.out)), S, R, V, d, o)
    BY DEF Good, Ev
  <1>11. DOMAIN q2 = DOMAIN q /\ \A j \in DOMAIN q \ {i} : q2[j] = q[j]
    BY <1>2, <1>6
  <1>12. ASSUME NEW a, NEW b, i \in DOMAIN a, Out \notin DOMAIN a, a[i] \in Seq(T),
                Safe(w.ports, w.names, w.held, w.closed, w.mate, w.merged,
                     Toks(With(a, w.out)), S, R, V, d, o),
                DOMAIN b = DOMAIN a, \A j \in DOMAIN a \ {i} : b[j] = a[j],
                b[i] = w.out \o a[i]
         PROVE  Safe(w.ports, w.names, w.held, w.closed, w.mate, w.merged, Toks(b), S, R, V, d, o)
    BY <1>9, <1>12, Land
  <1> QED BY <1>2, <1>5, <1>8, <1>10, <1>11, <1>12, Zenon

\* The events are in their places then.
LEMMA LandsPlaced ==
    ASSUME NEW st, NEW ch, NEW N, Placed(st, ch, N), NEW q, q = Queues(st, ch),
           NEW w, NEW n \in Nodes, NEW t \in Threads, NEW S, NEW R, NEW V, NEW d, NEW o,
           Good(w, q, n, S, R, V, d, o),
           NEW st2, st2 = Stacked(st, n, t, w.out)
    PROVE  Placed(st2, ch, w.names)
  <1>1. /\ DOMAIN q = Slots /\ Out \notin DOMAIN q
        /\ \A m \in Nodes, u \in Threads :
              <<"stack", m, u>> \in Slots /\ q[<<"stack", m, u>>] = st[m][u]
        /\ \A m, k \in Nodes :
              <<"chan", m, k>> \in Slots /\ q[<<"chan", m, k>>] = ch[m][k]
    BY QueuesFacts
  <1>2. /\ st \in [Nodes -> [Threads -> Seq(Event(N))]]
        /\ ch \in [Nodes -> [Nodes -> Seq(Event(N))]]
    BY DEF Placed
  <1> PICK T : T = Event(w.names)
    OBVIOUS
  <1>3. ASSUME NEW j \in DOMAIN q, NEW k \in DOMAIN q[j] PROVE q[j][k] \in T
    <2>1. PICK a : a = With(q, w.out)
      OBVIOUS
    <2>2. j \in DOMAIN a /\ a[j] = q[j]
      BY <1>1, <2>1 DEF With
    <2>3. Toks(a)[<<j, k>>] = q[j][k] /\ <<j, k>> \in DOMAIN Toks(a)
      BY <2>2, ToksFacts
    <2>4. \A x \in DOMAIN Ev(q, w) : Ev(q, w)[x] \in T
      BY DEF Good, Safe, WellTyped
    <2> QED BY <2>1, <2>3, <2>4 DEF Ev
  <1>4. ASSUME NEW m \in Nodes, NEW u \in Threads PROVE st[m][u] \in Seq(T)
    <2>1. PICK s : s = st[m][u]
      OBVIOUS
    <2>2. s \in Seq(Event(N))
      BY <1>2, <2>1
    <2>3. PICK j : j = <<"stack", m, u>>
      OBVIOUS
    <2>4. j \in DOMAIN q /\ q[j] = s
      BY <1>1, <2>1, <2>3
    <2>5. Within(s, T)
      BY <1>3, <2>4 DEF Within
    <2>6. s \in Seq(T)
      BY <2>2, <2>5, SeqWithin
    <2> QED BY <2>1, <2>6
  <1>5. ASSUME NEW m \in Nodes, NEW k \in Nodes PROVE ch[m][k] \in Seq(T)
    <2>1. PICK s : s = ch[m][k]
      OBVIOUS
    <2>2. s \in Seq(Event(N))
      BY <1>2, <2>1
    <2>3. PICK j : j = <<"chan", m, k>>
      OBVIOUS
    <2>4. j \in DOMAIN q /\ q[j] = s
      BY <1>1, <2>1, <2>3
    <2>5. Within(s, T)
      BY <1>3, <2>4 DEF Within
    <2>6. s \in Seq(T)
      BY <2>2, <2>5, SeqWithin
    <2> QED BY <2>1, <2>6
  <1>6. ch \in [Nodes -> [Nodes -> Seq(T)]]
    BY <1>2, <1>5
  <1>7. w.out \in Seq(T) /\ \A i \in 1 .. Len(w.out) : InPlace(n, w.out[i])
    BY DEF Good
  <1>8. /\ st2[n][t] = w.out \o st[n][t]
        /\ \A m \in Nodes, u \in Threads : m # n \/ u # t => st2[m][u] = st[m][u]
        /\ (\A m \in Nodes, u \in Threads : st2[m][u] \in Seq(T)) =>
               st2 \in [Nodes -> [Threads -> Seq(T)]]
    <2>1. IsFamily(st, Nodes, Threads, Event(N))
      BY <1>2 DEF IsFamily
    <2>2. Sets(st2, st, Nodes, Threads, n, t, w.out \o st[n][t])
      BY <2>1, StackedFacts
    <2> QED BY <2>2 DEF Sets, IsFamily
  <1>9. PICK s : s = st[n][t]
    OBVIOUS
  <1>10. PICK out : out = w.out
    OBVIOUS
  <1>11. out \in Seq(T) /\ s \in Seq(T) /\ st2[n][t] = out \o s
    BY <1>4, <1>7, <1>8, <1>9, <1>10
  <1>12. \A i \in DOMAIN s : InPlace(n, s[i])
    BY <1>9 DEF Placed
  <1>13. /\ out \o s \in Seq(T)
         /\ \A i \in DOMAIN (out \o s) : InPlace(n, (out \o s)[i])
    <2>1. PICK j \in Nat : j = Len(out)
      BY <1>11
    <2>2. PICK l \in Nat : l = Len(s)
      BY <1>11
    <2>3. PICK c : c = out \o s
      OBVIOUS
    <2>4. /\ c \in Seq(T) /\ Len(c) = j + l /\ DOMAIN c = 1 .. (j + l)
          /\ \A k \in 1 .. j : c[k] = out[k]
          /\ \A k \in j + 1 .. j + l : c[k] = s[k - j]
      BY <1>11, <2>1, <2>2, <2>3, ConcatProperties
    <2>5. \A k \in 1 .. (j + l) : \/ k \in 1 .. j
                                  \/ k \in j + 1 .. j + l /\ k - j \in 1 .. l
      OBVIOUS
    <2>6. DOMAIN s = 1 .. l
      BY <1>11, <2>2
    <2>7. \A k \in 1 .. j : InPlace(n, out[k])
      BY <1>7, <1>10, <2>1
    <2> QED BY <1>12, <2>3, <2>4, <2>5, <2>6, <2>7
  <1>14. \A m \in Nodes, u \in Threads :
            st2[m][u] \in Seq(T) /\ \A i \in DOMAIN st2[m][u] : InPlace(m, st2[m][u][i])
    <2> SUFFICES ASSUME NEW m \in Nodes, NEW u \in Threads
                 PROVE  st2[m][u] \in Seq(T) /\ \A i \in DOMAIN st2[m][u] : InPlace(m, st2[m][u][i])
      OBVIOUS
    <2>1. CASE m = n /\ u = t
      BY <1>11, <1>13, <2>1
    <2>2. CASE m # n \/ u # t
      <3>1. \A i \in DOMAIN st[m][u] : InPlace(m, st[m][u][i])
        BY DEF Placed
      <3> QED BY <1>4, <1>8, <2>2, <3>1
    <2> QED BY <2>1, <2>2
  <1> QED BY <1>6, <1>8, <1>14 DEF Placed

-----------------------------------------------------------------------------
\* The steps of the system.

\* The inductive invariant: the ports, the events in the stacks and channels, and
\* what was sent and read are safe, for some notices, destinations and ends of addresses.
Sound(V) ==
    \E d, o : Safe(ports, names, held, closed, mate, merged, Toks(Queues(stack, chan)),
                   sent, received, V, d, o)
IInvAt(V) == Sound(V) /\ Places /\ ports = [p \in DOMAIN ports |-> ports[p]]
IInv == \E V : IInvAt(V)

\* Places speaks of the stacks and the channels.
LEMMA PlacesPlaced == Places <=> Placed(stack, chan, names)
  BY DEF Places, Placed

\* The world as a handler finds it.
LEMMA WorldFields ==
    ASSUME ports = [p \in DOMAIN ports |-> ports[p]]
    PROVE  /\ IsWorld(World)
           /\ World.ports = ports /\ World.names = names /\ World.held = held
           /\ World.closed = closed /\ World.mate = mate /\ World.merged = merged
           /\ World.out = << >>
  <1>1. /\ World.ports = ports /\ World.names = names /\ World.held = held
        /\ World.closed = closed /\ World.mate = mate /\ World.merged = merged
        /\ World.out = << >>
    BY DEF World
  <1> QED BY <1>1 DEF World, IsWorld

\* A call starts from a good world.
LEMMA Start ==
    ASSUME NEW V, IInvAt(V), NEW n, NEW q, q = Queues(stack, chan)
    PROVE  /\ \E d, o : Good(World, q, n, sent, received, V, d, o)
           /\ Out \notin DOMAIN q /\ Placed(stack, chan, names)
           /\ World.ports = ports /\ World.names = names /\ World.held = held
           /\ World.mate = mate
           /\ held \subseteq DOMAIN ports
           /\ \A p \in DOMAIN ports : p[1] \in Nodes /\ p \in Addr(names)
  <1>1. PICK d, o : Safe(ports, names, held, closed, mate, merged, Toks(q), sent, received, V, d, o)
    BY DEF IInvAt, Sound
  <1>2. Out \notin DOMAIN q
    BY QueuesFacts
  <1>3. /\ IsWorld(World)
        /\ World.ports = ports /\ World.names = names /\ World.held = held
        /\ World.closed = closed /\ World.mate = mate /\ World.merged = merged
        /\ World.out = << >>
    BY WorldFields DEF IInvAt
  <1>4. Ev(q, World) = Toks(q)
    BY <1>2, <1>3, WithEmpty DEF Ev
  <1>5. World.out \in Seq(Event(names)) /\ \A i \in 1 .. Len(World.out) : InPlace(n, World.out[i])
    BY <1>3
  <1>6. Good(World, q, n, sent, received, V, d, o)
    BY <1>1, <1>3, <1>4, <1>5 DEF Good
  <1>7. Placed(stack, chan, names)
    BY PlacesPlaced DEF IInvAt
  <1>8. held \subseteq DOMAIN ports /\ DOMAIN ports \subseteq Addr(names)
    BY <1>1 DEF Safe, WellTyped
  <1>9. \A p \in Addr(names) : p[1] \in Nodes
    BY DEF Addr
  <1> QED BY <1>2, <1>3, <1>6, <1>7, <1>8, <1>9

\* The end of a handler in a good world.
LEMMA Finish ==
    ASSUME NEW st, NEW ch, NEW N, Placed(st, ch, N), NEW q, q = Queues(st, ch),
           NEW w, NEW n \in Nodes, NEW t \in Threads, NEW V, NEW d, NEW o,
           Good(w, q, n, sent', received', V, d, o),
           ports' = w.ports, names' = w.names, held' = w.held, closed' = w.closed,
           mate' = w.mate, merged' = w.merged,
           stack' = Stacked(st, n, t, w.out), chan' = ch
    PROVE  IInvAt(V)'
  <1>1. PICK st2 : st2 = Stacked(st, n, t, w.out)
    OBVIOUS
  <1>2. PICK q2 : q2 = Queues(st2, ch)
    OBVIOUS
  <1>3. Safe(w.ports, w.names, w.held, w.closed, w.mate, w.merged, Toks(q2),
             sent', received', V, d, o)
    BY <1>1, <1>2, LandsSafe
  <1>4. Placed(st2, ch, w.names)
    BY <1>1, LandsPlaced
  <1>5. Sound(V)'
    BY <1>1, <1>2, <1>3 DEF Sound
  <1>6. Places'
    BY <1>1, <1>4 DEF Placed, Places
  <1>7. w.ports = [p \in DOMAIN w.ports |-> w.ports[p]]
    BY DEF Good, IsWorld
  <1> QED BY <1>5, <1>6, <1>7 DEF IInvAt

\* What Commit assigns.
LEMMA CommitFields ==
    ASSUME NEW n, NEW t, NEW w, NEW rest, Commit(n, t, w, rest)
    PROVE  /\ ports' = w.ports /\ names' = w.names /\ held' = w.held /\ closed' = w.closed
           /\ mate' = w.mate /\ merged' = w.merged
           /\ stack' = [stack EXCEPT ![n][t] = w.out \o rest]
  BY DEF Commit

\* A call of the API, on a thread that does nothing else.
LEMMA ApiStep ==
    ASSUME NEW V, IInvAt(V), NEW n \in Nodes, NEW t \in Threads, stack[n][t] = << >>, NEW w,
           Commit(n, t, w, << >>), chan' = chan, NEW d, NEW o,
           NEW q, q = Queues(stack, chan),
           Good(w, q, n, sent', received', V, d, o)
    PROVE  IInvAt(V)'
  <1>1. /\ ports' = w.ports /\ names' = w.names /\ held' = w.held /\ closed' = w.closed
        /\ mate' = w.mate /\ merged' = w.merged
        /\ stack' = [stack EXCEPT ![n][t] = w.out \o << >>]
    <2> QED BY DEF Commit
  <1>2. Placed(stack, chan, names)
    BY PlacesPlaced DEF IInvAt
  <1>3. stack' = Stacked(stack, n, t, w.out)
    BY <1>1, <1>2 DEF Stacked, Placed
  <1>4. /\ ports' = w.ports /\ names' = w.names /\ held' = w.held /\ closed' = w.closed
        /\ mate' = w.mate /\ merged' = w.merged
    BY <1>1
  <1> QED BY <1>2, <1>3, <1>4, Finish, Zenon

\* Closing what the embedder holds.
LEMMA CloseStep ==
    ASSUME NEW V, IInvAt(V), NEW n \in Nodes, NEW t \in Threads, stack[n][t] = << >>, NEW roots,
           roots \subseteq held, Commit(n, t, ClosePorts(World, roots), << >>),
           UNCHANGED <<chan, sent, received>>
    PROVE  IInvAt(V)'
  <1>1. PICK q : q = Queues(stack, chan)
    OBVIOUS
  <1>2. PICK d, o : Good(World, q, n, sent, received, V, d, o)
    BY <1>1, Start
  <1>3. Out \notin DOMAIN q /\ World.held = held
    BY <1>1, Start
  <1>4. \A r \in roots : r \in DOMAIN World.ports /\ Receiving(World.ports, r) =>
                            r \in World.held \/ Free(World, q, r)
    BY <1>3
  <1>5. PICK w : w = ClosePorts(World, roots)
    OBVIOUS
  <1>6. Good(w, q, n, sent, received, V, d, o)
    BY <1>2, <1>3, <1>4, <1>5, ClosePortsGood
  <1>7. Good(w, q, n, sent', received', V, d, o)
    BY <1>6
  <1> QED BY <1>1, <1>5, <1>7, ApiStep

\* A thread that holds a handle of a port is one of the port's node.
LEMMA CallsFacts ==
    ASSUME NEW V, IInvAt(V), NEW p, Calls(p)
    PROVE  /\ p \in held /\ p[1] \in Nodes /\ CallingThread \in Threads
           /\ stack[p[1]][CallingThread] = << >>
  BY Start, CallingThreadAssumption DEF Calls

\* ClosePort keeps the invariant.
LEMMA ClosePortStep ==
    ASSUME NEW V, IInvAt(V), NEW p \in held, ClosePort(p)
    PROVE  IInvAt(V)'
  <1>1. /\ p[1] \in Nodes /\ CallingThread \in Threads
        /\ stack[p[1]][CallingThread] = << >>
    BY CallsFacts DEF ClosePort
  <1>2. Commit(p[1], CallingThread, ClosePorts(World, {p}), << >>)
        /\ UNCHANGED <<chan, sent, received>>
    BY DEF ClosePort
  <1>3. {p} \subseteq held
    OBVIOUS
  <1> QED BY <1>1, <1>2, <1>3, CloseStep

\* What may be attached.
LEMMA AttachableFacts ==
    ASSUME NEW p, NEW attached \in Attachable(p)
    PROVE  \/ attached = << >> /\ ToSet(attached) = {}
           \/ \E r \in held : /\ attached = <<r>> /\ ToSet(attached) = {r} /\ r[1] = p[1]
                              /\ \/ <<ports[p].end, ports[r].end>> \in Carries
                                 \/ r = ports[p].peer
  <1>1. ToSet(<< >>) = {}
    BY DEF ToSet
  <1>2. \A r : ToSet(<<r>>) = {r}
    BY DEF ToSet
  <1> QED BY <1>1, <1>2 DEF Attachable

\* SendUserMessageFails keeps the invariant.
LEMMA SendFailsStep ==
    ASSUME NEW V, IInvAt(V), NEW p \in held, SendUserMessageFails(p)
    PROVE  IInvAt(V)'
  <1>1. PICK attached \in Attachable(p) :
          /\ Calls(p)
          /\ Commit(p[1], CallingThread, ClosePorts(World, ToSet(attached)), << >>)
          /\ UNCHANGED <<chan, sent, received>>
    BY DEF SendUserMessageFails
  <1>2. /\ p[1] \in Nodes /\ CallingThread \in Threads
        /\ stack[p[1]][CallingThread] = << >>
    BY <1>1, CallsFacts
  <1>3. ToSet(attached) \subseteq held
    <2>1. ToSet(attached) = {} \/ \E r \in held : ToSet(attached) = {r}
      BY AttachableFacts
    <2> QED BY <2>1
  <1> QED BY <1>1, <1>2, <1>3, CloseStep

\* MergeLocalPorts keeps the invariant.
LEMMA MergeLocalStep ==
    ASSUME NEW V, IInvAt(V), NEW p \in held, NEW r \in held, MergeLocalPorts(p, r)
    PROVE  IInvAt(V)'
  <1>1. /\ p[1] \in Nodes /\ CallingThread \in Threads
        /\ stack[p[1]][CallingThread] = << >>
    BY CallsFacts DEF MergeLocalPorts
  <1>2. /\ Commit(p[1], CallingThread, MergePortsInternal(World, p, r), << >>)
        /\ UNCHANGED <<chan, sent, received>> /\ r[1] = p[1]
    BY DEF MergeLocalPorts
  <1>3. p # r
    BY MergesAssumption DEF MergeLocalPorts
  <1>4. PICK q : q = Queues(stack, chan)
    OBVIOUS
  <1>5. PICK n : n = p[1]
    OBVIOUS
  <1>6. PICK d, o : Good(World, q, n, sent, received, V, d, o)
    BY <1>4, Start
  <1>7. /\ Out \notin DOMAIN q /\ p \in DOMAIN World.ports /\ r \in DOMAIN World.ports
        /\ p \in World.held /\ r \in World.held
    BY <1>4, Start
  <1>8. AtHand(World, q, p) /\ AtHand(World, q, r)
    BY <1>7 DEF AtHand
  <1>m. Merges # {}
    BY DEF MergeLocalPorts
  <1>9. PICK d2, o2 : Good(MergePortsInternal(World, p, r), q, n, sent, received, V, d2, o2)
    BY <1>2, <1>3, <1>m, <1>5, <1>6, <1>7, <1>8, MergeGood
  <1>10. PICK w : w = MergePortsInternal(World, p, r)
    OBVIOUS
  <1>11. Good(w, q, n, sent', received', V, d2, o2)
    BY <1>2, <1>9, <1>10
  <1> QED BY <1>1, <1>2, <1>4, <1>5, <1>10, <1>11, ApiStep

\* GetMessage keeps the invariant.
LEMMA GetMessageStep ==
    ASSUME NEW V, IInvAt(V), NEW p \in held, GetMessage(p)
    PROVE  IInvAt(V)'
  <1>1. PICK E : E = Toks(Queues(stack, chan))
    OBVIOUS
  <1>2. PICK d, o : Safe(ports, names, held, closed, mate, merged, E, sent, received, V, d, o)
    BY <1>1 DEF IInvAt, Sound
  <1>3. PICK m : m = NextMessage(ports[p])
    OBVIOUS
  <1>4. p \in DOMAIN ports /\ ports[p] \in PortRecord(names)
    BY <1>2 DEF Safe, WellTyped
  <1>5. m \in ports[p].message_queue /\ m.sequence_num = ports[p].next_sequence_num
    BY <1>3, <1>4, NextMessageFacts DEF GetMessage
  <1>6. /\ ports' = Unqueued(ports, p, m)
        /\ held' = AlsoHeld(held, m)
        /\ received' = OneRead(received, ports[p].end, m)
        /\ UNCHANGED <<names, stack, chan, sent, closed, mate, merged>>
    BY <1>3 DEF GetMessage, Unqueued, AlsoHeld, OneRead
  <1>7. Safe(ports', names, held', closed, mate, merged, E, sent, received', V, d, o)
    <2>1. PICK e : e = ports[p].end
      OBVIOUS
    <2> QED BY <1>2, <1>5, <1>6, <2>1, Read
  <1>8. Toks(Queues(stack, chan))' = E
    BY <1>1, <1>6
  <1>9. Sound(V)'
    BY <1>6, <1>7, <1>8 DEF Sound
  <1>10. Places'
    BY <1>6 DEF IInvAt, Places
  <1>11. ports' = [x \in DOMAIN ports' |-> ports'[x]]
    BY <1>6 DEF IInvAt, Unqueued
  <1> QED BY <1>9, <1>10, <1>11 DEF IInvAt

\* Giving up a handle.
LEMMA ReleaseGood ==
    ASSUME NEW w, NEW q, NEW n, NEW S, NEW R, NEW V, NEW d, NEW o, Good(w, q, n, S, R, V, d, o)
    PROVE  /\ Release(w, {}) = w
           /\ \A r \in w.held : LET v == Release(w, {r})
                                IN  /\ Good(v, q, n, S, R, V, d, o) /\ Free(v, q, r)
                                    /\ v.ports = w.ports /\ v.names = w.names
                                    /\ v.mate = w.mate
  <1>1. PICK a, b, c, e, f, g, h :
          w = [ ports |-> a, names |-> b, held |-> c, closed |-> e, mate |-> f,
                merged |-> g, out |-> h ]
    BY Zenon DEF Good, IsWorld
  <1>2. Release(w, {}) = w
    <2>1. c \ {} = c
      OBVIOUS
    <2>2. Release(w, {}) = [ ports |-> a, names |-> b, held |-> c \ {}, closed |-> e, mate |-> f,
                             merged |-> g, out |-> h ]
      BY <1>1 DEF Release
    <2> QED BY <1>1, <2>1, <2>2
  <1>3. ASSUME NEW r \in w.held, NEW v, v = Release(w, {r})
        PROVE  /\ Good(v, q, n, S, R, V, d, o) /\ Free(v, q, r)
               /\ v.ports = w.ports /\ v.names = w.names /\ v.mate = w.mate
    <2>1. v = [ ports |-> a, names |-> b, held |-> c \ {r}, closed |-> e, mate |-> f,
                merged |-> g, out |-> h ]
      BY <1>1, <1>3 DEF Release
    <2>2. /\ v.ports = w.ports /\ v.names = w.names /\ v.held = w.held \ {r}
          /\ v.closed = w.closed /\ v.mate = w.mate /\ v.merged = w.merged
          /\ v.out = w.out
      BY <1>1, <2>1
    <2>3. IsWorld(v)
      <3>1. a = [x \in DOMAIN a |-> a[x]]
        BY <1>1 DEF Good, IsWorld
      <3> QED BY <2>1, <3>1 DEF IsWorld
    <2>4. Ev(q, v) = Ev(q, w)
      BY <2>2 DEF Ev
    <2>5. /\ Safe(v.ports, v.names, v.held, v.closed, v.mate, v.merged, Ev(q, v), S, R, V, d, o)
          /\ Unattached(v.ports, v.held, Ev(q, v), r)
      BY <2>2, <2>4, <1>3, ReleasePort DEF Good
    <2>6. Good(v, q, n, S, R, V, d, o)
      BY <2>2, <2>3, <2>5 DEF Good
    <2> QED BY <2>2, <2>5, <2>6 DEF Free
  <1> QED BY <1>2, <1>3

\* The address a port starts at.
LEMMA HomeFacts ==
    ASSUME NEW e \in Ends, NEW N \in Nat, 2 * Len(Pipes) <= N
    PROVE  Home(e) \in Addr(N) /\ Home(e)[1] \in Nodes /\ Home(e)[2] = e
  <1>1. Len(Pipes) \in Nat
    BY PipesAssumption
  <1>2. e \in 1 .. N
    BY <1>1 DEF Ends
  <1>3. FirstHome(e) \in Nodes
    BY DEF Nodes
  <1> QED BY <1>2, <1>3 DEF Home, Addr

\* MergePorts keeps the invariant.
LEMMA MergePortsStep ==
    ASSUME NEW V, IInvAt(V), NEW p \in held, NEW e \in Ends, MergePorts(p, e)
    PROVE  IInvAt(V)'
  <1>1. PICK q : q = Queues(stack, chan)
    OBVIOUS
  <1>2. PICK n : n = p[1]
    OBVIOUS
  <1>3. PICK d, o : Good(World, q, n, sent, received, V, d, o)
    BY <1>1, Start
  <1>4. /\ Out \notin DOMAIN q /\ p \in DOMAIN ports /\ n \in Nodes /\ p \in Addr(names)
        /\ World.ports = ports /\ World.names = names /\ World.held = held
    BY <1>1, <1>2, Start
  <1>5. PICK u : u = Release(World, {p})
    OBVIOUS
  <1>6. /\ Good(u, q, n, sent, received, V, d, o) /\ Free(u, q, p)
        /\ u.ports = ports /\ u.names = names
    BY <1>3, <1>4, <1>5, ReleaseGood
  <1>7. names \in Nat /\ 2 * Len(Pipes) <= names
    BY <1>6 DEF Good, Safe, WellTyped
  <1>8. PICK to : to = Home(e)
    OBVIOUS
  <1>9. to \in Addr(names) /\ to[1] \in Nodes
    BY <1>7, <1>8, HomeFacts
  <1>10. PICK m : m = MergePortEvent(to, p)
    OBVIOUS
  <1>11. /\ m \in MergeRequest(names) /\ m.ports = <<p>> /\ m.descriptors = << >>
         /\ m.port_name = to /\ m.type = "MergePort"
    <2>1. <<p>> \in AtMostOne(Addr(names))
      BY <1>4, AtMostOneFacts
    <2>2. << >> \in AtMostOne(DescriptorRecord(names))
      BY AtMostOneFacts
    <2> QED BY <1>9, <1>10, <2>1, <2>2 DEF MergePortEvent, MergeRequest
  <1>12. \E f \in ToMerge : m.port_name = Home(f)
    <2>1. e \in ToMerge
      BY DEF MergePorts, ToMerge
    <2> QED BY <1>8, <1>11, <2>1
  <1>13. PICK c : c = ConvertToProxies(u, m, to[1])
    OBVIOUS
  <1>14. PICK w : w = Forward(c.world, c.message)
    OBVIOUS
  <1>15. PICK o2 : Good(w, q, n, sent, received, V, d, o2)
    <2>1. m.type # "UserMessage"
      BY <1>11
    <2>2. PICK node \in Nodes : node = to[1]
      BY <1>9
    <2>3. m \in Message(u.names) \cup MergeRequest(u.names) /\ m.port_name[1] = node
      BY <1>6, <1>11, <2>2
    <2> QED BY <1>4, <1>6, <1>11, <1>12, <1>13, <1>14, <2>1, <2>2, <2>3, GoodLaunch
  <1>16. /\ Commit(n, "io", w, << >>) /\ stack[n]["io"] = << >>
         /\ UNCHANGED <<chan, sent, received>>
    BY <1>2, <1>5, <1>8, <1>10, <1>13, <1>14 DEF MergePorts
  <1>17. "io" \in Threads
    BY DEF Threads
  <1>18. Good(w, q, n, sent', received', V, d, o2)
    BY <1>15, <1>16
  <1> QED BY <1>1, <1>4, <1>16, <1>17, <1>18, ApiStep

\* The world in which the port p has counted one more message.
WithCounted(w, p) == WithPorts(w, Counted(w.ports, p))

\* The port p numbers the message it sends.
LEMMA CountedGood ==
    ASSUME NEW w, NEW q, NEW n, NEW S, NEW R, NEW V, NEW d, NEW o, Good(w, q, n, S, R, V, d, o),
           NEW p \in DOMAIN w.ports, Receiving(w.ports, p), NEW e, e = w.ports[p].end,
           NEW v, v = WithCounted(w, p), NEW S2, S2 = OneSent(S, e)
    PROVE  /\ Good(v, q, n, S2, R, V, d, o) /\ v.names = w.names /\ v.mate = w.mate
           /\ v.closed = w.closed
           /\ \A m : m.body.end = e /\ m.body.index = S[e] + 1
                     /\ m.sequence_num = w.ports[p].next_sequence_num_to_send =>
                        Deliverable(m, w.ports[p].peer, S2, v.mate, d, o)
           /\ w.ports[p].next_sequence_num_to_send \in Nat \ {0} /\ S[e] \in Nat
           /\ \A r : Free(w, q, r) => Free(v, q, r) /\ v.ports[r].end = w.ports[r].end
  <1>1. PICK P2 : P2 = Counted(w.ports, p)
    OBVIOUS
  <1>2. /\ Safe(P2, w.names, w.held, w.closed, w.mate, w.merged, Ev(q, w), S2, R, V, d, o)
        /\ \A m : m.body.end = e /\ m.body.index = S[e] + 1
                     /\ m.sequence_num = w.ports[p].next_sequence_num_to_send =>
                        Deliverable(m, w.ports[p].peer, S2, w.mate, d, o)
        /\ w.ports[p].next_sequence_num_to_send \in Nat \ {0} /\ S[e] \in Nat
    BY <1>1, Number DEF Good
  <1>3. /\ P2 = [x \in DOMAIN P2 |-> P2[x]] /\ DOMAIN P2 = DOMAIN w.ports
        /\ P2[p] = [w.ports[p] EXCEPT !.next_sequence_num_to_send = @ + 1]
        /\ \A x \in DOMAIN w.ports : x # p => P2[x] = w.ports[x]
    <2>1. w.ports = [x \in DOMAIN w.ports |-> w.ports[x]]
      BY DEF Good, IsWorld
    <2> QED BY <1>1, <2>1 DEF Counted
  <1>4. /\ P2[p].message_queue = w.ports[p].message_queue
        /\ P2[p].state = w.ports[p].state /\ P2[p].end = w.ports[p].end
    <2>1. w.ports[p] \in PortRecord(w.names)
      BY DEF Good, Safe, WellTyped
    <2>2. PICK k : k = w.ports[p].next_sequence_num_to_send + 1
      OBVIOUS
    <2>3. P2[p] = [w.ports[p] EXCEPT !.next_sequence_num_to_send = k]
      BY <1>3, <2>2
    <2> QED BY <2>1, <2>3 DEF PortRecord
  <1>5. v = WithPorts(w, P2)
    BY <1>1 DEF WithCounted
  <1>6. /\ IsWorld(v) /\ v.ports = P2 /\ v.names = w.names /\ v.held = w.held
        /\ v.closed = w.closed /\ v.mate = w.mate /\ v.merged = w.merged
        /\ v.out = w.out
    BY <1>3, <1>5, WithPortsFields DEF Good
  <1>7. Ev(q, v) = Ev(q, w)
    BY <1>6 DEF Ev
  <1>8. Good(v, q, n, S2, R, V, d, o)
    BY <1>2, <1>6, <1>7 DEF Good
  <1>9. ASSUME NEW r, Free(w, q, r) PROVE Free(v, q, r) /\ v.ports[r].end = w.ports[r].end
    <2>1. \A x \in DOMAIN w.ports : /\ P2[x].message_queue = w.ports[x].message_queue
                                    /\ P2[x].state = w.ports[x].state
                                    /\ P2[x].end = w.ports[x].end
      BY <1>3, <1>4
    <2> QED BY <1>3, <1>6, <1>7, <1>9, <2>1 DEF Free, Unattached, Receiving
  <1> QED BY <1>2, <1>6, <1>8, <1>9

\* The message as the port p sends it.
Addressed(e, k, attached, to, index) ==
    [ type         |-> "UserMessage",
      port_name    |-> to,
      sequence_num |-> k,
      body         |-> [end |-> e, index |-> index],
      ports        |-> attached,
      descriptors  |-> << >> ]

\* The first step of a message.
LEMMA PrepareFirst ==
    ASSUME NEW w, NEW p \in DOMAIN w.ports, NEW e, NEW attached, NEW k, NEW to,
           k = w.ports[p].next_sequence_num_to_send, to = w.ports[p].peer
    PROVE  PrepareToForwardUserMessage(w, p, UserMessage(e, attached)) =
             Route(WithCounted(w, p), p[1], Addressed(e, k, attached, to, sent[e] + 1))
  <1>1. PICK m : m = UserMessage(e, attached)
    OBVIOUS
  <1>2. m.sequence_num = 0
    BY <1>1 DEF UserMessage
  <1>3. PICK i : i = sent[e] + 1
    OBVIOUS
  <1>4. [m EXCEPT !.sequence_num = k, !.port_name = to] = Addressed(e, k, attached, to, i)
    <2>1. PICK b, z, u : b = [end |-> e, index |-> i] /\ z = << >> /\ u = "UserMessage"
      OBVIOUS
    <2>2. m = [ type |-> u, port_name |-> z, sequence_num |-> 0, body |-> b,
                ports |-> attached, descriptors |-> z ]
      BY <1>1, <1>3, <2>1, Zenon DEF UserMessage
    <2>3. Addressed(e, k, attached, to, i) =
            [ type |-> u, port_name |-> to, sequence_num |-> k, body |-> b,
              ports |-> attached, descriptors |-> z ]
      BY <2>1, Zenon DEF Addressed
    <2>4. PICK v : v = [m EXCEPT !.sequence_num = k, !.port_name = to]
      OBVIOUS
    <2>5. v = [ type |-> u, port_name |-> to, sequence_num |-> k, body |-> b,
                ports |-> attached, descriptors |-> z ]
      <3> QED BY <2>2, <2>4
    <2> QED BY <2>3, <2>4, <2>5
  <1>5. [m EXCEPT !.sequence_num = IF m.sequence_num = 0 THEN w.ports[p].next_sequence_num_to_send
                                   ELSE m.sequence_num,
                  !.port_name = w.ports[p].peer] = Addressed(e, k, attached, to, i)
    BY <1>2, <1>4
  <1>6. [w EXCEPT !.ports[p].next_sequence_num_to_send = @ + 1] = WithCounted(w, p)
    BY DEF WithCounted, WithPorts, Counted
  <1>7. Addressed(e, k, attached, to, i).port_name = to
    BY DEF Addressed
  <1>8. PICK a : a = Addressed(e, k, attached, to, i)
    OBVIOUS
  <1>9. PICK v : v = WithCounted(w, p)
    OBVIOUS
  <1> DEFINE Is(to2, u, b) ==
               PrepareToForwardUserMessage(w, p, m) =
                 IF to2[1] = p[1] THEN Forward(u, b)
                 ELSE Forward(ConvertToProxies(u, b, to2[1]).world,
                              ConvertToProxies(u, b, to2[1]).message)
  <1>10. Is(to, v, a)
    <2>1. Is(w.ports[p].peer,
             IF m.sequence_num = 0
             THEN [w EXCEPT !.ports[p].next_sequence_num_to_send = @ + 1] ELSE w,
             [m EXCEPT !.sequence_num = IF m.sequence_num = 0
                                        THEN w.ports[p].next_sequence_num_to_send
                                        ELSE m.sequence_num,
                       !.port_name = w.ports[p].peer])
      BY Zenon DEF PrepareToForwardUserMessage
    <2>2. (IF m.sequence_num = 0
           THEN [w EXCEPT !.ports[p].next_sequence_num_to_send = @ + 1] ELSE w) = v
      BY <1>2, <1>6, <1>9
    <2> HIDE DEF Is
    <2> QED BY <1>5, <1>8, <2>1, <2>2
  <1>11. Route(v, p[1], a) =
           IF to[1] = p[1] THEN Forward(v, a)
           ELSE Forward(ConvertToProxies(v, a, to[1]).world,
                        ConvertToProxies(v, a, to[1]).message)
    BY <1>7, <1>8 DEF Route
  <1> QED BY <1>1, <1>3, <1>8, <1>9, <1>10, <1>11

\* In world u the embedder has given up what is attached, and it may be sent.
GivenUp(u, q, n, V, d, o, attached) ==
    /\ Good(u, q, n, sent, received, V, d, o)
    /\ u.ports = ports /\ u.names = names /\ u.mate = mate
    /\ attached \in AtMostOne(Addr(names))
    /\ attached # << >> => /\ Free(u, q, attached[1]) /\ attached[1][1] = n
                           /\ ports[attached[1]].end \notin ToMerge

\* What an embedder that sends a message from p gives up is free.
LEMMA AttachedReleased ==
    ASSUME NEW p, NEW attached \in Attachable(p), ~Refused(p, attached),
           NEW q, NEW n, n = p[1], NEW V, NEW d, NEW o, Good(World, q, n, sent, received, V, d, o),
           World.ports = ports, World.names = names, World.held = held, World.mate = mate,
           NEW u, u = Release(World, ToSet(attached))
    PROVE  GivenUp(u, q, n, V, d, o, attached)
  <1>1. CASE attached = << >> /\ ToSet(attached) = {}
    <2>1. u = World
      BY <1>1, ReleaseGood
    <2> QED BY <1>1, <2>1, AtMostOneFacts DEF GivenUp
  <1>2. CASE \E r \in held : /\ attached = <<r>> /\ ToSet(attached) = {r} /\ r[1] = p[1]
                              /\ \/ <<ports[p].end, ports[r].end>> \in Carries
                                 \/ r = ports[p].peer
    <2>0. PICK r \in held : /\ attached = <<r>> /\ ToSet(attached) = {r} /\ r[1] = p[1]
                            /\ \/ <<ports[p].end, ports[r].end>> \in Carries
                               \/ r = ports[p].peer
      BY <1>2
    <2>1. ports[r].end \notin ToMerge
      <3>1. r # ports[p].peer
        BY <2>0 DEF Refused
      <3>2. PICK c : c = <<ports[p].end, ports[r].end>> /\ c \in Carries
        BY <2>0, <3>1
      <3> QED BY <3>2, MergesAssumption
    <2>2. /\ Good(u, q, n, sent, received, V, d, o) /\ Free(u, q, r)
          /\ u.ports = ports /\ u.names = names /\ u.mate = mate
      BY <2>0, ReleaseGood
    <2>3. r \in Addr(names)
      <3>1. r \in DOMAIN ports /\ DOMAIN ports \subseteq Addr(names)
        BY <2>2 DEF Good, Safe, WellTyped, Free, Unattached
      <3> QED BY <3>1
    <2>4. attached \in AtMostOne(Addr(names)) /\ attached[1] = r
      BY <2>0, <2>3, AtMostOneFacts
    <2> QED BY <2>0, <2>1, <2>2, <2>4 DEF GivenUp
  <1> QED BY <1>1, <1>2, AttachableFacts

\* SendUserMessage keeps the invariant, and closes nothing.
LEMMA SendUserMessageStep ==
    ASSUME NEW V, IInvAt(V), NEW p \in held, SendUserMessage(p)
    PROVE  IInvAt(V)' /\ closed' = closed
  <1>1. PICK e, q, n : e = ports[p].end /\ q = Queues(stack, chan) /\ n = p[1]
    OBVIOUS
  <1>2. PICK attached \in Attachable(p) :
          /\ Calls(p) /\ ~Refused(p, attached)
          /\ Commit(n, CallingThread,
                    PrepareToForwardUserMessage(Release(World, ToSet(attached)), p,
                                                UserMessage(e, attached)), << >>)
          /\ sent' = OneSent(sent, e) /\ UNCHANGED <<chan, received>>
    BY <1>1 DEF SendUserMessage, OneSent
  <1>3. PICK d, o : Good(World, q, n, sent, received, V, d, o)
    BY <1>1, Start
  <1>4. /\ Out \notin DOMAIN q /\ p \in DOMAIN ports /\ n \in Nodes
        /\ World.ports = ports /\ World.names = names /\ World.held = held /\ World.mate = mate
    BY <1>1, Start
  <1>5. PICK u : u = Release(World, ToSet(attached))
    OBVIOUS
  <1>6. /\ Good(u, q, n, sent, received, V, d, o)
        /\ u.ports = ports /\ u.names = names /\ u.mate = mate
        /\ attached \in AtMostOne(Addr(names))
        /\ attached # << >> => /\ Free(u, q, attached[1]) /\ attached[1][1] = n
                               /\ ports[attached[1]].end \notin ToMerge
    <2>1. GivenUp(u, q, n, V, d, o, attached)
      BY <1>1, <1>2, <1>3, <1>4, <1>5, AttachedReleased
    <2> QED BY <2>1 DEF GivenUp
  <1>7. Receiving(ports, p) /\ ports[p].end \in Ends /\ ports[p].peer \in Addr(names)
    <2>1. Receiving(World.ports, p)
      BY <1>3, <1>4 DEF Good, Safe, Carry
    <2>2. Safe(ports, names, World.held, World.closed, World.mate, World.merged,
               Ev(q, World), sent, received, V, d, o)
      BY <1>3, <1>4 DEF Good
    <2> QED BY <1>4, <2>1, <2>2, AddressesKnown
  <1>8. PICK k, to, v : /\ k = ports[p].next_sequence_num_to_send /\ to = ports[p].peer
                        /\ v = WithCounted(u, p)
    OBVIOUS
  <1>9. /\ Good(v, q, n, sent', received, V, d, o) /\ v.names = names /\ v.mate = mate
        /\ \A m : m.body.end = e /\ m.body.index = sent[e] + 1 /\ m.sequence_num = k =>
              Deliverable(m, to, sent', v.mate, d, o)
        /\ k \in Nat \ {0} /\ sent[e] \in Nat
        /\ \A r : Free(u, q, r) => Free(v, q, r) /\ v.ports[r].end = u.ports[r].end
    <2>1. Receiving(u.ports, p) /\ p \in DOMAIN u.ports /\ e = u.ports[p].end
      BY <1>1, <1>4, <1>6, <1>7
    <2>2. PICK S2 : S2 = OneSent(sent, e)
      OBVIOUS
    <2>3. /\ Good(v, q, n, S2, received, V, d, o) /\ v.names = u.names /\ v.mate = u.mate
          /\ \A m : m.body.end = e /\ m.body.index = sent[e] + 1
                     /\ m.sequence_num = u.ports[p].next_sequence_num_to_send =>
                        Deliverable(m, u.ports[p].peer, S2, v.mate, d, o)
          /\ u.ports[p].next_sequence_num_to_send \in Nat \ {0} /\ sent[e] \in Nat
          /\ \A r : Free(u, q, r) => Free(v, q, r) /\ v.ports[r].end = u.ports[r].end
      BY <1>6, <1>8, <2>1, <2>2, CountedGood
    <2> QED BY <1>2, <1>6, <1>8, <2>2, <2>3
  <1>10. PICK m, i : m = Addressed(e, k, attached, to, i) /\ i = sent[e] + 1
    OBVIOUS
  <1>11. /\ m.type = "UserMessage" /\ m.port_name = to /\ m.sequence_num = k
         /\ m.body.end = e /\ m.body.index = i /\ m.ports = attached
         /\ m.descriptors = << >>
    BY <1>10 DEF Addressed
  <1>12. m \in Message(v.names)
    <2>1. << >> \in AtMostOne(DescriptorRecord(names))
      BY AtMostOneFacts
    <2>2. i \in Nat
      BY <1>9, <1>10
    <2>3. [end |-> e, index |-> i] \in [end : Ends, index : Nat]
      BY <1>1, <1>7, <2>2
    <2> QED BY <1>6, <1>7, <1>8, <1>9, <1>10, <2>1, <2>3 DEF Addressed, Message
  <1>13. Deliverable(m, m.port_name, sent', v.mate, d, o)
    BY <1>9, <1>10, <1>11
  <1>14. Loadable(v, q, n, m)
    BY <1>6, <1>9, <1>11 DEF Loadable, Carried
  <1>15. PICK w : w = Route(v, n, m)
    OBVIOUS
  <1>16. PICK o2 : Good(w, q, n, sent', received', V, d, o2) /\ Onward(v, o, w, o2)
    <2>1. \E o2 : Good(w, q, n, sent', received, V, d, o2) /\ Onward(v, o, w, o2)
      BY <1>4, <1>9, <1>11, <1>12, <1>13, <1>14, <1>15, RouteGood
    <2> QED BY <1>2, <2>1
  <1>17. PrepareToForwardUserMessage(u, p, UserMessage(e, attached)) = w
    BY <1>1, <1>4, <1>6, <1>8, <1>10, <1>15, PrepareFirst
  <1>18. Commit(n, CallingThread, w, << >>) /\ chan' = chan
    BY <1>2, <1>5, <1>17
  <1>19. CallingThread \in Threads /\ stack[n][CallingThread] = << >>
    BY <1>1, <1>2, CallsFacts
  <1>20. closed' = closed
    <2>1. u.closed = closed
      BY <1>5 DEF Release, World
    <2>2. v.closed = u.closed
      BY <1>1, <1>4, <1>6, <1>7, <1>8, CountedGood
    <2>3. w.closed = v.closed
      BY <1>16 DEF Onward
    <2> QED BY <1>18, <2>1, <2>2, <2>3, CommitFields
  <1>21. IInvAt(V)'
    BY <1>1, <1>4, <1>16, <1>18, <1>19, ApiStep
  <1> QED BY <1>20, <1>21

\* The stacks, or the channels, differ in one queue: so do the slots.
LEMMA StackSlot ==
    ASSUME NEW st, NEW st2, NEW ch, NEW n \in Nodes, NEW t \in Threads, NEW s,
           Sets(st2, st, Nodes, Threads, n, t, s),
           NEW q, q = Queues(st, ch), NEW q2, q2 = Queues(st2, ch), NEW i, i = <<"stack", n, t>>
    PROVE  /\ DOMAIN q2 = DOMAIN q /\ i \in DOMAIN q /\ q[i] = st[n][t] /\ q2[i] = s
           /\ \A j \in DOMAIN q \ {i} : q2[j] = q[j]
  <1>1. /\ DOMAIN q = Slots /\ DOMAIN q2 = Slots /\ i \in Slots
        /\ q[i] = st[n][t] /\ q2[i] = st2[n][t]
    BY QueuesFacts
  <1>2. /\ st2[n][t] = s
        /\ \A m \in Nodes, u \in Threads : m # n \/ u # t => st2[m][u] = st[m][u]
    BY DEF Sets
  <1>3. ASSUME NEW j \in DOMAIN q \ {i} PROVE q2[j] = q[j]
    <2>1. \/ \E m \in Nodes, u \in Threads : j = <<"stack", m, u>>
          \/ \E m, k \in Nodes : j = <<"chan", m, k>>
      BY <1>1, <1>3, QueuesFacts
    <2>2. CASE \E m \in Nodes, u \in Threads : j = <<"stack", m, u>>
      <3>1. PICK m \in Nodes, u \in Threads : j = <<"stack", m, u>>
        BY <2>2
      <3>2. m # n \/ u # t
        BY <1>3, <3>1
      <3>3. q2[j] = st2[m][u] /\ q[j] = st[m][u]
        BY <3>1, QueuesFacts
      <3> QED BY <1>2, <3>2, <3>3
    <2>3. CASE \E m, k \in Nodes : j = <<"chan", m, k>>
      <3>1. PICK m \in Nodes, k \in Nodes : j = <<"chan", m, k>>
        BY <2>3
      <3> QED BY <3>1, QueuesFacts
    <2> QED BY <2>1, <2>2, <2>3
  <1> QED BY <1>1, <1>2, <1>3

\* Only the queue i differs between q2 and q: it was x, it is y.
OneSlot(q2, q, i, x, y) ==
    /\ DOMAIN q2 = DOMAIN q /\ i \in DOMAIN q /\ q[i] = x /\ q2[i] = y
    /\ \A j \in DOMAIN q \ {i} : q2[j] = q[j]

\* The queues with the channel from n to t set.
LEMMA ChanSlotAt ==
    ASSUME NEW st, NEW ch, NEW ch2, NEW n \in Nodes, NEW t \in Nodes, NEW s,
           Sets(ch2, ch, Nodes, Nodes, n, t, s)
    PROVE  OneSlot(Queues(st, ch2), Queues(st, ch), <<"chan", n, t>>, ch[n][t], s)
  <1>1. PICK q, q2, i : q = Queues(st, ch) /\ q2 = Queues(st, ch2) /\ i = <<"chan", n, t>>
    OBVIOUS
  <1>2. /\ DOMAIN q2 = DOMAIN q /\ i \in DOMAIN q /\ q[i] = ch[n][t] /\ q2[i] = s
        /\ \A j \in DOMAIN q \ {i} : q2[j] = q[j]
    <2>1. /\ DOMAIN q = Slots /\ DOMAIN q2 = Slots /\ i \in Slots
          /\ q[i] = ch[n][t] /\ q2[i] = ch2[n][t]
      BY <1>1, QueuesFacts
    <2>2. /\ ch2[n][t] = s
          /\ \A m \in Nodes, u \in Nodes : m # n \/ u # t => ch2[m][u] = ch[m][u]
      BY DEF Sets
    <2>3. ASSUME NEW j \in DOMAIN q \ {i} PROVE q2[j] = q[j]
      <3>1. \/ \E m \in Nodes, u \in Threads : j = <<"stack", m, u>>
            \/ \E m, k \in Nodes : j = <<"chan", m, k>>
        BY <2>1, <2>3, QueuesFacts
      <3>2. CASE \E m \in Nodes, u \in Threads : j = <<"stack", m, u>>
        <4>1. PICK m \in Nodes, u \in Threads : j = <<"stack", m, u>>
          BY <3>2
        <4> QED BY <1>1, <4>1, QueuesFacts
      <3>3. CASE \E m, k \in Nodes : j = <<"chan", m, k>>
        <4>1. PICK m \in Nodes, k \in Nodes : j = <<"chan", m, k>>
          BY <3>3
        <4>2. m # n \/ k # t
          BY <1>1, <2>3, <4>1
        <4>3. q2[j] = ch2[m][k] /\ q[j] = ch[m][k]
          BY <1>1, <4>1, QueuesFacts
        <4> QED BY <2>2, <4>2, <4>3
      <3> QED BY <3>1, <3>2, <3>3
    <2> QED BY <2>1, <2>2, <2>3
  <1>3. OneSlot(q2, q, i, ch[n][t], s)
    BY <1>2 DEF OneSlot
  <1> QED BY <1>1, <1>3

\* The same of given queues.
LEMMA ChanSlot ==
    ASSUME NEW st, NEW ch, NEW ch2, NEW n \in Nodes, NEW t \in Nodes, NEW s,
           Sets(ch2, ch, Nodes, Nodes, n, t, s),
           NEW q, q = Queues(st, ch), NEW q2, q2 = Queues(st, ch2), NEW i, i = <<"chan", n, t>>
    PROVE  /\ DOMAIN q2 = DOMAIN q /\ i \in DOMAIN q /\ q[i] = ch[n][t] /\ q2[i] = s
           /\ \A j \in DOMAIN q \ {i} : q2[j] = q[j]
  BY ChanSlotAt DEF OneSlot

\* The rest of a queue, once its first event is taken, and the queue with one more.
LEMMA TailFacts ==
    ASSUME NEW T, NEW s \in Seq(T), s # << >>, NEW s2, s2 = Tail(s), NEW e, e = Head(s)
    PROVE  /\ s2 \in Seq(T) /\ e \in T
           /\ \A i \in DOMAIN s2 : \E j \in DOMAIN s : s2[i] = s[j]
           /\ \E j \in DOMAIN s : e = s[j]
  <1>1. PICK k \in Nat : k = Len(s) /\ DOMAIN s = 1 .. k
    OBVIOUS
  <1>2. k # 0
    BY <1>1, EmptySeq
  <1>3. /\ DOMAIN s2 = 1 .. (k - 1) /\ s2 \in Seq(T)
        /\ \A j \in 1 .. (k - 1) : s2[j] = s[j + 1]
        /\ e = s[1] /\ e \in T
    BY <1>1, <1>2, HeadTailProperties
  <1>4. 1 \in 1 .. k /\ \A j \in 1 .. (k - 1) : j + 1 \in 1 .. k
    BY <1>2
  <1> QED BY <1>1, <1>3, <1>4

\* The queue with one more event.
LEMMA MoreFacts ==
    ASSUME NEW T, NEW s \in Seq(T), NEW e \in T, NEW s2, s2 = Append(s, e)
    PROVE  /\ s2 \in Seq(T)
           /\ \A i \in DOMAIN s2 : s2[i] = e \/ \E j \in DOMAIN s : s2[i] = s[j]
  <1>1. PICK k \in Nat : k = Len(s) /\ DOMAIN s = 1 .. k
    OBVIOUS
  <1>2. /\ DOMAIN s2 = 1 .. (k + 1) /\ s2 \in Seq(T)
        /\ \A j \in 1 .. k : s2[j] = s[j]
        /\ s2[k + 1] = e
    BY <1>1, AppendProperties
  <1>3. \A j \in 1 .. (k + 1) : j = k + 1 \/ j \in 1 .. k
    OBVIOUS
  <1> QED BY <1>1, <1>2, <1>3

\* One queue of a family is replaced.
SetQueue(f, n, t, s) == [f EXCEPT ![n][t] = s]

\* The queue s2 of the channel to node n holds events of s, and others that may be there.
Requeued(s2, s, n) ==
    \A i \in DOMAIN s2 : \/ \E j \in DOMAIN s : s2[i] = s[j]
                         \/ s2[i].port_name[1] = n /\ ~Attaching(s2[i])

\* A thread takes the next of its events.
LEMMA StackTaken ==
    ASSUME NEW st, NEW ch, NEW N, Placed(st, ch, N), NEW n \in Nodes, NEW t \in Threads,
           NEW s, s = st[n][t], s # << >>, NEW e, e = Head(s), NEW s2, s2 = Tail(s),
           NEW st2, st2 = SetQueue(st, n, t, s2)
    PROVE  /\ Placed(st2, ch, N) /\ InPlace(n, e) /\ e \in Event(N) /\ s \in Seq(Event(N))
           /\ Sets(st2, st, Nodes, Threads, n, t, s2)
  <1>1. PICK T : T = Event(N)
    OBVIOUS
  <1>2. IsFamily(st, Nodes, Threads, T) /\ s \in Seq(T)
    BY <1>1 DEF Placed, IsFamily
  <1>3. Sets(st2, st, Nodes, Threads, n, t, s2)
    BY <1>2, FamilyExcept DEF SetQueue
  <1>4. /\ s2 \in Seq(T) /\ e \in T
        /\ \A i \in DOMAIN s2 : \E j \in DOMAIN s : s2[i] = s[j]
        /\ \E j \in DOMAIN s : e = s[j]
    BY <1>2, TailFacts
  <1>5. \A i \in DOMAIN s : InPlace(n, s[i])
    BY DEF Placed
  <1>6. InPlace(n, e)
    BY <1>4, <1>5
  <1>7. \A m \in Nodes, u \in Threads : st[m][u] \in Seq(T)
    BY <1>2 DEF IsFamily
  <1>8. IsFamily(st2, Nodes, Threads, T)
    <2>1. \A m \in Nodes, u \in Threads : st2[m][u] \in Seq(T)
      <3>1. \A m \in Nodes, u \in Threads : st2[m][u] = s2 \/ st2[m][u] = st[m][u]
        BY <1>3, Zenon DEF Sets
      <3> QED BY <1>4, <1>7, <3>1, Zenon
    <2> QED BY <1>3, <2>1, Zenon DEF Sets
  <1>9. ASSUME NEW m \in Nodes, NEW u \in Threads, NEW i \in DOMAIN st2[m][u]
        PROVE  InPlace(m, st2[m][u][i])
    <2>1. CASE m = n /\ u = t
      <3>1. st2[m][u] = s2
        BY <1>3, <2>1 DEF Sets
      <3>2. PICK j \in DOMAIN s : s2[i] = s[j]
        BY <1>4, <1>9, <3>1
      <3> QED BY <1>5, <2>1, <3>1, <3>2
    <2>2. CASE m # n \/ u # t
      <3>1. st2[m][u] = st[m][u]
        BY <1>3, <2>2 DEF Sets
      <3> QED BY <1>9, <3>1 DEF Placed
    <2> QED BY <2>1, <2>2
  <1>10. Placed(st2, ch, N)
    BY <1>1, <1>8, <1>9 DEF Placed, IsFamily
  <1> QED BY <1>1, <1>2, <1>3, <1>4, <1>6, <1>10

\* The IO thread takes the next event of a channel, or another thread adds one.
LEMMA ChanTaken ==
    ASSUME NEW st, NEW ch, NEW N, Placed(st, ch, N), NEW m \in Nodes, NEW n \in Nodes,
           NEW s, s = ch[m][n], NEW s2, s2 \in Seq(Event(N)),
           Requeued(s2, s, n), NEW ch2, ch2 = SetQueue(ch, m, n, s2)
    PROVE  Placed(st, ch2, N) /\ Sets(ch2, ch, Nodes, Nodes, m, n, s2)
  <1>1. PICK T : T = Event(N)
    OBVIOUS
  <1>2. IsFamily(ch, Nodes, Nodes, T) /\ s \in Seq(T)
    BY <1>1 DEF Placed, IsFamily
  <1>3. Sets(ch2, ch, Nodes, Nodes, m, n, s2)
    BY <1>2, FamilyExcept DEF SetQueue
  <1>5. \A i \in DOMAIN s : s[i].port_name[1] = n /\ ~Attaching(s[i])
    BY DEF Placed
  <1>7. \A a, u \in Nodes : ch[a][u] \in Seq(T)
    BY <1>2 DEF IsFamily
  <1>8. IsFamily(ch2, Nodes, Nodes, T)
    BY <1>1, <1>3, <1>7 DEF Sets
  <1>9. ASSUME NEW a \in Nodes, NEW u \in Nodes, NEW i \in DOMAIN ch2[a][u]
        PROVE  ch2[a][u][i].port_name[1] = u /\ ~Attaching(ch2[a][u][i])
    <2>1. CASE a = m /\ u = n
      <3>1. ch2[a][u] = s2
        BY <1>3, <2>1 DEF Sets
      <3> QED BY <1>5, <1>9, <2>1, <3>1 DEF Requeued
    <2>2. CASE a # m \/ u # n
      <3>1. ch2[a][u] = ch[a][u]
        BY <1>3, <2>2 DEF Sets
      <3> QED BY <1>9, <3>1 DEF Placed
    <2> QED BY <2>1, <2>2
  <1>10. Placed(st, ch2, N)
    BY <1>1, <1>8, <1>9 DEF Placed, IsFamily
  <1> QED BY <1>3, <1>10

\* An event for another node keeps the invariant when it is written to a channel.
LEMMA SendPeerEventStep ==
    ASSUME NEW V, IInvAt(V), NEW n \in Nodes, NEW t \in Threads, SendPeerEvent(n, t)
    PROVE  IInvAt(V)'
  <1>1. PICK s, e, s2, to : /\ s = stack[n][t] /\ e = Head(s) /\ s2 = Tail(s)
                            /\ to = e.port_name[1]
    OBVIOUS
  <1>2. /\ s # << >> /\ to # n
        /\ chan' = SetQueue(chan, n, to, Append(chan[n][to], e))
        /\ stack' = SetQueue(stack, n, t, s2)
        /\ UNCHANGED <<ports, names, held, sent, received, closed, mate, merged>>
    <2>1. /\ stack[n][t] # << >> /\ Head(stack[n][t]).port_name[1] # n
          /\ chan' = [chan EXCEPT ![n][Head(stack[n][t]).port_name[1]] =
                                     Append(@, Head(stack[n][t]))]
          /\ stack' = [stack EXCEPT ![n][t] = Tail(@)]
          /\ UNCHANGED <<ports, names, held, sent, received, closed, mate, merged>>
      BY Zenon DEF SendPeerEvent
    <2>2. [stack EXCEPT ![n][t] = Tail(@)] = [stack EXCEPT ![n][t] = Tail(stack[n][t])]
      BY Zenon
    <2>3. [chan EXCEPT ![n][to] = Append(@, e)] = [chan EXCEPT ![n][to] = Append(chan[n][to], e)]
      BY Zenon
    <2> QED BY <1>1, <2>1, <2>2, <2>3, Zenon DEF SetQueue
  <1>3. PICK N, q : N = names /\ q = Queues(stack, chan)
    OBVIOUS
  <1>4. PICK d, o : Safe(ports, names, held, closed, mate, merged, Toks(q), sent, received, V, d, o)
    BY <1>3 DEF IInvAt, Sound
  <1>5. Placed(stack, chan, N)
    BY <1>3, PlacesPlaced DEF IInvAt
  <1>6. PICK st2 : st2 = SetQueue(stack, n, t, s2)
    OBVIOUS
  <1>7. /\ Placed(st2, chan, N) /\ InPlace(n, e) /\ e \in Event(N) /\ s \in Seq(Event(N))
        /\ Sets(st2, stack, Nodes, Threads, n, t, s2)
    BY <1>1, <1>2, <1>5, <1>6, StackTaken
  <1>a. PICK c : c = chan[n][to]
    OBVIOUS
  <1>b. PICK c2 : c2 = Append(c, e)
    OBVIOUS
  <1>8. PICK ch2 : ch2 = SetQueue(chan, n, to, c2)
    OBVIOUS
  <1>9. to \in Nodes
    <2>1. e.port_name \in Addr(N)
      BY <1>7, EventTypes
    <2> QED BY <1>1, <2>1 DEF Addr
  <1>10. c \in Seq(Event(N))
    BY <1>5, <1>a, <1>9 DEF Placed
  <1>11. /\ c2 \in Seq(Event(N))
         /\ \A i \in DOMAIN c2 : c2[i] = e \/ \E j \in DOMAIN c : c2[i] = c[j]
    BY <1>7, <1>b, <1>10, MoreFacts
  <1>12. ~Attaching(e)
    BY <1>1, <1>2, <1>7 DEF InPlace
  <1>13. Placed(st2, ch2, N) /\ Sets(ch2, chan, Nodes, Nodes, n, to, c2)
    <2>1. Requeued(c2, c, to)
      BY <1>1, <1>11, <1>12 DEF Requeued
    <2> QED BY <1>7, <1>8, <1>9, <1>a, <1>11, <2>1, ChanTaken
  <1>14. PICK q1, q2, i, j : /\ q1 = Queues(st2, chan) /\ q2 = Queues(st2, ch2)
                             /\ i = <<"stack", n, t>> /\ j = <<"chan", n, to>>
    OBVIOUS
  <1>15. /\ DOMAIN q1 = DOMAIN q /\ i \in DOMAIN q /\ q[i] = s /\ q1[i] = s2
         /\ \A k \in DOMAIN q \ {i} : q1[k] = q[k]
    BY <1>1, <1>3, <1>7, <1>14, StackSlot
  <1>16. /\ DOMAIN q2 = DOMAIN q1 /\ j \in DOMAIN q1 /\ q1[j] = c /\ q2[j] = c2
         /\ \A k \in DOMAIN q1 \ {j} : q2[k] = q1[k]
    <2>1. OneSlot(Queues(st2, ch2), Queues(st2, chan), <<"chan", n, to>>, chan[n][to], c2)
      BY <1>9, <1>13, ChanSlotAt
    <2>2. OneSlot(q2, q1, j, c, c2)
      BY <1>14, <1>a, <2>1
    <2> QED BY <2>2 DEF OneSlot
  <1>17. PICK E1, x : /\ Extends(E1, Toks(q1), x, e)
                      /\ Safe(ports, names, held, closed, mate, merged, E1, sent, received, V, d, o)
    BY <1>1, <1>2, <1>4, <1>7, <1>15, Pop
  <1>18. Extends(Toks(q2), Toks(q1), <<j, Len(c) + 1>>, e)
    <2>1. q1[j] \in Seq(Event(N)) /\ q2[j] = Append(q1[j], e)
      BY <1>b, <1>10, <1>16
    <2>2. Extends(Toks(q2), Toks(q1), <<j, Len(q1[j]) + 1>>, e)
      BY <1>7, <1>16, <2>1, Push
    <2> QED BY <1>16, <2>2
  <1>19. Safe(ports, names, held, closed, mate, merged, Toks(q2), sent, received, V, d, o)
    BY <1>17, <1>18, Swap
  <1>20. stack' = st2 /\ chan' = ch2
    BY <1>2, <1>6, <1>8, <1>a, <1>b
  <1>21. Sound(V)'
    BY <1>2, <1>14, <1>19, <1>20 DEF Sound
  <1>22. Places'
    <2>1. Placed(stack', chan', names')
      BY <1>2, <1>3, <1>13, <1>20
    <2> QED BY <2>1 DEF Placed, Places
  <1>23. ports' = [p \in DOMAIN ports' |-> ports'[p]]
    BY <1>2 DEF IInvAt
  <1> QED BY <1>21, <1>22, <1>23 DEF IInvAt

\* The step of a thread that has taken event e: q are the queues without it.
LEMMA AcceptStep ==
    ASSUME NEW V, IInvAt(V), NEW st, NEW ch, NEW q, q = Queues(st, ch), Placed(st, ch, names),
           NEW n \in Nodes, NEW t \in Threads, NEW e, InPlace(n, e), e.port_name[1] = n,
           NEW E, NEW x, Extends(E, Toks(q), x, e), NEW d, NEW o,
           Safe(ports, names, held, closed, mate, merged, E, sent, received, V, d, o),
           NEW w, w = AcceptEvent(World, e),
           ports' = w.ports, names' = w.names, held' = w.held, closed' = w.closed,
           mate' = w.mate, merged' = w.merged,
           stack' = Stacked(st, n, t, w.out), chan' = ch, UNCHANGED <<sent, received>>
    PROVE  \E V2 : IInvAt(V2)' /\ Follows(V2, V, closed', closed)
  <1>1. Out \notin DOMAIN q
    BY QueuesFacts
  <1>2. PICK v : v = World
    OBVIOUS
  <1>3. /\ IsWorld(v)
        /\ v.ports = ports /\ v.names = names /\ v.held = held
        /\ v.closed = closed /\ v.mate = mate /\ v.merged = merged
        /\ v.out = << >>
    BY <1>2, WorldFields DEF IInvAt
  <1>4. Ev(q, v) = Toks(q)
    BY <1>1, <1>3, WithEmpty DEF Ev
  <1>5. Hand(v, q, n, sent, received, V, d, o, e)
    BY <1>3, <1>4 DEF Hand
  <1>6. PICK V2, d2, o2 : Good(w, q, n, sent, received, V2, d2, o2) /\ Follows(V2, V, w.closed, closed)
    BY <1>1, <1>2, <1>3, <1>5, AcceptEventGood
  <1>7. Good(w, q, n, sent', received', V2, d2, o2)
    BY <1>6
  <1>8. IInvAt(V2)'
    BY <1>7, Finish
  <1> QED BY <1>6, <1>8

\* A nested AcceptEvent keeps the invariant.
LEMMA AcceptLocalEventStep ==
    ASSUME NEW V, IInvAt(V), NEW n \in Nodes, NEW t \in Threads, AcceptLocalEvent(n, t)
    PROVE  \E V2 : IInvAt(V2)' /\ Follows(V2, V, closed', closed)
  <1>1. PICK s, e, s2, w : /\ s = stack[n][t] /\ e = Head(s) /\ s2 = Tail(s)
                           /\ w = AcceptEvent(World, e)
    OBVIOUS
  <1>2. /\ s # << >> /\ e.port_name[1] = n /\ Commit(n, t, w, s2)
        /\ UNCHANGED <<chan, sent, received>>
    BY <1>1, Zenon DEF AcceptLocalEvent
  <1>3. /\ ports' = w.ports /\ names' = w.names /\ held' = w.held /\ closed' = w.closed
        /\ mate' = w.mate /\ merged' = w.merged
        /\ stack' = [stack EXCEPT ![n][t] = w.out \o s2]
    BY <1>2, CommitFields
  <1>4. PICK N, q : N = names /\ q = Queues(stack, chan)
    OBVIOUS
  <1>5. PICK d, o : Safe(ports, names, held, closed, mate, merged, Toks(q), sent, received, V, d, o)
    BY <1>4 DEF IInvAt, Sound
  <1>6. Placed(stack, chan, N)
    BY <1>4, PlacesPlaced DEF IInvAt
  <1>7. PICK st2 : st2 = SetQueue(stack, n, t, s2)
    OBVIOUS
  <1>8. /\ Placed(st2, chan, N) /\ InPlace(n, e) /\ e \in Event(N) /\ s \in Seq(Event(N))
        /\ Sets(st2, stack, Nodes, Threads, n, t, s2)
    <2>1. s = stack[n][t] /\ e = Head(s) /\ s2 = Tail(s)
      BY <1>1
    <2>2. s # << >>
      BY <1>2
    <2> QED BY <1>6, <1>7, <2>1, <2>2, StackTaken
  <1>9. PICK q1, i : q1 = Queues(st2, chan) /\ i = <<"stack", n, t>>
    OBVIOUS
  <1>10. /\ DOMAIN q1 = DOMAIN q /\ i \in DOMAIN q /\ q[i] = s /\ q1[i] = s2
         /\ \A k \in DOMAIN q \ {i} : q1[k] = q[k]
    BY <1>1, <1>4, <1>8, <1>9, StackSlot
  <1>11. PICK E1, x : /\ Extends(E1, Toks(q1), x, e)
                      /\ Safe(ports, names, held, closed, mate, merged, E1, sent, received, V, d, o)
    BY <1>1, <1>2, <1>5, <1>8, <1>10, Pop
  <1>12. stack' = Stacked(st2, n, t, w.out)
    <2>1. stack \in [Nodes -> [Threads -> Seq(Event(N))]]
      BY <1>6 DEF Placed
    <2>2. PICK l : l = w.out \o s2
      OBVIOUS
    <2>3. st2[n][t] = s2
      BY <1>8 DEF Sets
    <2>4. Stacked(st2, n, t, w.out) = [st2 EXCEPT ![n][t] = l]
      BY <2>2, <2>3 DEF Stacked
    <2>5. [st2 EXCEPT ![n][t] = l] = [stack EXCEPT ![n][t] = l]
      BY <1>7, <2>1 DEF SetQueue
    <2> QED BY <1>3, <2>2, <2>4, <2>5
  <1>13. Placed(st2, chan, names) /\ chan' = chan /\ UNCHANGED <<sent, received>>
    BY <1>2, <1>4, <1>8
  <1>14. w = AcceptEvent(World, e) /\ e.port_name[1] = n /\ InPlace(n, e)
    BY <1>1, <1>2, <1>8
  <1>15. /\ ports' = w.ports /\ names' = w.names /\ held' = w.held /\ closed' = w.closed
         /\ mate' = w.mate /\ merged' = w.merged
    BY <1>3
  <1> QED BY <1>9, <1>11, <1>12, <1>13, <1>14, <1>15, AcceptStep

\* So does AcceptEvent for what the IO thread reads from a channel.
LEMMA OnEventMessageStep ==
    ASSUME NEW V, IInvAt(V), NEW m \in Nodes, NEW n \in Nodes, OnEventMessage(m, n)
    PROVE  \E V2 : IInvAt(V2)' /\ Follows(V2, V, closed', closed)
  <1>1. PICK s, e, s2, w, t : /\ s = chan[m][n] /\ e = Head(s) /\ s2 = Tail(s)
                              /\ w = AcceptEvent(World, e) /\ t = "io"
    OBVIOUS
  <1>2. /\ s # << >> /\ Commit(n, t, w, << >>) /\ stack[n][t] = << >>
        /\ chan' = SetQueue(chan, m, n, s2) /\ UNCHANGED <<sent, received>>
    <2>1. /\ chan[m][n] # << >> /\ stack[n]["io"] = << >>
          /\ Commit(n, "io", AcceptEvent(World, Head(chan[m][n])), << >>)
          /\ chan' = [chan EXCEPT ![m][n] = Tail(@)]
          /\ UNCHANGED <<sent, received>>
      BY Zenon DEF OnEventMessage
    <2>2. [chan EXCEPT ![m][n] = Tail(@)] = [chan EXCEPT ![m][n] = Tail(chan[m][n])]
      BY Zenon
    <2> QED BY <1>1, <2>1, <2>2, Zenon DEF SetQueue
  <1>3. /\ ports' = w.ports /\ names' = w.names /\ held' = w.held /\ closed' = w.closed
        /\ mate' = w.mate /\ merged' = w.merged
        /\ stack' = [stack EXCEPT ![n][t] = w.out \o << >>]
    BY <1>2, CommitFields
  <1>4. PICK N, q : N = names /\ q = Queues(stack, chan)
    OBVIOUS
  <1>5. PICK d, o : Safe(ports, names, held, closed, mate, merged, Toks(q), sent, received, V, d, o)
    BY <1>4 DEF IInvAt, Sound
  <1>6. Placed(stack, chan, N)
    BY <1>4, PlacesPlaced DEF IInvAt
  <1>7. PICK ch2 : ch2 = SetQueue(chan, m, n, s2)
    OBVIOUS
  <1>8. s \in Seq(Event(N)) /\ \A i \in DOMAIN s : s[i].port_name[1] = n /\ ~Attaching(s[i])
    BY <1>1, <1>6 DEF Placed
  <1>9. /\ s2 \in Seq(Event(N)) /\ e \in Event(N)
        /\ \A i \in DOMAIN s2 : \E j \in DOMAIN s : s2[i] = s[j]
        /\ \E j \in DOMAIN s : e = s[j]
    BY <1>1, <1>2, <1>8, TailFacts
  <1>10. Placed(stack, ch2, N) /\ Sets(ch2, chan, Nodes, Nodes, m, n, s2)
    <2>1. Requeued(s2, s, n)
      BY <1>9 DEF Requeued
    <2> QED BY <1>1, <1>6, <1>7, <1>9, <2>1, ChanTaken
  <1>11. InPlace(n, e) /\ e.port_name[1] = n
    BY <1>8, <1>9 DEF InPlace
  <1>12. PICK q1, i : q1 = Queues(stack, ch2) /\ i = <<"chan", m, n>>
    OBVIOUS
  <1>13. /\ DOMAIN q1 = DOMAIN q /\ i \in DOMAIN q /\ q[i] = s /\ q1[i] = s2
         /\ \A k \in DOMAIN q \ {i} : q1[k] = q[k]
    BY <1>1, <1>4, <1>10, <1>12, ChanSlot
  <1>14. PICK E1, x : /\ Extends(E1, Toks(q1), x, e)
                      /\ Safe(ports, names, held, closed, mate, merged, E1, sent, received, V, d, o)
    BY <1>1, <1>2, <1>5, <1>8, <1>13, Pop
  <1>15. stack' = Stacked(stack, n, t, w.out)
    BY <1>2, <1>3, <1>6 DEF Stacked, Placed
  <1>16. t \in Threads
    BY <1>1 DEF Threads
  <1>17. Placed(stack, ch2, names) /\ chan' = ch2 /\ UNCHANGED <<sent, received>>
    BY <1>2, <1>4, <1>7, <1>10
  <1>18. w = AcceptEvent(World, e)
    BY <1>1
  <1>19. /\ ports' = w.ports /\ names' = w.names /\ held' = w.held /\ closed' = w.closed
         /\ mate' = w.mate /\ merged' = w.merged
    BY <1>3
  <1> QED BY <1>11, <1>12, <1>14, <1>15, <1>16, <1>17, <1>18, <1>19, AcceptStep

-----------------------------------------------------------------------------
\* The initial states.

\* The other end of a pipe.
LEMMA OtherFacts ==
    ASSUME NEW e \in Ends
    PROVE  Other(e) \in Ends /\ Other(Other(e)) = e /\ Other(e) # e
  <1>1. Len(Pipes) \in Nat
    BY PipesAssumption
  <1> QED BY <1>1 DEF Ends, Other

\* At first there are as many names as ends.
LEMMA EndsFacts ==
    /\ IsFiniteSet(Ends) /\ Cardinality(Ends) = 2 * Len(Pipes) /\ 2 * Len(Pipes) \in Nat
    /\ Ends = 1 .. Cardinality(Ends)
  <1>1. PICK k \in Nat : k = 2 * Len(Pipes)
    BY PipesAssumption
  <1>2. Ends = 1 .. k
    BY <1>1 DEF Ends
  <1>3. IsFiniteSet(1 .. k) /\ Cardinality(1 .. k) = k
    BY FS_Interval
  <1> QED BY <1>1, <1>2, <1>3

\* The ports the pipes start with.
FirstPort(e) == NewPort(e, Home(Other(e)), InitialSequenceNum, InitialSequenceNum, 0, FALSE)

\* It is a port record.
LEMMA FirstPortFacts ==
    ASSUME NEW e \in Ends, NEW N, N = Cardinality(Ends), NEW r, r = FirstPort(e)
    PROVE  /\ r \in PortRecord(N) /\ r.end = e /\ r.state = "Receiving"
           /\ r.peer = Home(Other(e)) /\ r.message_queue = {} /\ ~r.peer_closed
           /\ ~r.remove_proxy_on_last_message /\ r.send_on_proxy_removal = << >>
           /\ r.next_sequence_num = 1 /\ r.next_sequence_num_to_send = 1
           /\ r.last_sequence_num_to_receive = 0
  <1>1. Home(Other(e)) \in Addr(N)
    <2>1. N \in Nat /\ 2 * Len(Pipes) <= N
      BY EndsFacts
    <2> QED BY <2>1, HomeFacts, OtherFacts
  <1>2. << >> \in AtMostOne(Acknowledgement(N))
    BY AtMostOneFacts
  <1>3. {} \in SUBSET Message(N)
    OBVIOUS
  <1>4. 1 \in Nat \ {0} /\ 0 \in Nat
    OBVIOUS
  <1>5. PICK a, z : a = Home(Other(e)) /\ z = << >>
    OBVIOUS
  <1>6. r = [ end                          |-> e,
              state                        |-> "Receiving",
              peer                         |-> a,
              next_sequence_num_to_send    |-> 1,
              next_sequence_num            |-> 1,
              message_queue                |-> {},
              last_sequence_num_to_receive |-> 0,
              peer_closed                  |-> FALSE,
              remove_proxy_on_last_message |-> FALSE,
              send_on_proxy_removal        |-> z ]
    BY <1>5, Zenon DEF FirstPort, NewPort, InitialSequenceNum
  <1> QED BY <1>1, <1>2, <1>3, <1>4, <1>5, <1>6 DEF PortRecord

\* What Init says of each variable.
LEMMA InitFacts ==
    ASSUME Init, NEW N, N = Cardinality(Ends)
    PROVE  /\ DOMAIN ports = {Home(e) : e \in Ends}
           /\ \A p \in DOMAIN ports : p[2] \in Ends /\ p = Home(p[2]) /\ ports[p] = FirstPort(p[2])
           /\ \A e \in Ends : Home(e) \in DOMAIN ports /\ Home(e)[2] = e
           /\ ports = [p \in DOMAIN ports |-> ports[p]]
           /\ held = DOMAIN ports /\ names = N /\ closed = {} /\ merged = {}
           /\ mate = [e \in Ends |-> Other(e)] /\ sent = [e \in Ends |-> 0]
           /\ received = [e \in Ends |-> << >>]
           /\ \A n \in Nodes, t \in Threads : stack[n][t] = << >>
           /\ \A m, n \in Nodes : chan[m][n] = << >>
           /\ Placed(stack, chan, N)
  <1>1. DOMAIN ports = {Home(e) : e \in Ends} /\ held = DOMAIN ports
    BY DEF Init
  <1>2. \A e \in Ends : Home(e)[2] = e /\ Home(e) \in DOMAIN ports
    BY <1>1 DEF Home
  <1>3. \A p \in DOMAIN ports : p[2] \in Ends /\ p = Home(p[2])
    BY <1>1, <1>2
  <1>4. \A p \in DOMAIN ports : ports[p] = FirstPort(p[2])
    BY <1>1 DEF Init, FirstPort
  <1>5. ports = [p \in DOMAIN ports |-> ports[p]]
    BY DEF Init
  <1>6. /\ names = N /\ closed = {} /\ merged = {}
        /\ mate = [e \in Ends |-> Other(e)] /\ sent = [e \in Ends |-> 0]
        /\ received = [e \in Ends |-> << >>]
    BY DEF Init
  <1>7. /\ stack = [n \in Nodes |-> [t \in Threads |-> << >>]]
        /\ chan = [m \in Nodes |-> [n \in Nodes |-> << >>]]
    BY DEF Init
  <1>8. /\ \A n \in Nodes, t \in Threads : stack[n][t] = << >>
        /\ \A m, n \in Nodes : chan[m][n] = << >>
    BY <1>7
  <1>9. Placed(stack, chan, N)
    <2>1. << >> \in Seq(Event(N)) /\ DOMAIN << >> = {}
      OBVIOUS
    <2>2. stack \in [Nodes -> [Threads -> Seq(Event(N))]]
      BY <1>7, <2>1
    <2>3. chan \in [Nodes -> [Nodes -> Seq(Event(N))]]
      BY <1>7, <2>1
    <2> QED BY <1>8, <2>1, <2>2, <2>3 DEF Placed
  <1> QED BY <1>1, <1>2, <1>3, <1>4, <1>5, <1>6, <1>8, <1>9

\* Init implies the invariant.
LEMMA InitIInv == Init => IInv
  <1> SUFFICES ASSUME Init PROVE IInv
    OBVIOUS
  <1>1. PICK N, E, d, o : /\ N = Cardinality(Ends) /\ E = Toks(Queues(stack, chan))
                          /\ d = [e \in Ends |-> e] /\ o = [a \in Addr(N) |-> a[2]]
    OBVIOUS
  <1>2. /\ DOMAIN ports = {Home(e) : e \in Ends}
        /\ \A p \in DOMAIN ports : p[2] \in Ends /\ p = Home(p[2]) /\ ports[p] = FirstPort(p[2])
        /\ \A e \in Ends : Home(e) \in DOMAIN ports /\ Home(e)[2] = e
        /\ ports = [p \in DOMAIN ports |-> ports[p]]
        /\ held = DOMAIN ports /\ names = N /\ closed = {} /\ merged = {}
    BY <1>1, InitFacts
  <1>3. /\ mate = [e \in Ends |-> Other(e)] /\ sent = [e \in Ends |-> 0]
        /\ received = [e \in Ends |-> << >>]
        /\ Placed(stack, chan, N)
    BY <1>1, InitFacts
  <1>4. DOMAIN E = {}
    <2>1. \A n \in Nodes, t \in Threads : stack[n][t] = << >>
      BY <1>1, InitFacts
    <2>2. \A m, n \in Nodes : chan[m][n] = << >>
      BY <1>1, InitFacts
    <2>3. PICK q : q = Queues(stack, chan)
      OBVIOUS
    <2>4. \A i \in DOMAIN q : q[i] = << >>
      BY <2>1, <2>2, <2>3, QueuesFacts
    <2>5. \A i \in DOMAIN q : DOMAIN q[i] = {}
      BY <2>4
    <2> QED BY <1>1, <2>3, <2>5, ToksFacts
  <1>5. ASSUME NEW p \in DOMAIN ports
        PROVE  /\ ports[p] \in PortRecord(N) /\ ports[p].end = p[2] /\ ports[p].state = "Receiving"
               /\ ports[p].peer = Home(Other(p[2])) /\ ports[p].message_queue = {}
               /\ ~ports[p].peer_closed /\ ~ports[p].remove_proxy_on_last_message
               /\ ports[p].send_on_proxy_removal = << >>
               /\ ports[p].next_sequence_num = 1 /\ ports[p].next_sequence_num_to_send = 1
    BY <1>1, <1>2, FirstPortFacts
  <1>6. N \in Nat /\ N = 2 * Len(Pipes) /\ Ends = 1 .. N /\ IsFiniteSet(Ends)
    BY <1>1, EndsFacts
  <1>7. \A e \in Ends : Home(e) \in Addr(N)
    BY <1>6, HomeFacts
  <1>8. WellTyped(ports, names, held, closed, mate, merged, E, sent, received, d, o)
    <2>1. IsFiniteSet(DOMAIN ports)
      <3>1. PICK f : f = [p \in DOMAIN ports |-> p[2]]
        OBVIOUS
      <3>2. f \in Injection(DOMAIN ports, Ends)
        <4>1. f \in [DOMAIN ports -> Ends]
          BY <1>2, <3>1
        <4>2. \A p, q \in DOMAIN ports : f[p] = f[q] => p = q
          BY <1>2, <3>1
        <4> QED BY <4>1, <4>2 DEF Injection, IsInjective
      <3> QED BY <1>6, <3>2, FS_Injection
    <2>2. DOMAIN ports \subseteq Addr(N)
      BY <1>2, <1>7
    <2>3. mate \in [Ends -> Ends]
      BY <1>3, OtherFacts
    <2>4. sent \in [Ends -> Nat] /\ d \in [Ends -> Ends]
      BY <1>1, <1>3
    <2>5. received \in [Ends -> Seq([end : Ends, index : Nat])]
      BY <1>3
    <2>6. o \in [Addr(N) -> Ends]
      BY <1>1, <1>6 DEF Addr
    <2>7. \A p \in DOMAIN ports : ports[p] \in PortRecord(N) /\ IsFiniteSet(ports[p].message_queue)
      BY <1>5, FS_EmptySet
    <2>8. N \in Nat /\ 2 * Len(Pipes) <= N
      BY <1>6
    <2> QED BY <1>2, <1>4, <2>1, <2>2, <2>3, <2>4, <2>5, <2>6, <2>7, <2>8 DEF WellTyped
  <1>9. Carry(ports, held, E)
    BY <1>2, <1>4, <1>5 DEF Carry, Receiving
  <1>10. Moves(ports, E)
    BY <1>4, <1>5 DEF Moves
  <1>11. Single(ports, E, closed, merged)
    <2>1. \A p, q \in DOMAIN ports : ports[p].end = ports[q].end => p = q
      BY <1>2, <1>5
    <2>2. \A e \in Ends : Receiving(ports, Home(e)) /\ ports[Home(e)].end = e
      BY <1>2, <1>5 DEF Receiving
    <2> QED BY <1>2, <1>4, <2>1, <2>2 DEF Single
  <1>12. Routes(ports, E, mate, merged, d, o)
    <2>1. Mated(mate, merged, d)
      BY <1>1, <1>2, <1>3, OtherFacts DEF Mated
    <2>2. ASSUME NEW p \in DOMAIN ports
          PROVE  /\ o[p] = ports[p].end /\ d[o[ports[p].peer]] = mate[ports[p].end]
      <3>1. PICK e \in Ends : e = p[2] /\ p = Home(e) /\ Other(e) \in Ends
        BY <1>2, OtherFacts
      <3>2. o[p] = e /\ o[Home(Other(e))] = Other(e)
        BY <1>1, <1>2, <1>7, <3>1
      <3> QED BY <1>1, <1>3, <1>5, <3>1, <3>2
    <2> QED BY <1>4, <1>5, <2>1, <2>2 DEF Routes, Receiving
  <1>13. Numbers(ports, E, sent, received, mate, merged)
    <2>1. \A e \in Ends : sent[e] = 0 /\ received[e] = << >> /\ mate[e] \in Ends
      BY <1>3, OtherFacts
    <2>2. \A e \in Ends : Len(received[e]) = 0 /\ 1 .. Len(received[e]) = {}
      BY <2>1
    <2>3. \A p \in DOMAIN ports : ports[p].end \in Ends
      BY <1>2, <1>5
    <2>4. \A p \in DOMAIN ports : /\ ports[p].next_sequence_num_to_send = sent[ports[p].end] + 1
                                  /\ ports[p].next_sequence_num = Len(received[ports[p].end]) + 1
      BY <1>5, <2>1, <2>2, <2>3
    <2>5. \A e \in Ends : Len(received[e]) <= sent[mate[e]]
      BY <2>1, <2>2
    <2> QED BY <1>2, <1>4, <1>5, <2>2, <2>4, <2>5 DEF Numbers
  <1>14. Closures(ports, E, sent, mate, closed, merged, d, o)
    BY <1>4, <1>5 DEF Closures
  <1>15. PICK V : V = [gone |-> {}, told |-> [e \in Ends |-> FALSE], last |-> [e \in Ends |-> 0]]
    OBVIOUS
  <1>16. Notified(ports, E, closed, V)
    <2>1. V.gone = {} /\ \A e \in Ends : V.told[e] = FALSE /\ V.last[e] = 0
      BY <1>15
    <2>2. \A p \in DOMAIN ports : /\ ports[p].peer_closed = FALSE
                                  /\ ports[p].last_sequence_num_to_receive = 0
                                  /\ ports[p].end \in Ends
      <3>1. \A p \in DOMAIN ports : ports[p].last_sequence_num_to_receive = 0
        BY <1>1, <1>2, FirstPortFacts
      <3>2. \A p \in DOMAIN ports : ports[p].peer_closed \in BOOLEAN
        BY <1>5 DEF PortRecord
      <3> QED BY <1>2, <1>5, <3>1, <3>2
    <2> QED BY <1>4, <2>1, <2>2 DEF Notified
  <1>17. Unmerged(mate, merged)
    BY <1>2, <1>3 DEF Unmerged
  <1>18. Sound(V)
    BY <1>1, <1>8, <1>9, <1>10, <1>11, <1>12, <1>13, <1>14, <1>16, <1>17 DEF Sound, Safe
  <1> QED BY <1>2, <1>3, <1>18, PlacesPlaced DEF IInv, IInvAt

-----------------------------------------------------------------------------
\* Every step keeps the invariant.
LEMMA NextIInv == IInv /\ [Next]_vars => IInv'
  <1> SUFFICES ASSUME IInv, [Next]_vars PROVE \E V : IInvAt(V)'
    BY DEF IInv
  <1>0. PICK V : IInvAt(V)
    BY DEF IInv
  <1>1. CASE Embedder
    BY <1>0, <1>1, SendUserMessageStep, SendFailsStep, GetMessageStep, ClosePortStep,
       MergeLocalStep DEF Embedder
  <1>2. ASSUME NEW n \in Nodes, NEW t \in Threads, Thread(n, t) PROVE \E V2 : IInvAt(V2)'
    BY <1>0, <1>2, SendPeerEventStep, AcceptLocalEventStep DEF Thread
  <1>3. ASSUME NEW m \in Nodes, NEW n \in Nodes, OnEventMessage(m, n) PROVE \E V2 : IInvAt(V2)'
    BY <1>0, <1>3, OnEventMessageStep
  <1>4. ASSUME NEW p \in held, NEW e \in Ends, MergePorts(p, e) PROVE \E V2 : IInvAt(V2)'
    BY <1>0, <1>4, MergePortsStep
  <1>5. CASE UNCHANGED vars
    <2>1. /\ Sound(V)' = Sound(V) /\ Places' = Places /\ ports' = ports
      BY <1>5 DEF Sound, Places, vars
    <2> QED BY <1>0, <2>1 DEF IInvAt
  <1> QED BY <1>1, <1>2, <1>3, <1>4, <1>5 DEF Next

\* The invariant holds in every reachable state.
THEOREM Invariant == Spec => []IInv
  <1> QED BY InitIInv, NextIInv, PTL DEF Spec

-----------------------------------------------------------------------------
\* What the invariant says of the events under way.

\* The place, among the queues, of an event that is under way.
Spot(u) == IF u.by = "channel" THEN <<<<"chan", u.from, u.to>>, u.place>>
           ELSE <<<<"stack", u.from, u.by>>, u.place>>

\* An event under way is on a thread's stack or in a channel.
OnStack(u) == /\ u.from \in Nodes /\ u.to = u.from /\ u.by \in Threads
              /\ u.place \in DOMAIN stack[u.from][u.by]
              /\ u.event = stack[u.from][u.by][u.place]
InChannel(u) == /\ u.from \in Nodes /\ u.to \in Nodes /\ u.by = "channel"
                /\ u.place \in DOMAIN chan[u.from][u.to]
                /\ u.event = chan[u.from][u.to][u.place]

\* The records of a stack, and of a channel.
StackRecord(n, t, i) ==
    [from |-> n, to |-> n, by |-> t, place |-> i, event |-> stack[n][t][i]]
ChanRecord(m, n, i) ==
    [from |-> m, to |-> n, by |-> "channel", place |-> i, event |-> chan[m][n][i]]
StackRecords(n, t) == {StackRecord(n, t, i) : i \in DOMAIN stack[n][t]}
ChanRecords(m, n) == {ChanRecord(m, n, i) : i \in DOMAIN chan[m][n]}

\* UnderWay holds these records.
LEMMA UnderWayIs ==
    \A u : u \in UnderWay <=>
             \/ \E n \in Nodes, t \in Threads : u \in StackRecords(n, t)
             \/ \E m, n \in Nodes : u \in ChanRecords(m, n)
  <1> DEFINE A == UNION {StackRecords(n, t) : n \in Nodes, t \in Threads}
             B == UNION {ChanRecords(m, n) : m, n \in Nodes}
  <1>2. UnderWay = A \cup B
    BY DEF UnderWay, StackRecords, ChanRecords, StackRecord, ChanRecord
  <1>3. \A u : u \in A <=> \E n \in Nodes, t \in Threads : u \in StackRecords(n, t)
    OBVIOUS
  <1>4. \A u : u \in B <=> \E m, n \in Nodes : u \in ChanRecords(m, n)
    OBVIOUS
  <1> HIDE DEF A, B
  <1> QED BY <1>2, <1>3, <1>4

\* The records of UnderWay.
LEMMA UnderWayRecords ==
    /\ \A u \in UnderWay :
          /\ u = [from |-> u.from, to |-> u.to, by |-> u.by, place |-> u.place, event |-> u.event]
          /\ OnStack(u) \/ InChannel(u)
    /\ \A n \in Nodes, t \in Threads : \A i \in DOMAIN stack[n][t] :
          StackRecord(n, t, i) \in UnderWay
    /\ \A m, n \in Nodes : \A i \in DOMAIN chan[m][n] : ChanRecord(m, n, i) \in UnderWay
  <1>1. ASSUME NEW u \in UnderWay
        PROVE  /\ u = [from |-> u.from, to |-> u.to, by |-> u.by, place |-> u.place,
                       event |-> u.event]
               /\ OnStack(u) \/ InChannel(u)
    <2>1. \/ \E n \in Nodes, t \in Threads : u \in StackRecords(n, t)
          \/ \E m, n \in Nodes : u \in ChanRecords(m, n)
      BY UnderWayIs
    <2>2. ASSUME NEW n \in Nodes, NEW t \in Threads, u \in StackRecords(n, t)
          PROVE  /\ u = [from |-> u.from, to |-> u.to, by |-> u.by, place |-> u.place,
                         event |-> u.event]
                 /\ OnStack(u)
      BY <2>2 DEF StackRecords, StackRecord, OnStack
    <2>3. ASSUME NEW m \in Nodes, NEW n \in Nodes, u \in ChanRecords(m, n)
          PROVE  /\ u = [from |-> u.from, to |-> u.to, by |-> u.by, place |-> u.place,
                         event |-> u.event]
                 /\ InChannel(u)
      BY <2>3 DEF ChanRecords, ChanRecord, InChannel
    <2> QED BY <2>1, <2>2, <2>3
  <1>2. ASSUME NEW n \in Nodes, NEW t \in Threads, NEW i \in DOMAIN stack[n][t]
        PROVE  StackRecord(n, t, i) \in UnderWay
    <2>1. StackRecord(n, t, i) \in StackRecords(n, t)
      BY DEF StackRecords
    <2> QED BY <2>1, UnderWayIs
  <1>3. ASSUME NEW m \in Nodes, NEW n \in Nodes, NEW i \in DOMAIN chan[m][n]
        PROVE  ChanRecord(m, n, i) \in UnderWay
    <2>1. ChanRecord(m, n, i) \in ChanRecords(m, n)
      BY DEF ChanRecords
    <2> QED BY <2>1, UnderWayIs
  <1> QED BY <1>1, <1>2, <1>3

\* UnderWay is what is in the queues.
LEMMA UnderWayFacts ==
    ASSUME NEW E, E = Toks(Queues(stack, chan))
    PROVE  /\ \A u \in UnderWay : Spot(u) \in DOMAIN E /\ E[Spot(u)] = u.event
           /\ \A u, v \in UnderWay : Spot(u) = Spot(v) => u = v
           /\ \A x \in DOMAIN E : \E u \in UnderWay : Spot(u) = x
  <1>0. PICK q : q = Queues(stack, chan)
    OBVIOUS
  <1>1. "channel" \notin Threads /\ "chan" # "stack"
    BY DEF Threads
  <1>2. ASSUME NEW u \in UnderWay
        PROVE  Spot(u) \in DOMAIN E /\ E[Spot(u)] = u.event
    <2>1. CASE OnStack(u)
      <3>1. Spot(u) = <<<<"stack", u.from, u.by>>, u.place>>
        BY <1>1, <2>1 DEF OnStack, Spot
      <3>2. /\ <<"stack", u.from, u.by>> \in DOMAIN q
            /\ q[<<"stack", u.from, u.by>>] = stack[u.from][u.by]
        BY <1>0, <2>1, QueuesFacts DEF OnStack
      <3> QED BY <1>0, <2>1, <3>1, <3>2, ToksFacts DEF OnStack
    <2>2. CASE InChannel(u)
      <3>1. Spot(u) = <<<<"chan", u.from, u.to>>, u.place>>
        BY <2>2 DEF InChannel, Spot
      <3>2. /\ <<"chan", u.from, u.to>> \in DOMAIN q
            /\ q[<<"chan", u.from, u.to>>] = chan[u.from][u.to]
        BY <1>0, <2>2, QueuesFacts DEF InChannel
      <3> QED BY <1>0, <2>2, <3>1, <3>2, ToksFacts DEF InChannel
    <2> QED BY <2>1, <2>2, UnderWayRecords
  <1>3. ASSUME NEW u \in UnderWay, NEW v \in UnderWay, Spot(u) = Spot(v) PROVE u = v
    <2>1. u.event = v.event
      BY <1>2, <1>3
    <2>2. /\ u.from = v.from /\ u.to = v.to /\ u.by = v.by /\ u.place = v.place
      <3>1. CASE OnStack(u) /\ OnStack(v)
        BY <1>1, <1>3, <3>1 DEF OnStack, Spot
      <3>2. CASE InChannel(u) /\ InChannel(v)
        BY <1>3, <3>2 DEF InChannel, Spot
      <3>3. CASE OnStack(u) /\ InChannel(v)
        BY <1>1, <1>3, <3>3 DEF InChannel, OnStack, Spot
      <3>4. CASE InChannel(u) /\ OnStack(v)
        BY <1>1, <1>3, <3>4 DEF InChannel, OnStack, Spot
      <3> QED BY <3>1, <3>2, <3>3, <3>4, UnderWayRecords
    <2> QED BY <2>1, <2>2, UnderWayRecords
  <1>4. ASSUME NEW x \in DOMAIN E PROVE \E u \in UnderWay : Spot(u) = x
    <2>1. PICK i \in DOMAIN q : \E k \in DOMAIN q[i] : x = <<i, k>>
      BY <1>0, ToksFacts
    <2>2. PICK k \in DOMAIN q[i] : x = <<i, k>>
      BY <2>1
    <2>3. \/ \E n \in Nodes, t \in Threads : i = <<"stack", n, t>>
          \/ \E m, n \in Nodes : i = <<"chan", m, n>>
      BY <1>0, QueuesFacts
    <2>4. ASSUME NEW n \in Nodes, NEW t \in Threads, i = <<"stack", n, t>>
          PROVE  \E u \in UnderWay : Spot(u) = x
      <3>1. q[i] = stack[n][t]
        BY <1>0, <2>4, QueuesFacts
      <3>2. PICK u : u = StackRecord(n, t, k)
        OBVIOUS
      <3>3. u \in UnderWay
        BY <2>2, <3>1, <3>2, UnderWayRecords
      <3>4. u.by # "channel" /\ u.from = n /\ u.by = t /\ u.place = k
        BY <1>1, <3>2 DEF StackRecord
      <3> QED BY <2>2, <2>4, <3>3, <3>4 DEF Spot
    <2>5. ASSUME NEW m \in Nodes, NEW n \in Nodes, i = <<"chan", m, n>>
          PROVE  \E u \in UnderWay : Spot(u) = x
      <3>1. q[i] = chan[m][n]
        BY <1>0, <2>5, QueuesFacts
      <3>2. PICK u : u = ChanRecord(m, n, k)
        OBVIOUS
      <3>3. u \in UnderWay
        BY <2>2, <3>1, <3>2, UnderWayRecords
      <3>4. u.by = "channel" /\ u.from = m /\ u.to = n /\ u.place = k
        BY <3>2 DEF ChanRecord
      <3> QED BY <2>2, <2>5, <3>3, <3>4 DEF Spot
    <2> QED BY <2>3, <2>4, <2>5
  <1> QED BY <1>2, <1>3, <1>4

\* What the invariant says of an event under way.
LEMMA UnderWayTypes ==
    ASSUME IInv
    PROVE  \A u \in UnderWay :
              /\ u.event \in Event(names)
              /\ InPlace(u.to, u.event)
              /\ u.event.type \in {"UserMessage", "MergePort"} =>
                   /\ u.event.descriptors \in AtMostOne(DescriptorRecord(names))
                   /\ u.event.ports \in AtMostOne(Addr(names))
  <1> SUFFICES ASSUME NEW u \in UnderWay
               PROVE  /\ u.event \in Event(names)
                      /\ InPlace(u.to, u.event)
                      /\ u.event.type \in {"UserMessage", "MergePort"} =>
                           /\ u.event.descriptors \in AtMostOne(DescriptorRecord(names))
                           /\ u.event.ports \in AtMostOne(Addr(names))
    OBVIOUS
  <1>1. Placed(stack, chan, names)
    BY PlacesPlaced DEF IInv, IInvAt
  <1>2. u.event \in Event(names) /\ InPlace(u.to, u.event)
    <2>1. CASE OnStack(u)
      <3>1. /\ stack[u.from][u.by] \in Seq(Event(names))
            /\ \A i \in DOMAIN stack[u.from][u.by] : InPlace(u.from, stack[u.from][u.by][i])
        BY <1>1, <2>1 DEF Placed, OnStack
      <3>2. \A i \in DOMAIN stack[u.from][u.by] : stack[u.from][u.by][i] \in Event(names)
        BY <3>1
      <3> QED BY <2>1, <3>1, <3>2 DEF OnStack
    <2>2. CASE InChannel(u)
      <3>1. /\ chan[u.from][u.to] \in Seq(Event(names))
            /\ \A i \in DOMAIN chan[u.from][u.to] : ~Attaching(chan[u.from][u.to][i])
        BY <1>1, <2>2 DEF Placed, InChannel
      <3>2. \A i \in DOMAIN chan[u.from][u.to] : chan[u.from][u.to][i] \in Event(names)
        BY <3>1
      <3> QED BY <2>2, <3>1, <3>2 DEF InChannel, InPlace
    <2> QED BY <2>1, <2>2, UnderWayRecords
  <1>3. PICK e : e = u.event
    OBVIOUS
  <1>4. e.type \in {"UserMessage", "MergePort"} => e \in Message(names) \cup MergeRequest(names)
    BY <1>2, <1>3, EventTypes
  <1>5. e \in Message(names) \cup MergeRequest(names) =>
           /\ e.descriptors \in AtMostOne(DescriptorRecord(names))
           /\ e.ports \in AtMostOne(Addr(names))
    BY DEF Message, MergeRequest
  <1> QED BY <1>2, <1>3, <1>4, <1>5

\* Every variable keeps its type.
THEOREM TypeCorrect == Spec => []TypeOK
  <1>1. IInv => TypeOK
    <2> SUFFICES ASSUME IInv PROVE TypeOK
      OBVIOUS
    <2>1. PICK V, E, d, o : /\ E = Toks(Queues(stack, chan))
                            /\ Safe(ports, names, held, closed, mate, merged, E, sent, received, V, d, o)
      BY DEF IInv, IInvAt, Sound
    <2>2. WellTyped(ports, names, held, closed, mate, merged, E, sent, received, d, o)
      BY <2>1 DEF Safe
    <2>3. Addresses = Addr(names)
      BY DEF Addresses, Addr
    <2>4. ASSUME NEW p \in DOMAIN ports
          PROVE  /\ ports[p].state \in {"Receiving", "Buffering", "Proxying"}
                 /\ ports[p].end \in Ends
                 /\ ports[p].peer \in Addresses
                 /\ ports[p].next_sequence_num \in Nat
                 /\ ports[p].next_sequence_num_to_send \in Nat
                 /\ ports[p].last_sequence_num_to_receive \in Nat
                 /\ ports[p].peer_closed \in BOOLEAN
                 /\ ports[p].remove_proxy_on_last_message \in BOOLEAN
      <3>1. ports[p] \in PortRecord(names)
        BY <2>2 DEF WellTyped
      <3> QED BY <2>3, <3>1 DEF PortRecord
    <2>5. \A u \in UnderWay : u.event.port_name \in Addresses
      BY <2>3, UnderWayTypes, EventTypes
    <2> QED BY <2>2, <2>3, <2>4, <2>5 DEF WellTyped, TypeOK
  <1> QED BY <1>1, Invariant, PTL

\* An acknowledgement meets a proxy that forwards, or none; an acceptance meets one that
\* buffers: the NOTREACHED branches of OnObserveProxyAck and BeginProxying are not reached.
THEOREM OnlyExpectedEvents == Spec => []EventsExpected
  <1>1. IInv => EventsExpected
    <2> SUFFICES ASSUME IInv, NEW u \in UnderWay, NEW e, e = u.event, NEW p, p = e.port_name
                 PROVE  /\ e.type = "ObserveProxyAck" /\ p \in DOMAIN ports =>
                              ports[p].state = "Proxying"
                        /\ e.type = "PortAccepted" =>
                              /\ p \in DOMAIN ports
                              /\ ports[p].state = "Buffering"
      BY DEF EventsExpected
    <2>1. PICK V, E, d, o : /\ E = Toks(Queues(stack, chan))
                            /\ Safe(ports, names, held, closed, mate, merged, E, sent, received, V, d, o)
      BY DEF IInv, IInvAt, Sound
    <2>2. PICK x \in DOMAIN E : E[x] = e
      BY <2>1, UnderWayFacts
    <2> QED BY <2>1, <2>2 DEF Safe, Moves, Announced
  <1> QED BY <1>1, Invariant, PTL

\* What an end has read are the first messages of the end it is joined to, each once, in
\* the order they were sent.
THEOREM ReadInOrder == Spec => []ReceivedInOrder
  <1>1. IInv => ReceivedInOrder
    <2> SUFFICES ASSUME IInv, NEW e \in Ends
                 PROVE  /\ Len(received[e]) <= sent[mate[e]]
                        /\ \A i \in DOMAIN received[e] :
                              received[e][i] = [end |-> mate[e], index |-> i]
      BY DEF ReceivedInOrder
    <2>1. PICK V, E, d, o : /\ E = Toks(Queues(stack, chan))
                            /\ Safe(ports, names, held, closed, mate, merged, E, sent, received, V, d, o)
      BY DEF IInv, IInvAt, Sound
    <2>2. /\ Len(received[e]) <= sent[mate[e]]
          /\ \A i \in 1 .. Len(received[e]) : received[e][i] = [end |-> mate[e], index |-> i]
      BY <2>1 DEF Safe, Numbers
    <2>3. DOMAIN received[e] = 1 .. Len(received[e])
      <3>1. received[e] \in Seq([end : Ends, index : Nat])
        BY <2>1 DEF Safe, WellTyped
      <3> QED BY <3>1
    <2> QED BY <2>2, <2>3
  <1> QED BY <1>1, Invariant, PTL

\* A port that a message carries lives on the message's node, receives, and is held by nobody
\* else: the DCHECKs of GetMessage and ConvertToProxy, and OnUserMessage's error return.
THEOREM CarriedPortsReady == Spec => []AttachedPortsReady
  <1>1. IInv => AttachedPortsReady
    <2> DEFINE Ready(q, n) == /\ q \in DOMAIN ports \ held
                              /\ ports[q].state = "Receiving"
                              /\ q[1] = n
    <2> SUFFICES ASSUME IInv
                 PROVE  /\ \A p \in DOMAIN ports : \A q \in Attached(ports[p]) : Ready(q, p[1])
                        /\ \A u \in CarriersUnderWay :
                              u.event.descriptors = << >> =>
                                  \A q \in ToSet(u.event.ports) : Ready(q, u.to)
      BY DEF AttachedPortsReady
    <2>1. PICK V, E, d, o : /\ E = Toks(Queues(stack, chan))
                            /\ Safe(ports, names, held, closed, mate, merged, E, sent, received, V, d, o)
      BY DEF IInv, IInvAt, Sound
    <2>2. \A q, n : Loose(ports, held, q) /\ q[1] = n => Ready(q, n)
      BY DEF Loose, Receiving
    <2>3. \A s, T : s \in AtMostOne(T) => \A q \in ToSet(s) : s # << >> /\ q = s[1]
      <3>1. ASSUME NEW s, NEW T, s \in AtMostOne(T), s # << >> PROVE ToSet(s) = {s[1]}
        <4>1. s = <<s[1]>>
          BY <3>1, AtMostOneFacts
        <4>2. ToSet(<<s[1]>>) = {s[1]}
          BY DEF ToSet
        <4> QED BY <4>1, <4>2
      <3>2. ToSet(<< >>) = {}
        BY DEF ToSet
      <3> QED BY <3>1, <3>2
    <2> HIDE DEF Ready
    <2>4. ASSUME NEW p \in DOMAIN ports, NEW q \in Attached(ports[p]) PROVE Ready(q, p[1])
      <3>1. PICK m \in ports[p].message_queue : q \in ToSet(m.ports)
        BY DEF Attached
      <3>2. ports[p] \in PortRecord(names)
        BY <2>1 DEF Safe, WellTyped
      <3>3. m \in Message(names)
        BY <3>1, <3>2 DEF PortRecord
      <3>4. m.ports \in AtMostOne(Addr(names))
        BY <3>3, MessageTypes
      <3>5. m.ports # << >> /\ q = Carried(m)
        BY <2>3, <3>1, <3>4 DEF Carried
      <3>6. Loose(ports, held, q) /\ q[1] = p[1]
        BY <2>1, <3>1, <3>5 DEF Safe, Carry
      <3> QED BY <2>2, <3>6
    <2>5. ASSUME NEW u \in CarriersUnderWay, u.event.descriptors = << >>,
                 NEW q \in ToSet(u.event.ports)
          PROVE  Ready(q, u.to)
      <3>1. u \in UnderWay /\ u.event.type \in {"UserMessage", "MergePort"}
        BY DEF CarriersUnderWay
      <3>2. PICK e : e = u.event
        OBVIOUS
      <3>3. PICK x \in DOMAIN E : E[x] = e
        BY <2>1, <3>1, <3>2, UnderWayFacts
      <3>4. e.type # "MergePort"
        BY <2>1, <2>5, <3>2, <3>3 DEF Safe, Moves, Moving
      <3>5. e.ports # << >> /\ q = Carried(e) /\ InPlace(u.to, e)
        BY <2>3, <3>1, <3>2, UnderWayTypes DEF Carried
      <3>6. Attaching(e)
        BY <2>5, <3>1, <3>2, <3>4, <3>5 DEF Attaching
      <3>7. Loose(ports, held, q) /\ q[1] = u.to
        BY <2>1, <3>3, <3>5, <3>6 DEF Safe, Carry, InPlace
      <3> QED BY <2>2, <3>7
    <2> QED BY <2>4, <2>5
  <1> QED BY <1>1, Invariant, PTL

\* An open end is one receiving port or one descriptor under way, never both and never
\* neither; a closed or merged one is nowhere.
THEOREM OnePlacePerEnd == Spec => []EndInOnePlace
  <1>1. IInv => EndInOnePlace
    <2> SUFFICES ASSUME IInv, NEW e \in Ends,
                        NEW A, A = ReceivingPorts(e),
                        NEW B, B = {u \in CarriersUnderWay :
                                      \E i \in DOMAIN u.event.descriptors :
                                          u.event.descriptors[i].end = e}
                 PROVE  Cardinality(A) + Cardinality(B)
                          = (IF e \in closed \cup merged THEN 0 ELSE 1)
      BY DEF EndInOnePlace
    <2>1. PICK V, E, d, o : /\ E = Toks(Queues(stack, chan))
                            /\ Safe(ports, names, held, closed, mate, merged, E, sent, received, V, d, o)
      BY DEF IInv, IInvAt, Sound
    <2>2. \A p : p \in A <=> p \in DOMAIN ports /\ Receiving(ports, p) /\ ports[p].end = e
      BY DEF ReceivingPorts, PortsOf, Receiving
    <2>3. \A u : u \in B <=> u \in UnderWay /\ Moving(u.event) /\ Described(u.event).end = e
      <3>1. \A s, T : s \in AtMostOne(T) => DOMAIN s \subseteq {1} /\ (s # << >> <=> 1 \in DOMAIN s)
        <4>1. ASSUME NEW s, NEW T, s \in AtMostOne(T), s # << >> PROVE DOMAIN s = {1}
          <5>1. s = <<s[1]>>
            BY <4>1, AtMostOneFacts
          <5>2. DOMAIN <<s[1]>> = {1}
            OBVIOUS
          <5> QED BY <5>1, <5>2
        <4>2. DOMAIN << >> = {}
          OBVIOUS
        <4> QED BY <4>1, <4>2
      <3>2. ASSUME NEW u, u \in UnderWay, u.event.type \in {"UserMessage", "MergePort"}
            PROVE  (\E i \in DOMAIN u.event.descriptors : u.event.descriptors[i].end = e)
                     <=> Moving(u.event) /\ Described(u.event).end = e
        <4>1. u.event.descriptors \in AtMostOne(DescriptorRecord(names))
          BY <3>2, UnderWayTypes
        <4> QED BY <3>1, <3>2, <4>1 DEF Moving, Described
      <3> QED BY <3>2 DEF CarriersUnderWay, Moving
    <2>4. /\ \A u \in UnderWay : Spot(u) \in DOMAIN E /\ E[Spot(u)] = u.event
          /\ \A u, v \in UnderWay : Spot(u) = Spot(v) => u = v
          /\ \A x \in DOMAIN E : \E u \in UnderWay : Spot(u) = x
      BY <2>1, UnderWayFacts
    <2>5. Single(ports, E, closed, merged)
      BY <2>1 DEF Safe
    <2>6. Cardinality({}) = 0 /\ \A x : Cardinality({x}) = 1
      BY FS_EmptySet, FS_Singleton
    <2>7. CASE e \in closed \cup merged
      <3>1. A = {}
        BY <2>2, <2>5, <2>7 DEF Single
      <3>2. B = {}
        BY <2>3, <2>4, <2>5, <2>7 DEF Single
      <3> QED BY <2>6, <2>7, <3>1, <3>2
    <2>8. CASE e \notin closed \cup merged
      <3>1. CASE \E p \in DOMAIN ports : Receiving(ports, p) /\ ports[p].end = e
        <4>1. PICK p \in DOMAIN ports : Receiving(ports, p) /\ ports[p].end = e
          BY <3>1
        <4>2. A = {p}
          BY <2>2, <2>5, <4>1 DEF Single
        <4>3. B = {}
          BY <2>3, <2>4, <2>5, <4>1 DEF Single
        <4>4. Cardinality(A) = 1 /\ Cardinality(B) = 0
          BY <2>6, <4>2, <4>3
        <4> QED BY <2>8, <4>4
      <3>2. CASE \E x \in DOMAIN E : Moving(E[x]) /\ Described(E[x]).end = e
        <4>1. PICK x \in DOMAIN E : Moving(E[x]) /\ Described(E[x]).end = e
          BY <3>2
        <4>2. PICK u \in UnderWay : Spot(u) = x
          BY <2>4
        <4>3. A = {}
          BY <2>2, <2>5, <4>1 DEF Single
        <4>4. \A v \in B : v = u
          BY <2>3, <2>4, <2>5, <4>1, <4>2 DEF Single
        <4>5. u \in B
          BY <2>3, <2>4, <4>1, <4>2
        <4>6. B = {u}
          BY <4>4, <4>5
        <4>7. Cardinality(A) = 0 /\ Cardinality(B) = 1
          BY <2>6, <4>3, <4>6
        <4> QED BY <2>8, <4>7
      <3> QED BY <2>5, <2>8, <3>1, <3>2 DEF Single
    <2> QED BY <2>7, <2>8
  <1> QED BY <1>1, Invariant, PTL

-----------------------------------------------------------------------------
\* The pipes that the embedders see.

\* V tells which open ends are told of a closure, and what it tells is true.
View(V) ==
    /\ \A e : e \in Told <=> /\ e \in Ends \ (closed \cup merged)
                             /\ V.told[e] = TRUE
                             /\ V.last[e] = Len(received[e])
    /\ \A e \in Ends \ (closed \cup merged) :
          V.told[e] = TRUE => mate[e] \in closed /\ V.last[e] = sent[mate[e]]
    /\ V.gone \subseteq closed /\ closed \subseteq Ends
    /\ sent \in [Ends -> Nat]
    /\ received \in [Ends -> Seq([end : Ends, index : Nat])]
    /\ Merges = {} => merged = {} /\ mate = [e \in Ends |-> Other(e)]

\* Told, of the events in the queues.
LEMMA ToldPlaces ==
    ASSUME NEW V, IInvAt(V), NEW E, E = Toks(Queues(stack, chan))
    PROVE  \A e : e \in Told <=>
             \/ \E p \in DOMAIN ports : /\ ports[p].state = "Receiving" /\ ports[p].end = e
                                        /\ ~CanAcceptMoreMessages(ports[p]) /\ e \in Ends
             \/ \E x \in DOMAIN E :
                   /\ Moving(E[x]) /\ Described(E[x]).end = e /\ e \in Ends
                   /\ Described(E[x]).peer_closed
                   /\ Described(E[x]).last_sequence_num_to_receive
                        = Described(E[x]).next_sequence_num_to_receive - 1
  <1> DEFINE LastFact(D, e) == /\ D.end = e
                               /\ D.peer_closed
                               /\ D.last_sequence_num_to_receive = D.next_sequence_num_to_receive - 1
  <1> SUFFICES ASSUME NEW e
               PROVE  e \in Told <=>
                        \/ \E p \in DOMAIN ports :
                              /\ ports[p].state = "Receiving" /\ ports[p].end = e
                              /\ ~CanAcceptMoreMessages(ports[p]) /\ e \in Ends
                        \/ \E x \in DOMAIN E :
                              Moving(E[x]) /\ e \in Ends /\ LastFact(Described(E[x]), e)
    OBVIOUS
  <1>1. e \in Told <=>
          \/ e \in Ends /\ \E p \in ReceivingPorts(e) : ~CanAcceptMoreMessages(ports[p])
          \/ e \in Ends /\ \E u \in CarriersUnderWay : \E i \in DOMAIN u.event.descriptors :
                LastFact(u.event.descriptors[i], e)
    BY DEF Told
  <1> HIDE DEF LastFact
  <1>2. ASSUME NEW u \in UnderWay, u.event.type \in {"UserMessage", "MergePort"}
        PROVE  (\E i \in DOMAIN u.event.descriptors : LastFact(u.event.descriptors[i], e))
                 <=> Moving(u.event) /\ LastFact(Described(u.event), e)
    <2>1. u.event.descriptors \in AtMostOne(DescriptorRecord(names))
      BY <1>2, UnderWayTypes DEF IInv
    <2>2. CASE u.event.descriptors = << >>
      BY <2>2 DEF Moving
    <2>3. CASE u.event.descriptors # << >>
      <3>1. PICK D : u.event.descriptors = <<D>> /\ D = u.event.descriptors[1]
        BY <2>1, <2>3, AtMostOneFacts
      <3>2. DOMAIN <<D>> = {1} /\ <<D>>[1] = D
        OBVIOUS
      <3> QED BY <1>2, <2>3, <3>1, <3>2 DEF Moving, Described
    <2> QED BY <2>2, <2>3
  <1>3. (\E u \in CarriersUnderWay : \E i \in DOMAIN u.event.descriptors :
                LastFact(u.event.descriptors[i], e))
          <=> \E u \in UnderWay : Moving(u.event) /\ LastFact(Described(u.event), e)
    BY <1>2 DEF CarriersUnderWay, Moving
  <1>4. /\ \A u \in UnderWay : Spot(u) \in DOMAIN E /\ E[Spot(u)] = u.event
        /\ \A x \in DOMAIN E : \E u \in UnderWay : Spot(u) = x
    BY UnderWayFacts
  <1>5. (\E u \in UnderWay : Moving(u.event) /\ LastFact(Described(u.event), e))
          <=> \E x \in DOMAIN E : Moving(E[x]) /\ LastFact(Described(E[x]), e)
    BY <1>4
  <1>6. \A p : p \in ReceivingPorts(e) <=>
               p \in DOMAIN ports /\ ports[p].state = "Receiving" /\ ports[p].end = e
    BY DEF ReceivingPorts, PortsOf
  <1> QED BY <1>1, <1>3, <1>5, <1>6

\* What the invariant says of the ends that are told of a closure.
LEMMA ViewHolds ==
    ASSUME NEW V
    PROVE  (IInvAt(V) => View(V)) /\ (IInvAt(V)' => View(V)')
  <1>1. IInvAt(V) => View(V)
    <2> SUFFICES ASSUME IInvAt(V) PROVE View(V)
      OBVIOUS
    <2>1. PICK E, d, o : /\ E = Toks(Queues(stack, chan))
                         /\ Safe(ports, names, held, closed, mate, merged, E, sent, received,
                                 V, d, o)
      BY DEF IInvAt, Sound
    <2>2. /\ closed \subseteq Ends /\ sent \in [Ends -> Nat]
          /\ received \in [Ends -> Seq([end : Ends, index : Nat])]
          /\ \A p \in DOMAIN ports : ports[p] \in PortRecord(names)
          /\ \A x \in DOMAIN E : E[x] \in Event(names)
      BY <2>1 DEF Safe, WellTyped
    <2>3. /\ \A u \in UnderWay : Spot(u) \in DOMAIN E /\ E[Spot(u)] = u.event
          /\ \A x \in DOMAIN E : \E u \in UnderWay : Spot(u) = x
      BY <2>1, UnderWayFacts
    <2>4. \A p \in DOMAIN ports : ports[p].state = "Receiving" =>
             /\ ports[p].end \in Ends \ (closed \cup merged)
             /\ ports[p].peer_closed = V.told[ports[p].end]
             /\ ports[p].last_sequence_num_to_receive = V.last[ports[p].end]
             /\ ports[p].next_sequence_num - 1 = Len(received[ports[p].end])
             /\ CanAcceptMoreMessages(ports[p]) <=>
                  ~(V.told[ports[p].end] = TRUE /\ V.last[ports[p].end] = Len(received[ports[p].end]))
             /\ V.told[ports[p].end] = TRUE =>
                  /\ mate[ports[p].end] \in closed
                  /\ V.last[ports[p].end] = sent[mate[ports[p].end]]
      <3> SUFFICES ASSUME NEW p \in DOMAIN ports, ports[p].state = "Receiving", NEW e, e = ports[p].end
                   PROVE  /\ e \in Ends \ (closed \cup merged)
                          /\ ports[p].peer_closed = V.told[e]
                          /\ ports[p].last_sequence_num_to_receive = V.last[e]
                          /\ ports[p].next_sequence_num - 1 = Len(received[e])
                          /\ CanAcceptMoreMessages(ports[p]) <=>
                               ~(V.told[e] = TRUE /\ V.last[e] = Len(received[e]))
                          /\ V.told[e] = TRUE => mate[e] \in closed /\ V.last[e] = sent[mate[e]]
        OBVIOUS
      <3>1. e \in Ends /\ ports[p].peer_closed \in BOOLEAN
        BY <2>2 DEF PortRecord
      <3>2. e \notin closed \cup merged
        BY <2>1 DEF Safe, Single, Receiving
      <3>3. /\ ports[p].peer_closed = V.told[e]
            /\ ports[p].last_sequence_num_to_receive = V.last[e]
        BY <2>1 DEF Safe, Notified, Receiving
      <3>4. ports[p].next_sequence_num = Len(received[e]) + 1
        BY <2>1 DEF Safe, Numbers, Receiving
      <3>5. Len(received[e]) \in Nat
        BY <2>2, <3>1
      <3>6. ports[p].next_sequence_num - 1 = Len(received[e])
        BY <3>4, <3>5
      <3>7. ~ports[p].remove_proxy_on_last_message
        BY <2>1 DEF Safe, Closures, Receiving
      <3>8. CanAcceptMoreMessages(ports[p]) <=>
              ~(V.told[e] = TRUE /\ V.last[e] = Len(received[e]))
        BY <3>1, <3>3, <3>6, <3>7 DEF CanAcceptMoreMessages
      <3>9. ASSUME V.told[e] = TRUE PROVE mate[e] \in closed /\ V.last[e] = sent[mate[e]]
        <4>1. Tellable(e, ports[p].last_sequence_num_to_receive, sent, mate, closed, merged)
          BY <2>1, <3>3, <3>9 DEF Safe, Closures, Receiving
        <4> QED BY <3>2, <3>3, <4>1 DEF Tellable
      <3> QED BY <3>1, <3>2, <3>3, <3>6, <3>8, <3>9
    <2>5. \A x \in DOMAIN E : \A D, e : Moving(E[x]) /\ D = Described(E[x]) /\ e = D.end =>
             /\ e \in Ends \ (closed \cup merged)
             /\ D.peer_closed = V.told[e]
             /\ D.last_sequence_num_to_receive = V.last[e]
             /\ D.next_sequence_num_to_receive - 1 = Len(received[e])
             /\ D.peer_closed \in BOOLEAN
             /\ V.told[e] = TRUE => mate[e] \in closed /\ V.last[e] = sent[mate[e]]
      <3> TAKE x \in DOMAIN E
      <3> TAKE D, e
      <3> HAVE Moving(E[x]) /\ D = Described(E[x]) /\ e = D.end
      <3>1. D \in DescriptorRecord(names)
        BY <2>2, MovingTypes
      <3>2. e \in Ends /\ D.peer_closed \in BOOLEAN
        BY <3>1 DEF DescriptorRecord
      <3>3. e \notin closed \cup merged
        BY <2>1 DEF Safe, Single
      <3>4. D.peer_closed = V.told[e] /\ D.last_sequence_num_to_receive = V.last[e]
        BY <2>1 DEF Safe, Notified
      <3>5. D.next_sequence_num_to_receive = Len(received[e]) + 1
        BY <2>1 DEF Safe, Numbers
      <3>6. Len(received[e]) \in Nat
        BY <2>2, <3>2
      <3>7. D.next_sequence_num_to_receive - 1 = Len(received[e])
        BY <3>5, <3>6
      <3>8. ASSUME V.told[e] = TRUE PROVE mate[e] \in closed /\ V.last[e] = sent[mate[e]]
        <4>1. Tellable(e, D.last_sequence_num_to_receive, sent, mate, closed, merged)
          BY <2>1, <3>4, <3>8 DEF Safe, Closures
        <4> QED BY <3>3, <3>4, <4>1 DEF Tellable
      <3> QED BY <3>2, <3>3, <3>4, <3>7, <3>8
    <2>6. \A e \in Ends \ (closed \cup merged) :
             \/ \E p \in DOMAIN ports : ports[p].state = "Receiving" /\ ports[p].end = e
             \/ \E x \in DOMAIN E : Moving(E[x]) /\ Described(E[x]).end = e
      BY <2>1 DEF Safe, Single, Receiving
    <2>7. \A e : e \in Told <=>
            \/ \E p \in DOMAIN ports : /\ ports[p].state = "Receiving" /\ ports[p].end = e
                                       /\ ~CanAcceptMoreMessages(ports[p]) /\ e \in Ends
            \/ \E x \in DOMAIN E :
                  /\ Moving(E[x]) /\ Described(E[x]).end = e /\ e \in Ends
                  /\ Described(E[x]).peer_closed
                  /\ Described(E[x]).last_sequence_num_to_receive
                       = Described(E[x]).next_sequence_num_to_receive - 1
      BY <2>1, ToldPlaces
    <2>8. \A e : e \in Told <=> /\ e \in Ends \ (closed \cup merged)
                                /\ V.told[e] = TRUE
                                /\ V.last[e] = Len(received[e])
      BY <2>4, <2>5, <2>6, <2>7
    <2>9. \A e \in Ends \ (closed \cup merged) :
             V.told[e] = TRUE => mate[e] \in closed /\ V.last[e] = sent[mate[e]]
      BY <2>4, <2>5, <2>6
    <2>10. /\ V.gone \subseteq closed
           /\ Merges = {} => merged = {} /\ mate = [e \in Ends |-> Other(e)]
      BY <2>1 DEF Safe, Notified, Unmerged
    <2> QED BY <2>2, <2>8, <2>9, <2>10 DEF View
  <1> QED BY <1>1, PTL

\* The invariant holds with the ends that are closed by now.
LEMMA Renewed ==
    ASSUME NEW V, IInvAt(V)
    PROVE  \E V2 : V2.gone = closed /\ IInvAt(V2)
  <1>1. PICK c : c = closed
    OBVIOUS
  <1>2. PICK t, l : t = V.told /\ l = V.last
    OBVIOUS
  <1>3. PICK V2 : V2 = [gone |-> c, told |-> t, last |-> l]
    OBVIOUS
  <1>4. V2.gone = closed /\ V2.told = V.told /\ V2.last = V.last
    BY <1>1, <1>2, <1>3
  <1>5. PICK E, d, o : /\ E = Toks(Queues(stack, chan))
                       /\ Safe(ports, names, held, closed, mate, merged, E, sent, received,
                               V, d, o)
    BY DEF IInvAt, Sound
  <1>6. Notified(ports, E, closed, V2)
    BY <1>4, <1>5 DEF Safe, Notified
  <1>7. Safe(ports, names, held, closed, mate, merged, E, sent, received, V2, d, o)
    BY <1>5, <1>6 DEF Safe
  <1>8. Sound(V2)
    BY <1>5, <1>7 DEF Sound
  <1>9. IInvAt(V2)
    BY <1>8 DEF IInvAt
  <1> QED BY <1>4, <1>9

\* The ends of the pipes are those of the ports.
LEMMA PipeEnds ==
    /\ Pipe!Ends = Ends
    /\ \A e \in Ends : Pipe!Other(e) = Other(e) /\ Other(e) \in Ends /\ Other(e) # e
  <1>1. Pipe!Ends = Ends
    BY DEF Pipe!Ends, Ends
  <1>2. \A e \in Ends : Pipe!Other(e) = Other(e)
    BY DEF Pipe!Other, Other
  <1> QED BY <1>1, <1>2, OtherFacts

\* A step in which no end is newly told of a closure closes some ends, or none.
LEMMA ClosingStep ==
    ASSUME Merges = {}, NEW V, V.gone = closed, View(V), View(V)',
           UNCHANGED <<sent, received>>
    PROVE  [Pipe!Next]_Pipe!vars
  <1>1. PICK some : some = closed' \ closed
    OBVIOUS
  <1>2. closed' = closed \cup some /\ some \cap closed = {} /\ some \subseteq Ends
    BY <1>1 DEF View
  <1>3. merged = {} /\ merged' = {}
    BY DEF View
  <1>4. Told' = Told \ some
    <2>1. \A e : e \in Told <=> e \in Ends \ closed /\ V.told[e] = TRUE /\ V.last[e] = Len(received[e])
      BY <1>3 DEF View
    <2>2. \A e : e \in Told' <=> e \in Ends \ closed' /\ V.told[e] = TRUE /\ V.last[e] = Len(received[e])
      BY <1>3 DEF View
    <2> QED BY <1>2, <2>1, <2>2
  <1>5. CASE some = {}
    <2>1. closed' = closed /\ Told' = Told
      BY <1>2, <1>4, <1>5
    <2> QED BY <2>1 DEF Pipe!vars
  <1>6. CASE some # {}
    <2>1. Pipe!Close(some)
      BY <1>2, <1>4, <1>6 DEF Pipe!Close
    <2>2. some \in SUBSET Pipe!Ends
      BY <1>2, PipeEnds
    <2> QED BY <2>1, <2>2 DEF Pipe!Next
  <1> QED BY <1>5, <1>6

\* A step in which one end may be told of a closure.
LEMMA TellingStep ==
    ASSUME Merges = {}, NEW V, V.gone = closed, View(V), NEW V2, View(V2)',
           Follows(V2, V, closed', closed), UNCHANGED <<sent, received>>
    PROVE  [Pipe!Next]_Pipe!vars
  <1>1. CASE V2 = V
    BY <1>1, ClosingStep
  <1>2. CASE V2 # V
    <2>1. PICK e \in Ends :
             /\ V2.told[e] = TRUE
             /\ \A f \in Ends : f # e => V2.told[f] = V.told[f] /\ V2.last[f] = V.last[f]
      BY <1>2 DEF Follows
    <2>2. closed' = closed
      BY <1>2 DEF Follows
    <2>3. merged = {} /\ merged' = {} /\ mate = [f \in Ends |-> Other(f)] /\ mate' = mate
      BY DEF View
    <2>4. mate[e] = Other(e)
      BY <2>3
    <2>5. \A f : f \in Told <=> f \in Ends \ closed /\ V.told[f] = TRUE /\ V.last[f] = Len(received[f])
      BY <2>3 DEF View
    <2>6. \A f : f \in Told' <=> f \in Ends \ closed /\ V2.told[f] = TRUE /\ V2.last[f] = Len(received[f])
      BY <2>2, <2>3 DEF View
    <2>7. e \notin closed => /\ Other(e) \in closed /\ V2.last[e] = sent[Other(e)]
                             /\ V.told[e] = TRUE => V.last[e] = sent[Other(e)]
      <3>1. e \notin closed => (V.told[e] = TRUE => V.last[e] = sent[Other(e)])
        BY <2>3, <2>4 DEF View
      <3>2. e \notin closed => Other(e) \in closed /\ V2.last[e] = sent[Other(e)]
        BY <2>1, <2>2, <2>3, <2>4 DEF View
      <3> QED BY <3>1, <3>2
    <2>8. CASE e \in closed \/ V2.last[e] # Len(received[e])
      <3>1. Told' = Told
        BY <2>1, <2>5, <2>6, <2>7, <2>8
      <3> QED BY <2>2, <3>1 DEF Pipe!vars
    <2>9. CASE e \notin closed /\ V2.last[e] = Len(received[e])
      <3>1. Told' = Told \cup {e}
        BY <2>1, <2>5, <2>6, <2>7, <2>9
      <3>2. Pipe!Finished(e)
        BY <2>7, <2>9, PipeEnds DEF Pipe!Finished
      <3>3. Pipe!Tell(e)
        BY <2>2, <2>9, <3>1, <3>2 DEF Pipe!Tell
      <3> QED BY <3>3, PipeEnds DEF Pipe!Next
    <2> QED BY <2>8, <2>9
  <1> QED BY <1>1, <1>2

\* SendUserMessage is a Send: a port that knows of a closure refuses.
LEMMA SendIsSend ==
    ASSUME Merges = {}, NEW V, IInvAt(V), NEW p \in held, SendUserMessage(p)
    PROVE  Pipe!Next
  <1>1. PICK e : e = ports[p].end
    OBVIOUS
  <1>2. /\ sent' = [sent EXCEPT ![e] = @ + 1] /\ received' = received
        /\ ~ports[p].peer_closed
    <2>1. PICK attached \in Attachable(p) :
            ~Refused(p, attached) /\ sent' = [sent EXCEPT ![e] = @ + 1] /\ received' = received
      BY <1>1 DEF SendUserMessage
    <2> QED BY <2>1 DEF Refused
  <1>3. IInvAt(V)' /\ closed' = closed
    BY SendUserMessageStep
  <1>4. View(V) /\ View(V)'
    BY <1>3, ViewHolds
  <1>5. e \in Ends \ closed /\ V.told[e] # TRUE
    <2>1. PICK E, d, o : Safe(ports, names, held, closed, mate, merged, E, sent, received, V, d, o)
      BY DEF IInvAt, Sound
    <2>2. p \in DOMAIN ports /\ Receiving(ports, p)
      BY <2>1 DEF Safe, WellTyped, Carry
    <2>3. ports[p] \in PortRecord(names)
      BY <2>1, <2>2 DEF Safe, WellTyped
    <2>4. e \in Ends
      BY <1>1, <2>3 DEF PortRecord
    <2>5. e \notin closed
      BY <1>1, <2>1, <2>2 DEF Safe, Single
    <2>6. ports[p].peer_closed = V.told[e]
      BY <1>1, <2>1, <2>2 DEF Safe, Notified
    <2> QED BY <1>2, <2>4, <2>5, <2>6
  <1>6. e \notin closed \cup Told
    BY <1>4, <1>5 DEF View
  <1>7. Told' = Told
    <2>1. merged = {} /\ merged' = {}
      BY <1>4 DEF View
    <2>2. \A f : f \in Told <=> f \in Ends \ closed /\ V.told[f] = TRUE /\ V.last[f] = Len(received[f])
      BY <1>4, <2>1 DEF View
    <2>3. \A f : f \in Told' <=> f \in Ends \ closed /\ V.told[f] = TRUE /\ V.last[f] = Len(received[f])
      BY <1>2, <1>3, <1>4, <2>1 DEF View
    <2> QED BY <2>2, <2>3
  <1>8. Pipe!Send(e)
    BY <1>2, <1>3, <1>6, <1>7 DEF Pipe!Send
  <1> QED BY <1>5, <1>8, PipeEnds DEF Pipe!Next

\* GetMessage is a Receive.
LEMMA GetIsReceive ==
    ASSUME Merges = {}, NEW V, IInvAt(V), NEW p \in held, GetMessage(p)
    PROVE  Pipe!Next
  <1>1. PICK e, b : e = ports[p].end /\ b = NextMessage(ports[p]).body
    OBVIOUS
  <1>2. received' = [received EXCEPT ![e] = Append(@, b)] /\ UNCHANGED <<sent, closed, mate, merged>>
    BY <1>1 DEF GetMessage
  <1>3. IInvAt(V)'
    BY GetMessageStep
  <1>4. View(V) /\ View(V)'
    BY <1>3, ViewHolds
  <1>5. e \in Ends \ closed
    <2>1. PICK E, d, o : Safe(ports, names, held, closed, mate, merged, E, sent, received, V, d, o)
      BY DEF IInvAt, Sound
    <2>2. p \in DOMAIN ports /\ Receiving(ports, p)
      BY <2>1 DEF Safe, WellTyped, Carry
    <2>3. ports[p] \in PortRecord(names)
      BY <2>1, <2>2 DEF Safe, WellTyped
    <2>4. e \in Ends
      BY <1>1, <2>3 DEF PortRecord
    <2>5. e \notin closed
      BY <1>1, <2>1, <2>2 DEF Safe, Single
    <2> QED BY <2>4, <2>5
  <1>6. PICK s, s2 : s = received[e] /\ s2 = received'[e]
    OBVIOUS
  <1>7. /\ received \in [Ends -> Seq([end : Ends, index : Nat])]
        /\ received' \in [Ends -> Seq([end : Ends, index : Nat])]
        /\ sent \in [Ends -> Nat] /\ mate[e] = Other(e) /\ Other(e) \in Ends
    <2>1. /\ received \in [Ends -> Seq([end : Ends, index : Nat])] /\ sent \in [Ends -> Nat]
          /\ mate = [f \in Ends |-> Other(f)]
      BY <1>4 DEF View
    <2>2. received' \in [Ends -> Seq([end : Ends, index : Nat])]
      BY <1>4 DEF View
    <2>3. Other(e) \in Ends
      BY <1>5, PipeEnds
    <2> QED BY <1>5, <2>1, <2>2, <2>3
  <1>8. s \in Seq([end : Ends, index : Nat]) /\ s2 = Append(s, b)
    BY <1>2, <1>5, <1>6, <1>7
  <1>9. PICK k \in Nat : k = Len(s)
    BY <1>8
  <1>10. Len(s2) = k + 1 /\ s2[k + 1] = b
    BY <1>8, <1>9, AppendProperties
  <1>11. k + 1 <= sent[Other(e)] /\ b = [end |-> Other(e), index |-> k + 1]
    <2>1. PICK E, d, o : Safe(ports', names', held', closed', mate', merged', E, sent', received', V, d, o)
      BY <1>3 DEF IInvAt, Sound
    <2>2. /\ Len(s2) <= sent'[mate'[e]]
          /\ \A i \in 1 .. Len(s2) : s2[i] = [end |-> mate'[e], index |-> i]
      BY <1>5, <1>6, <2>1 DEF Safe, Numbers
    <2>3. k + 1 \in 1 .. (k + 1)
      OBVIOUS
    <2> QED BY <1>2, <1>7, <1>10, <2>2, <2>3
  <1>12. k < sent[Other(e)]
    BY <1>7, <1>11
  <1>13. received' = [received EXCEPT ![e] =
                        Append(@, [end |-> Other(e), index |-> Len(@) + 1])]
    BY <1>2, <1>6, <1>9, <1>11
  <1>14. e \notin Told
    BY <1>4, <1>6, <1>7, <1>9, <1>12 DEF View
  <1>15. \A f \in Ends : f # e => received'[f] = received[f]
    BY <1>2, <1>7
  <1>16. Told' \in {Told, Told \cup {e}}
    <2>1. merged = {} /\ merged' = {} /\ closed' = closed
      BY <1>2, <1>4 DEF View
    <2>2. \A f : f \in Told <=> f \in Ends \ closed /\ V.told[f] = TRUE /\ V.last[f] = Len(received[f])
      BY <1>4, <2>1 DEF View
    <2>3. \A f : f \in Told' <=> f \in Ends \ closed /\ V.told[f] = TRUE /\ V.last[f] = Len(received'[f])
      BY <1>4, <2>1 DEF View
    <2>4. \A f : f # e => (f \in Told' <=> f \in Told)
      BY <1>15, <2>2, <2>3
    <2> QED BY <1>14, <2>4
  <1>17. e \in Told' => Other(e) \in closed' /\ Len(received'[e]) = sent'[Other(e)]
    BY <1>2, <1>4, <1>7 DEF View
  <1>18. e \in Told' => Pipe!Finished(e)'
    BY <1>5, <1>17, PipeEnds DEF Pipe!Finished
  <1>19. Pipe!Receive(e)
    BY <1>2, <1>5, <1>6, <1>9, <1>12, <1>13, <1>16, <1>18, PipeEnds DEF Pipe!Receive
  <1> QED BY <1>5, <1>19, PipeEnds DEF Pipe!Next

\* Every step is one of the pipes, or none.
LEMMA NextIsPipe ==
    ASSUME Merges = {}
    PROVE  IInv /\ [Next]_vars => [Pipe!Next]_Pipe!vars
  <1> SUFFICES ASSUME IInv, [Next]_vars PROVE [Pipe!Next]_Pipe!vars
    OBVIOUS
  <1>1. PICK V : V.gone = closed /\ IInvAt(V)
    BY Renewed DEF IInv
  <1>2. View(V)
    BY <1>1, ViewHolds
  <1>3. ASSUME IInvAt(V)', UNCHANGED <<sent, received>> PROVE [Pipe!Next]_Pipe!vars
    <2>1. View(V)'
      BY <1>3, ViewHolds
    <2> QED BY <1>1, <1>2, <1>3, <2>1, ClosingStep
  <1>4. ASSUME \E V2 : IInvAt(V2)' /\ Follows(V2, V, closed', closed), UNCHANGED <<sent, received>>
        PROVE  [Pipe!Next]_Pipe!vars
    <2>1. PICK V2 : IInvAt(V2)' /\ Follows(V2, V, closed', closed)
      BY <1>4
    <2>2. View(V2)'
      BY <2>1, ViewHolds
    <2> QED BY <1>1, <1>2, <1>4, <2>1, <2>2, TellingStep
  <1>5. ASSUME NEW p \in held, SendUserMessage(p) PROVE Pipe!Next
    BY <1>1, <1>5, SendIsSend
  <1>6. ASSUME NEW p \in held, GetMessage(p) PROVE Pipe!Next
    BY <1>1, <1>6, GetIsReceive
  <1>7. ASSUME NEW p \in held, SendUserMessageFails(p) PROVE [Pipe!Next]_Pipe!vars
    <2>1. UNCHANGED <<sent, received>>
      BY <1>7 DEF SendUserMessageFails
    <2>2. IInvAt(V)'
      BY <1>1, <1>7, SendFailsStep
    <2> QED BY <1>3, <2>1, <2>2
  <1>8. ASSUME NEW p \in held, ClosePort(p) PROVE [Pipe!Next]_Pipe!vars
    <2>1. UNCHANGED <<sent, received>>
      BY <1>8 DEF ClosePort
    <2>2. IInvAt(V)'
      BY <1>1, <1>8, ClosePortStep
    <2> QED BY <1>3, <2>1, <2>2
  <1>9. ASSUME NEW n \in Nodes, NEW t \in Threads, SendPeerEvent(n, t)
        PROVE  [Pipe!Next]_Pipe!vars
    <2>1. UNCHANGED <<sent, received>>
      BY <1>9 DEF SendPeerEvent
    <2>2. IInvAt(V)'
      BY <1>1, <1>9, SendPeerEventStep
    <2> QED BY <1>3, <2>1, <2>2
  <1>10. ASSUME NEW n \in Nodes, NEW t \in Threads, AcceptLocalEvent(n, t)
         PROVE  [Pipe!Next]_Pipe!vars
    <2>1. UNCHANGED <<sent, received>>
      BY <1>10 DEF AcceptLocalEvent
    <2>2. \E V2 : IInvAt(V2)' /\ Follows(V2, V, closed', closed)
      BY <1>1, <1>10, AcceptLocalEventStep
    <2> QED BY <1>4, <2>1, <2>2
  <1>11. ASSUME NEW m \in Nodes, NEW n \in Nodes, OnEventMessage(m, n)
         PROVE  [Pipe!Next]_Pipe!vars
    <2>1. UNCHANGED <<sent, received>>
      BY <1>11 DEF OnEventMessage
    <2>2. \E V2 : IInvAt(V2)' /\ Follows(V2, V, closed', closed)
      BY <1>1, <1>11, OnEventMessageStep
    <2> QED BY <1>4, <2>1, <2>2
  <1>12. /\ \A p, q : ~MergeLocalPorts(p, q)
         /\ \A p, e : ~MergePorts(p, e)
    BY DEF MergeLocalPorts, MergePorts
  <1>13. CASE UNCHANGED vars
    <2>1. UNCHANGED <<sent, received>>
      BY <1>13 DEF vars
    <2>2. IInvAt(V)'
      <3>1. /\ Sound(V)' = Sound(V) /\ Places' = Places /\ ports' = ports
        BY <1>13 DEF Sound, Places, vars
      <3> QED BY <1>1, <3>1 DEF IInvAt
    <2> QED BY <1>3, <2>1, <2>2
  <1>14. CASE Embedder
    BY <1>5, <1>6, <1>7, <1>8, <1>12, <1>14 DEF Embedder
  <1>15. CASE \E n \in Nodes, t \in Threads : Thread(n, t)
    BY <1>9, <1>10, <1>15 DEF Thread
  <1> QED BY <1>11, <1>12, <1>13, <1>14, <1>15 DEF Next

\* The pipes start empty.
LEMMA InitIsPipe == Init => Pipe!Init
  <1> SUFFICES ASSUME Init PROVE Pipe!Init
    OBVIOUS
  <1>1. PICK V : IInvAt(V)
    BY InitIInv DEF IInv
  <1>2. View(V)
    BY <1>1, ViewHolds
  <1>3. /\ sent = [e \in Ends |-> 0] /\ received = [e \in Ends |-> << >>]
        /\ closed = {} /\ mate = [e \in Ends |-> Other(e)] /\ merged = {}
    BY DEF Init
  <1>4. Told = {}
    BY <1>2, <1>3 DEF View
  <1> QED BY <1>3, <1>4, PipeEnds DEF Pipe!Init

\* Whatever moves, and whatever routes the events take, the embedders see message pipes: each
\* end reads what the other one sent, and learns that it is closed when nothing is left to
\* read.  Where pipes are merged their ends change mates, so none may be.
THEOREM Refinement ==
    ASSUME Merges = {}
    PROVE  Spec => ImplementsMessagePipe
  <1>1. Init => Pipe!Init
    BY InitIsPipe
  <1>2. IInv /\ [Next]_vars => [Pipe!Next]_Pipe!vars
    BY NextIsPipe
  <1> QED BY <1>1, <1>2, Invariant, PTL DEF Spec, Pipe!Spec, ImplementsMessagePipe

==============================================================================
