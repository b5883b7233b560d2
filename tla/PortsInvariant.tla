--------------------------- MODULE PortsInvariant ---------------------------
(***************************************************************************)
(* The inductive invariant of Ports.  It is stated of explicit arguments,   *)
(* so that the proofs can apply it to the worlds a handler passes through:  *)
(*   P, N, H, C, M, G  the ports, names, held, closed, mate and merged;     *)
(*   S, R              the sent and received;                               *)
(*   E                 the events under way, a function on their places;    *)
(*   d                 d[e]: the end that what is sent towards a port of    *)
(*                     end e reaches, as merges leave it;                   *)
(*   o                 o[a]: the end of the port that has, had or will have *)
(*                     the address a;                                       *)
(*   V                 V.told[e], V.last[e]: what the place of end e knows  *)
(*                     of its peer's closure; V.gone: some closed ends.     *)
(* The last three are not kept by the program: they exist.                  *)
(***************************************************************************)
EXTENDS Ports

Addr(n) == Nodes \X (1 .. n)

AtMostOne(S) == {s \in Seq(S) : Len(s) <= 1}

DescriptorRecord(n) ==
    [ end                          : Ends,
      peer                         : Addr(n),
      referring                    : Addr(n),
      next_sequence_num_to_send    : Nat,
      next_sequence_num_to_receive : Nat,
      last_sequence_num_to_receive : Nat,
      peer_closed                  : BOOLEAN ]

Message(n) ==
    [ type         : {"UserMessage"},
      port_name    : Addr(n),
      sequence_num : Nat \ {0},
      body         : [end : Ends, index : Nat],
      ports        : AtMostOne(Addr(n)),
      descriptors  : AtMostOne(DescriptorRecord(n)) ]

MergeRequest(n) ==
    [ type        : {"MergePort"},
      port_name   : Addr(n),
      ports       : AtMostOne(Addr(n)),
      descriptors : AtMostOne(DescriptorRecord(n)) ]

Acceptance(n) == [type : {"PortAccepted"}, port_name : Addr(n)]

Announcement(n) ==
    [type : {"ObserveProxy"}, port_name : Addr(n), proxy : Addr(n), proxy_target : Addr(n)]

Acknowledgement(n) ==
    [ type              : {"ObserveProxyAck"},
      port_name         : Addr(n),
      last_sequence_num : Nat \cup {InvalidSequenceNum} ]

Closure(n) ==
    [type : {"ObserveClosure"}, port_name : Addr(n), last_sequence_num : Nat]

Event(n) ==
    Message(n) \cup MergeRequest(n) \cup Acceptance(n) \cup Announcement(n)
      \cup Acknowledgement(n) \cup Closure(n)

PortRecord(n) ==
    [ end                          : Ends,
      state                        : {"Receiving", "Buffering", "Proxying"},
      peer                         : Addr(n),
      next_sequence_num_to_send    : Nat \ {0},
      next_sequence_num            : Nat \ {0},
      message_queue                : SUBSET Message(n),
      last_sequence_num_to_receive : Nat,
      peer_closed                  : BOOLEAN,
      remove_proxy_on_last_message : BOOLEAN,
      send_on_proxy_removal        : AtMostOne(Acknowledgement(n)) ]

WellTyped(P, N, H, C, M, G, E, S, R, d, o) ==
    /\ N \in Nat /\ 2 * Len(Pipes) <= N
    /\ DOMAIN P \subseteq Addr(N)
    /\ IsFiniteSet(DOMAIN P)
    /\ \A p \in DOMAIN P : P[p] \in PortRecord(N) /\ IsFiniteSet(P[p].message_queue)
    /\ H \subseteq DOMAIN P
    /\ C \subseteq Ends /\ G \subseteq Ends
    /\ M \in [Ends -> Ends]
    /\ \A x \in DOMAIN E : E[x] \in Event(N)
    /\ S \in [Ends -> Nat]
    /\ R \in [Ends -> Seq([end : Ends, index : Nat])]
    /\ d \in [Ends -> Ends]
    /\ o \in [Addr(N) -> Ends]

(* The port or the new address that event e carries, if it does.            *)
Carried(e) == e.ports[1]

(* Message e brings a port that lives already; event e brings one that will *)
(* live at the address Carried(e), as Described(e) says.                    *)
Attaching(e) == e.type = "UserMessage" /\ e.descriptors = << >> /\ e.ports # << >>
Moving(e) == e.type \in {"UserMessage", "MergePort"} /\ e.descriptors # << >>
Described(e) == e.descriptors[1]

Receiving(P, p) == P[p].state = "Receiving"

(* The port q may be carried by a message.                                  *)
Loose(P, H, q) ==
    /\ q \in DOMAIN P \ H
    /\ Receiving(P, q)
    /\ P[q].end \notin ToMerge

(* Whoever carries a port is the only one to use it.                        *)
Carry(P, H, E) ==
    /\ \A p \in H : Receiving(P, p)
    /\ \A p \in DOMAIN P : p[2] <= 2 * Len(Pipes) => p = Home(P[p].end)
    /\ \A p \in DOMAIN P : \A m \in P[p].message_queue :
          /\ m.port_name = p
          /\ m.descriptors = << >>
          /\ m.ports # << >> => Loose(P, H, Carried(m)) /\ Carried(m)[1] = p[1]
    /\ \A p, q \in DOMAIN P :
          \A m \in P[p].message_queue, k \in P[q].message_queue :
              m.ports # << >> /\ k.ports # << >> /\ Carried(m) = Carried(k) =>
                  p = q /\ m = k
    /\ \A x \in DOMAIN E : Attaching(E[x]) =>
          /\ Loose(P, H, Carried(E[x]))
          /\ \A p \in DOMAIN P : \A m \in P[p].message_queue :
                m.ports # << >> => Carried(m) # Carried(E[x])
    /\ \A x, y \in DOMAIN E :
          Attaching(E[x]) /\ Attaching(E[y]) /\ Carried(E[x]) = Carried(E[y]) => x = y

(* The address a is not one that a port will yet have.                      *)
NotUnborn(E, a) == \A x \in DOMAIN E : Moving(E[x]) => Carried(E[x]) # a

(* The address a of a proxy that has been announced.                        *)
Announced(P, E, a) ==
    /\ a \in DOMAIN P => P[a].state = "Proxying"
    /\ NotUnborn(E, a)

(* A port that moves has one proxy, which buffers until the new port has    *)
(* been accepted; only then is the proxy announced.                         *)
Moves(P, E) ==
    /\ \A x \in DOMAIN E : Moving(E[x]) =>
          /\ E[x].ports # << >>
          /\ Carried(E[x]) \notin DOMAIN P
          /\ Carried(E[x])[2] > 2 * Len(Pipes)
          /\ Carried(E[x])[1] = E[x].port_name[1]
          /\ Described(E[x]).referring \in DOMAIN P
          /\ P[Described(E[x]).referring].state = "Buffering"
          /\ E[x].type = "UserMessage" => Described(E[x]).end \notin ToMerge
    /\ \A x, y \in DOMAIN E : Moving(E[x]) /\ Moving(E[y]) /\ x # y =>
          /\ Carried(E[x]) # Carried(E[y])
          /\ Described(E[x]).referring # Described(E[y]).referring
    /\ \A x \in DOMAIN E : E[x].type = "PortAccepted" =>
          /\ E[x].port_name \in DOMAIN P
          /\ P[E[x].port_name].state = "Buffering"
          /\ \A y \in DOMAIN E :
                /\ E[y].type = "PortAccepted" /\ E[y].port_name = E[x].port_name => x = y
                /\ Moving(E[y]) => Described(E[y]).referring # E[x].port_name
    /\ \A x \in DOMAIN E : E[x].type = "MergePort" =>
          /\ Moving(E[x])
          /\ \E e \in ToMerge : E[x].port_name = Home(e)
    /\ \A x \in DOMAIN E : E[x].type = "ObserveProxy" => Announced(P, E, E[x].proxy)
    /\ \A x \in DOMAIN E : E[x].type = "ObserveProxyAck" => Announced(P, E, E[x].port_name)
    /\ \A p \in DOMAIN P : P[p].send_on_proxy_removal # << >> =>
          Announced(P, E, P[p].send_on_proxy_removal[1].port_name)

(* An end that is open is one receiving port, or one description of it.     *)
Single(P, E, C, G) ==
    /\ \A p \in DOMAIN P : Receiving(P, p) =>
          /\ P[p].end \notin C \cup G
          /\ \A q \in DOMAIN P : Receiving(P, q) /\ P[q].end = P[p].end => p = q
          /\ \A x \in DOMAIN E : Moving(E[x]) => Described(E[x]).end # P[p].end
    /\ \A x \in DOMAIN E : Moving(E[x]) =>
          /\ Described(E[x]).end \notin C \cup G
          /\ \A y \in DOMAIN E :
                Moving(E[y]) /\ Described(E[y]).end = Described(E[x]).end => x = y
    /\ \A e \in Ends \ (C \cup G) :
          \/ \E p \in DOMAIN P : Receiving(P, p) /\ P[p].end = e
          \/ \E x \in DOMAIN E : Moving(E[x]) /\ Described(E[x]).end = e

(* The ends that no merge has taken are joined in pairs.                    *)
Mated(M, G, d) ==
    \A e \in Ends \ G : d[e] = e /\ M[M[e]] = e /\ M[e] # e /\ M[e] \notin G

(* Every pointer leads towards the end it should.                           *)
Routes(P, E, M, G, d, o) ==
    /\ Mated(M, G, d)
    /\ \A p \in DOMAIN P :
          /\ o[p] = P[p].end
          /\ d[o[P[p].peer]] = IF Receiving(P, p) THEN M[P[p].end] ELSE d[P[p].end]
          /\ \A m \in P[p].message_queue : M[m.body.end] = d[P[p].end]
    /\ \A x \in DOMAIN E : Moving(E[x]) =>
          /\ o[Carried(E[x])] = Described(E[x]).end
          /\ d[o[Described(E[x]).peer]] = M[Described(E[x]).end]
    /\ \A x \in DOMAIN E :
          /\ E[x].type = "UserMessage" => M[E[x].body.end] = d[o[E[x].port_name]]
          /\ E[x].type = "ObserveProxy" => d[o[E[x].proxy]] = d[o[E[x].proxy_target]]

(* Messages are numbered, and read, from 1 on.                              *)
Numbered(m, S) ==
    /\ m.body.index = m.sequence_num
    /\ m.sequence_num <= S[m.body.end]

Numbers(P, E, S, R, M, G) ==
    /\ \A e \in G : S[e] = 0
    /\ \A p \in DOMAIN P :
          /\ \A m \in P[p].message_queue : Numbered(m, S)
          /\ Receiving(P, p) =>
                /\ P[p].next_sequence_num_to_send = S[P[p].end] + 1
                /\ P[p].next_sequence_num = Len(R[P[p].end]) + 1
    /\ \A x \in DOMAIN E :
          /\ E[x].type = "UserMessage" => Numbered(E[x], S)
          /\ Moving(E[x]) =>
                /\ Described(E[x]).next_sequence_num_to_send = S[Described(E[x]).end] + 1
                /\ Described(E[x]).next_sequence_num_to_receive
                     = Len(R[Described(E[x]).end]) + 1
    /\ \A e \in Ends :
          /\ Len(R[e]) <= S[M[e]]
          /\ \A i \in 1 .. Len(R[e]) : R[e][i] = [end |-> M[e], index |-> i]

(* The end e may be told that its peer is closed, and that its last message *)
(* is the one numbered last; one that is gone may be told anything.         *)
Tellable(e, last, S, M, C, G) ==
    e \in C \cup G \/ (M[e] \in C /\ last = S[M[e]])

(* What is known of a closure is true.                                      *)
Closures(P, E, S, M, C, G, d, o) ==
    /\ \A p \in DOMAIN P :
          /\ Receiving(P, p) => ~P[p].remove_proxy_on_last_message
          /\ Receiving(P, p) /\ P[p].peer_closed =>
                Tellable(P[p].end, P[p].last_sequence_num_to_receive, S, M, C, G)
          /\ P[p].state = "Buffering" /\ P[p].remove_proxy_on_last_message =>
                Tellable(d[P[p].end], P[p].last_sequence_num_to_receive, S, M, C, G)
    /\ \A x \in DOMAIN E :
          /\ Moving(E[x]) /\ Described(E[x]).peer_closed =>
                Tellable(Described(E[x]).end,
                         Described(E[x]).last_sequence_num_to_receive, S, M, C, G)
          /\ E[x].type = "ObserveClosure" =>
                Tellable(d[o[E[x].port_name]], E[x].last_sequence_num, S, M, C, G)

(* V holds for every end what its place, a receiving port or a description, *)
(* knows of a closure, and ends that have been closed.                      *)
Notified(P, E, C, V) ==
    /\ V.gone \subseteq C
    /\ \A p \in DOMAIN P : Receiving(P, p) =>
          /\ P[p].peer_closed = V.told[P[p].end]
          /\ P[p].last_sequence_num_to_receive = V.last[P[p].end]
    /\ \A x \in DOMAIN E : Moving(E[x]) =>
          /\ Described(E[x]).peer_closed = V.told[Described(E[x]).end]
          /\ Described(E[x]).last_sequence_num_to_receive = V.last[Described(E[x]).end]

(* Pipes are as they were made where nothing may be merged.                 *)
Unmerged(M, G) == Merges = {} => G = {} /\ M = [e \in Ends |-> Other(e)]

Safe(P, N, H, C, M, G, E, S, R, V, d, o) ==
    /\ WellTyped(P, N, H, C, M, G, E, S, R, d, o)
    /\ Carry(P, H, E)
    /\ Moves(P, E)
    /\ Single(P, E, C, G)
    /\ Routes(P, E, M, G, d, o)
    /\ Numbers(P, E, S, R, M, G)
    /\ Closures(P, E, S, M, C, G, d, o)
    /\ Notified(P, E, C, V)
    /\ Unmerged(M, G)

-----------------------------------------------------------------------------
(* What a handler has in its hands between two of its steps.                *)

(* E2 has one event more than E: e, at x.                                   *)
Extends(E2, E, x, e) ==
    /\ x \notin DOMAIN E
    /\ DOMAIN E2 = DOMAIN E \cup {x}
    /\ E2[x] = e
    /\ \A y \in DOMAIN E : E2[y] = E[y]

(* Nobody holds or carries the port q, which receives.                      *)
Unattached(P, H, E, q) ==
    /\ q \in DOMAIN P \ H
    /\ Receiving(P, q)
    /\ \A p \in DOMAIN P : \A m \in P[p].message_queue :
          m.ports # << >> => Carried(m) # q
    /\ \A x \in DOMAIN E : Attaching(E[x]) => Carried(E[x]) # q

(* The message m may go to the address a.                                   *)
Deliverable(m, a, S, M, d, o) == M[m.body.end] = d[o[a]] /\ Numbered(m, S)

(* Only port p differs between P2 and P.                                    *)
Changes(P2, P, p) ==
    /\ DOMAIN P2 = DOMAIN P
    /\ \A q \in DOMAIN P \ {p} : P2[q] = P[q]

-----------------------------------------------------------------------------
(* Where the events are: an event on a thread that brings a living port is  *)
(* for that thread's node, where the port lives; what a channel carries is  *)
(* for the node it leads to, and brings no living port.                     *)
InPlace(n, e) == Attaching(e) => e.port_name[1] = n /\ Carried(e)[1] = n

Places ==
    /\ stack \in [Nodes -> [Threads -> Seq(Event(names))]]
    /\ chan \in [Nodes -> [Nodes -> Seq(Event(names))]]
    /\ \A n \in Nodes, t \in Threads : \A i \in DOMAIN stack[n][t] :
          InPlace(n, stack[n][t][i])
    /\ \A m, n \in Nodes : \A i \in DOMAIN chan[m][n] :
          /\ chan[m][n][i].port_name[1] = n
          /\ ~Attaching(chan[m][n][i])

Tokens == [u \in UnderWay |-> u.event]

=============================================================================
