----------------------------- MODULE PortsFacts -----------------------------
(***************************************************************************)
(* The steps that the handlers of Ports are made of, and the proof that     *)
(* each of them preserves the invariant of PortsInvariant.                  *)
(***************************************************************************)
EXTENDS PortsInvariant, DataFacts

-----------------------------------------------------------------------------
(* Types.                                                                   *)

\* A sequence of at most one element.
LEMMA AtMostOneFacts ==
    ASSUME NEW T
    PROVE  /\ << >> \in AtMostOne(T)
           /\ \A x \in T : <<x>> \in AtMostOne(T) /\ <<x>> # << >> /\ <<x>>[1] = x
           /\ \A s \in AtMostOne(T) : s # << >> => s[1] \in T /\ s = <<s[1]>>
  <1>1. ASSUME NEW s \in AtMostOne(T), s # << >>
        PROVE  s[1] \in T /\ s = <<s[1]>>
    <2>1. s \in Seq(T) /\ Len(s) <= 1
      BY DEF AtMostOne
    <2>0. Len(s) \in Nat \ {0}
      BY <1>1, <2>1, EmptySeq, Zenon
    <2>2. PICK n \in Nat : n = Len(s)
      BY <2>1
    <2>b. n = 1
      BY <2>0, <2>1, <2>2
    <2>c. 1 \in 1 .. Len(s)
      BY <2>0
    <2>3. s[1] \in T
      BY <2>1, <2>c, ElementOfSeq
    <2>4. <<s[1]>> \in Seq(T) /\ Len(<<s[1]>>) = 1 /\ <<s[1]>>[1] = s[1]
      BY <2>3
    <2>5. Len(s) = Len(<<s[1]>>) /\ \A i \in 1 .. Len(s) : s[i] = <<s[1]>>[i]
      BY <2>2, <2>b, <2>4
    <2>6. s = <<s[1]>>
      BY <2>1, <2>4, <2>5, SeqEqual
    <2> QED BY <2>3, <2>6
  <1>2. << >> \in AtMostOne(T)
    BY DEF AtMostOne
  <1>3. ASSUME NEW x \in T PROVE <<x>> \in AtMostOne(T) /\ <<x>> # << >> /\ <<x>>[1] = x
    BY DEF AtMostOne
  <1> QED BY <1>1, <1>2, <1>3

\* More names, more addresses.
LEMMA AddrGrows ==
    ASSUME NEW n \in Nat, NEW k \in Nat, n <= k
    PROVE  Addr(n) \subseteq Addr(k)
  BY DEF Addr

\* So do the sequences over them,
LEMMA AtMostOneGrows ==
    ASSUME NEW A, NEW B, A \subseteq B
    PROVE  AtMostOne(A) \subseteq AtMostOne(B)
  BY DEF AtMostOne

\* and the types of records that name them.
LEMMA TypesGrow ==
    ASSUME NEW n \in Nat, NEW k \in Nat, n <= k
    PROVE  /\ DescriptorRecord(n) \subseteq DescriptorRecord(k)
           /\ Message(n) \subseteq Message(k)
           /\ Acknowledgement(n) \subseteq Acknowledgement(k)
           /\ Event(n) \subseteq Event(k)
           /\ PortRecord(n) \subseteq PortRecord(k)
  <1>0. Addr(n) \subseteq Addr(k)
    BY AddrGrows
  <1>1. DescriptorRecord(n) \subseteq DescriptorRecord(k)
    BY <1>0 DEF DescriptorRecord
  <1>2. /\ AtMostOne(Addr(n)) \subseteq AtMostOne(Addr(k))
        /\ AtMostOne(DescriptorRecord(n)) \subseteq AtMostOne(DescriptorRecord(k))
    BY <1>0, <1>1, AtMostOneGrows
  <1>3. Message(n) \subseteq Message(k)
    BY <1>0, <1>2 DEF Message
  <1>4. Acknowledgement(n) \subseteq Acknowledgement(k)
    BY <1>0 DEF Acknowledgement
  <1>5. AtMostOne(Acknowledgement(n)) \subseteq AtMostOne(Acknowledgement(k))
    BY <1>4, AtMostOneGrows
  <1>6. MergeRequest(n) \subseteq MergeRequest(k)
    BY <1>0, <1>2 DEF MergeRequest
  <1>7. /\ Acceptance(n) \subseteq Acceptance(k)
        /\ Announcement(n) \subseteq Announcement(k)
        /\ Closure(n) \subseteq Closure(k)
    BY <1>0 DEF Acceptance, Announcement, Closure
  <1>8. Event(n) \subseteq Event(k)
    BY <1>3, <1>4, <1>6, <1>7 DEF Event
  <1>9. PortRecord(n) \subseteq PortRecord(k)
    BY <1>0, <1>3, <1>5 DEF PortRecord
  <1> QED BY <1>1, <1>3, <1>4, <1>8, <1>9

-----------------------------------------------------------------------------
(* Events and what they name.                                               *)

\* The parts of events, by their type.
LEMMA EventTypes ==
    ASSUME NEW N, NEW e \in Event(N)
    PROVE  /\ e.port_name \in Addr(N)
           /\ e.type = "UserMessage" => e \in Message(N)
           /\ e.type = "MergePort" => e \in MergeRequest(N)
           /\ e.type = "PortAccepted" => e \in Acceptance(N)
           /\ e.type = "ObserveProxy" => e \in Announcement(N)
           /\ e.type = "ObserveProxyAck" => e \in Acknowledgement(N)
           /\ e.type = "ObserveClosure" => e \in Closure(N)
           /\ e.type \in {"UserMessage", "MergePort", "PortAccepted", "ObserveProxy",
                          "ObserveProxyAck", "ObserveClosure"}
  BY DEF Event, Message, MergeRequest, Acceptance, Announcement, Acknowledgement, Closure

\* An event that moves a port has one descriptor and one address.
LEMMA MovingTypes ==
    ASSUME NEW N, NEW e \in Event(N), Moving(e)
    PROVE  /\ Described(e) \in DescriptorRecord(N)
           /\ e.descriptors = <<Described(e)>>
           /\ e.ports # << >> => Carried(e) \in Addr(N) /\ e.ports = <<Carried(e)>>
  <1>1. e.ports \in AtMostOne(Addr(N)) /\ e.descriptors \in AtMostOne(DescriptorRecord(N))
    BY EventTypes DEF Moving, Message, MergeRequest
  <1>2. e.descriptors[1] \in DescriptorRecord(N) /\ e.descriptors = <<e.descriptors[1]>>
    BY <1>1, AtMostOneFacts DEF Moving
  <1>3. e.ports # << >> => e.ports[1] \in Addr(N) /\ e.ports = <<e.ports[1]>>
    BY <1>1, AtMostOneFacts
  <1> QED BY <1>2, <1>3 DEF Carried, Described

\* The addresses that ports and events name have been generated.
LEMMA AddressesKnown ==
    ASSUME NEW P, NEW N, NEW H, NEW C, NEW M, NEW G, NEW E, NEW S, NEW R, NEW V, NEW d, NEW o,
           Safe(P, N, H, C, M, G, E, S, R, V, d, o)
    PROVE  /\ \A y \in DOMAIN E : Moving(E[y]) =>
                 /\ Carried(E[y]) \in Addr(N)
                 /\ Described(E[y]).peer \in Addr(N)
                 /\ Described(E[y]).end \in Ends
           /\ \A y \in DOMAIN E :
                 /\ E[y].port_name \in Addr(N)
                 /\ E[y].type = "ObserveProxy" =>
                       E[y].proxy \in Addr(N) /\ E[y].proxy_target \in Addr(N)
           /\ \A r \in DOMAIN P :
                 /\ r \in Addr(N) /\ P[r].peer \in Addr(N) /\ P[r].end \in Ends
                 /\ P[r].send_on_proxy_removal # << >> =>
                       P[r].send_on_proxy_removal[1].port_name \in Addr(N)
  <1>1. ASSUME NEW y \in DOMAIN E, Moving(E[y])
        PROVE  /\ Carried(E[y]) \in Addr(N)
               /\ Described(E[y]).peer \in Addr(N)
               /\ Described(E[y]).end \in Ends
    <2>1. E[y] \in Event(N) /\ E[y].ports # << >>
      BY <1>1 DEF Safe, WellTyped, Moves
    <2> QED BY <1>1, <2>1, MovingTypes DEF DescriptorRecord
  <1>2. ASSUME NEW y \in DOMAIN E
        PROVE  /\ E[y].port_name \in Addr(N)
               /\ E[y].type = "ObserveProxy" =>
                     E[y].proxy \in Addr(N) /\ E[y].proxy_target \in Addr(N)
    <2>1. E[y] \in Event(N)
      BY DEF Safe, WellTyped
    <2> QED BY <2>1, EventTypes DEF Announcement
  <1>3. ASSUME NEW r \in DOMAIN P
        PROVE  /\ r \in Addr(N) /\ P[r].peer \in Addr(N) /\ P[r].end \in Ends
               /\ P[r].send_on_proxy_removal # << >> =>
                     P[r].send_on_proxy_removal[1].port_name \in Addr(N)
    <2>1. r \in Addr(N) /\ P[r] \in PortRecord(N)
      BY DEF Safe, WellTyped
    <2>2. P[r].send_on_proxy_removal \in AtMostOne(Acknowledgement(N))
          /\ P[r].peer \in Addr(N) /\ P[r].end \in Ends
      BY <2>1 DEF PortRecord
    <2>3. P[r].send_on_proxy_removal # << >> =>
            P[r].send_on_proxy_removal[1] \in Acknowledgement(N)
      BY <2>2, AtMostOneFacts
    <2> QED BY <2>1, <2>2, <2>3 DEF Acknowledgement
  <1> QED BY <1>1, <1>2, <1>3

-----------------------------------------------------------------------------
(* Events come and go.                                                      *)

\* An event that brings no new port may be taken, or dropped.
LEMMA Drop ==
    ASSUME NEW P, NEW N, NEW H, NEW C, NEW M, NEW G, NEW E, NEW S, NEW R, NEW V, NEW d, NEW o,
           Safe(P, N, H, C, M, G, E, S, R, V, d, o),
           NEW E2, NEW x, NEW e, Extends(E, E2, x, e), ~Moving(e)
    PROVE  Safe(P, N, H, C, M, G, E2, S, R, V, d, o)
  <1>0. DOMAIN E2 \subseteq DOMAIN E /\ \A y \in DOMAIN E2 : E2[y] = E[y]
    BY DEF Extends
  <1>1. WellTyped(P, N, H, C, M, G, E2, S, R, d, o)
    BY <1>0 DEF Safe, WellTyped
  <1>2. Carry(P, H, E2)
    BY <1>0 DEF Safe, Carry
  <1>3. Moves(P, E2)
    BY <1>0 DEF Safe, Moves, Announced, NotUnborn
  <1>4. Single(P, E2, C, G)
    <2>1. \A y \in DOMAIN E : Moving(E[y]) => y \in DOMAIN E2
      BY DEF Extends
    <2> QED BY <1>0, <2>1 DEF Safe, Single
  <1>5. Routes(P, E2, M, G, d, o)
    BY <1>0 DEF Safe, Routes
  <1>6. Numbers(P, E2, S, R, M, G)
    BY <1>0 DEF Safe, Numbers
  <1>7. Closures(P, E2, S, M, C, G, d, o)
    BY <1>0 DEF Safe, Closures
  <1>v. Notified(P, E2, C, V)
    BY <1>0 DEF Safe, Notified
  <1> QED BY <1>1, <1>2, <1>3, <1>4, <1>5, <1>6, <1>7, <1>v DEF Safe

\* What an event that is not Moving needs in order to be sent.
Sendable(P, H, E, C, M, G, S, d, o, e) ==
    /\ ~Moving(e)
    /\ e.type # "MergePort"
    /\ Attaching(e) => Unattached(P, H, E, Carried(e)) /\ P[Carried(e)].end \notin ToMerge
    /\ e.type = "UserMessage" => Deliverable(e, e.port_name, S, M, d, o)
    /\ e.type = "PortAccepted" =>
          /\ e.port_name \in DOMAIN P
          /\ P[e.port_name].state = "Buffering"
          /\ \A y \in DOMAIN E :
                /\ E[y].type = "PortAccepted" => E[y].port_name # e.port_name
                /\ Moving(E[y]) => Described(E[y]).referring # e.port_name
    /\ e.type = "ObserveProxy" =>
          Announced(P, E, e.proxy) /\ d[o[e.proxy]] = d[o[e.proxy_target]]
    /\ e.type = "ObserveProxyAck" => Announced(P, E, e.port_name)
    /\ e.type = "ObserveClosure" =>
          Tellable(d[o[e.port_name]], e.last_sequence_num, S, M, C, G)

\* Such an event may be sent.
LEMMA Add ==
    ASSUME NEW P, NEW N, NEW H, NEW C, NEW M, NEW G, NEW E, NEW S, NEW R, NEW V, NEW d, NEW o,
           Safe(P, N, H, C, M, G, E, S, R, V, d, o),
           NEW E2, NEW x, NEW e \in Event(N), Extends(E2, E, x, e),
           Sendable(P, H, E, C, M, G, S, d, o, e)
    PROVE  Safe(P, N, H, C, M, G, E2, S, R, V, d, o)
  <1>0. /\ \A y \in DOMAIN E2 : y = x \/ (y \in DOMAIN E /\ y # x)
        /\ E2[x] = e
        /\ \A y \in DOMAIN E : y \in DOMAIN E2 /\ E2[y] = E[y]
    BY DEF Extends
  <1>1. WellTyped(P, N, H, C, M, G, E2, S, R, d, o)
    BY <1>0 DEF Safe, WellTyped
  <1>2. Carry(P, H, E2)
    BY <1>0 DEF Safe, Carry, Sendable, Unattached, Loose
  <1>3. Moves(P, E2)
    BY <1>0 DEF Safe, Moves, Announced, NotUnborn, Sendable
  <1>4. Single(P, E2, C, G)
    BY <1>0 DEF Safe, Single, Sendable
  <1>5. Routes(P, E2, M, G, d, o)
    BY <1>0 DEF Safe, Routes, Sendable, Deliverable
  <1>6. Numbers(P, E2, S, R, M, G)
    BY <1>0 DEF Safe, Numbers, Sendable, Deliverable
  <1>7. Closures(P, E2, S, M, C, G, d, o)
    BY <1>0 DEF Safe, Closures, Sendable
  <1>v. Notified(P, E2, C, V)
    BY <1>0 DEF Safe, Notified, Sendable
  <1> QED BY <1>1, <1>2, <1>3, <1>4, <1>5, <1>6, <1>7, <1>v DEF Safe

-----------------------------------------------------------------------------
(* A port changes.                                                          *)

\* V2 differs from V in what the port r, if it receives, knows of a closure.
Hears(V2, V, r) ==
    /\ V2.gone = V.gone
    /\ \A e \in Ends : e # r.end \/ r.state # "Receiving" =>
          V2.told[e] = V.told[e] /\ V2.last[e] = V.last[e]
    /\ r.state = "Receiving" =>
          /\ V2.told[r.end] = r.peer_closed
          /\ V2.last[r.end] = r.last_sequence_num_to_receive

\* The fields of port p that are not about what it is, or queues, may change.
LEMMA Update ==
    ASSUME NEW P, NEW N, NEW H, NEW C, NEW M, NEW G, NEW E, NEW S, NEW R, NEW V, NEW d, NEW o,
           Safe(P, N, H, C, M, G, E, S, R, V, d, o),
           NEW P2, NEW p \in DOMAIN P, Changes(P2, P, p),
           P2[p] \in PortRecord(N),
           P2[p].end = P[p].end,
           P2[p].state = P[p].state,
           P2[p].message_queue = P[p].message_queue,
           P2[p].next_sequence_num_to_send = P[p].next_sequence_num_to_send,
           P2[p].next_sequence_num = P[p].next_sequence_num,
           d[o[P2[p].peer]] = d[o[P[p].peer]],
           P2[p].send_on_proxy_removal # << >> =>
              Announced(P, E, P2[p].send_on_proxy_removal[1].port_name),
           Receiving(P, p) => ~P2[p].remove_proxy_on_last_message,
           Receiving(P, p) /\ P2[p].peer_closed =>
              Tellable(P[p].end, P2[p].last_sequence_num_to_receive, S, M, C, G),
           P[p].state = "Buffering" /\ P2[p].remove_proxy_on_last_message =>
              Tellable(d[P[p].end], P2[p].last_sequence_num_to_receive, S, M, C, G),
           NEW V2, Hears(V2, V, P2[p])
    PROVE  Safe(P2, N, H, C, M, G, E, S, R, V2, d, o)
  <1>0. /\ DOMAIN P2 = DOMAIN P
        /\ \A q \in DOMAIN P : q # p => P2[q] = P[q]
        /\ \A q \in DOMAIN P :
              /\ P2[q].state = P[q].state
              /\ P2[q].end = P[q].end
              /\ P2[q].message_queue = P[q].message_queue
              /\ P2[q].next_sequence_num_to_send = P[q].next_sequence_num_to_send
              /\ P2[q].next_sequence_num = P[q].next_sequence_num
    BY DEF Changes
  <1>1. WellTyped(P2, N, H, C, M, G, E, S, R, d, o)
    BY <1>0 DEF Safe, WellTyped
  <1>2. Carry(P2, H, E)
    <2>1. H \subseteq DOMAIN P
      BY DEF Safe, WellTyped
    <2> QED BY <1>0, <2>1 DEF Safe, Carry, Loose, Receiving
  <1>3. Moves(P2, E)
    BY <1>0 DEF Safe, Moves, Announced
  <1>4. Single(P2, E, C, G)
    BY <1>0 DEF Safe, Single, Receiving
  <1>5. Routes(P2, E, M, G, d, o)
    BY <1>0 DEF Safe, Routes, Receiving
  <1>6. Numbers(P2, E, S, R, M, G)
    BY <1>0 DEF Safe, Numbers, Receiving
  <1>7. Closures(P2, E, S, M, C, G, d, o)
    BY <1>0 DEF Safe, Closures, Receiving
  <1>v. Notified(P2, E, C, V2)
    <2>1. \A q \in DOMAIN P : Receiving(P2, q) =>
            q = p \/ (P2[q] = P[q] /\ Receiving(P, q) /\ P[q].end \in Ends
                      /\ (P[q].end # P2[p].end \/ ~Receiving(P2, p)))
      BY <1>0, AddressesKnown DEF Safe, Single, Receiving
    <2>2. \A y \in DOMAIN E : Moving(E[y]) =>
            /\ Described(E[y]).end \in Ends
            /\ Described(E[y]).end # P2[p].end \/ ~Receiving(P2, p)
      BY <1>0, AddressesKnown DEF Safe, Single, Receiving
    <2> QED BY <1>0, <2>1, <2>2 DEF Safe, Notified, Hears, Receiving
  <1> QED BY <1>1, <1>2, <1>3, <1>4, <1>5, <1>6, <1>7, <1>v DEF Safe

\* A proxy whose new port has been accepted may begin to forward.
LEMMA Begin ==
    ASSUME NEW P, NEW N, NEW H, NEW C, NEW M, NEW G, NEW E, NEW S, NEW R, NEW V, NEW d, NEW o,
           Safe(P, N, H, C, M, G, E, S, R, V, d, o),
           NEW p \in DOMAIN P, P[p].state = "Buffering",
           \A y \in DOMAIN E :
              /\ E[y].type = "PortAccepted" => E[y].port_name # p
              /\ Moving(E[y]) => Described(E[y]).referring # p
    PROVE  Safe([P EXCEPT ![p].state = "Proxying"], N, H, C, M, G, E, S, R, V, d, o)
  <1> DEFINE P2 == [P EXCEPT ![p].state = "Proxying"]
  <1>a. P[p] \in PortRecord(N)
    BY DEF Safe, WellTyped
  <1>b. P2[p] \in PortRecord(N) /\ P2[p] = [P[p] EXCEPT !.state = "Proxying"]
    BY <1>a DEF PortRecord
  <1>0. /\ DOMAIN P2 = DOMAIN P
        /\ \A q \in DOMAIN P : q # p => P2[q] = P[q]
        /\ P2[p].state = "Proxying"
        /\ P2[p].end = P[p].end
        /\ P2[p].message_queue = P[p].message_queue
        /\ P2[p].peer = P[p].peer
        /\ P2[p].send_on_proxy_removal = P[p].send_on_proxy_removal
    BY <1>a DEF PortRecord
  <1> HIDE DEF P2
  <1>1. WellTyped(P2, N, H, C, M, G, E, S, R, d, o)
    BY <1>0, <1>b DEF Safe, WellTyped
  <1>2. Carry(P2, H, E)
    <2>1. H \subseteq DOMAIN P
      BY DEF Safe, WellTyped
    <2> QED BY <1>0, <2>1 DEF Safe, Carry, Loose, Receiving
  <1>3. Moves(P2, E)
    BY <1>0 DEF Safe, Moves, Announced
  <1>4. Single(P2, E, C, G)
    BY <1>0 DEF Safe, Single, Receiving
  <1>5. Routes(P2, E, M, G, d, o)
    BY <1>0 DEF Safe, Routes, Receiving
  <1>6. Numbers(P2, E, S, R, M, G)
    BY <1>0 DEF Safe, Numbers, Receiving
  <1>7. Closures(P2, E, S, M, C, G, d, o)
    BY <1>0 DEF Safe, Closures, Receiving
  <1>v. Notified(P2, E, C, V)
    BY <1>0 DEF Safe, Notified, Receiving
  <1> QED BY <1>1, <1>2, <1>3, <1>4, <1>5, <1>6, <1>7, <1>v DEF Safe, P2

\* A proxy that forwards may be erased.
LEMMA Erase ==
    ASSUME NEW P, NEW N, NEW H, NEW C, NEW M, NEW G, NEW E, NEW S, NEW R, NEW V, NEW d, NEW o,
           Safe(P, N, H, C, M, G, E, S, R, V, d, o),
           NEW p \in DOMAIN P, P[p].state = "Proxying"
    PROVE  Safe([q \in DOMAIN P \ {p} |-> P[q]], N, H \ {p}, C, M, G, E, S, R, V, d, o)
  <1> DEFINE P2 == [q \in DOMAIN P \ {p} |-> P[q]]
  <1>0. /\ DOMAIN P2 = DOMAIN P \ {p}
        /\ \A q \in DOMAIN P \ {p} : P2[q] = P[q]
        /\ H \ {p} = H
    BY DEF Safe, Carry, Receiving
  <1> HIDE DEF P2
  <1>1. WellTyped(P2, N, H, C, M, G, E, S, R, d, o)
    <2>1. IsFiniteSet(DOMAIN P2)
      BY <1>0, FS_Subset DEF Safe, WellTyped
    <2>2. p \notin H
      BY DEF Safe, Carry, Receiving
    <2> QED BY <1>0, <2>1, <2>2 DEF Safe, WellTyped
  <1>2. Carry(P2, H, E)
    <2>1. H \subseteq DOMAIN P
      BY DEF Safe, WellTyped
    <2> QED BY <1>0, <2>1 DEF Safe, Carry, Loose, Receiving
  <1>3. Moves(P2, E)
    BY <1>0 DEF Safe, Moves, Announced
  <1>4. Single(P2, E, C, G)
    BY <1>0 DEF Safe, Single, Receiving
  <1>5. Routes(P2, E, M, G, d, o)
    BY <1>0 DEF Safe, Routes, Receiving
  <1>6. Numbers(P2, E, S, R, M, G)
    BY <1>0 DEF Safe, Numbers, Receiving
  <1>7. Closures(P2, E, S, M, C, G, d, o)
    BY <1>0 DEF Safe, Closures, Receiving
  <1>v. Notified(P2, E, C, V)
    BY <1>0 DEF Safe, Notified, Receiving
  <1>8. Safe(P2, N, H, C, M, G, E, S, R, V, d, o)
    BY <1>1, <1>2, <1>3, <1>4, <1>5, <1>6, <1>7, <1>v DEF Safe
  <1> QED BY <1>0, <1>8 DEF P2

-----------------------------------------------------------------------------
(* Messages and the ports they carry.                                       *)

\* The fields of a message.
LEMMA MessageTypes ==
    ASSUME NEW N, NEW m \in Message(N)
    PROVE  /\ m.type = "UserMessage"
           /\ m.port_name \in Addr(N)
           /\ m.sequence_num \in Nat \ {0}
           /\ m.body \in [end : Ends, index : Nat]
           /\ m.body.end \in Ends
           /\ m.ports \in AtMostOne(Addr(N))
           /\ m.descriptors \in AtMostOne(DescriptorRecord(N))
           /\ m.ports # << >> => Carried(m) \in Addr(N) /\ m.ports = <<Carried(m)>>
  <1>1. /\ m.type = "UserMessage"
        /\ m.port_name \in Addr(N)
        /\ m.sequence_num \in Nat \ {0}
        /\ m.body \in [end : Ends, index : Nat]
        /\ m.body.end \in Ends
        /\ m.ports \in AtMostOne(Addr(N))
        /\ m.descriptors \in AtMostOne(DescriptorRecord(N))
    BY DEF Message
  <1>2. m.ports # << >> => m.ports[1] \in Addr(N) /\ m.ports = <<m.ports[1]>>
    BY <1>1, AtMostOneFacts
  <1> QED BY <1>1, <1>2 DEF Carried

\* Taking a message from a queue leaves a port record.
LEMMA TakeTypes ==
    ASSUME NEW N, NEW r \in PortRecord(N), NEW m \in r.message_queue
    PROVE  TakeMessage(r, m) \in PortRecord(N) /\ m \in Message(N)
  <1>1. r.next_sequence_num + 1 \in Nat \ {0} /\ r.message_queue \ {m} \in SUBSET Message(N)
    BY DEF PortRecord
  <1>2. m \in Message(N)
    BY DEF PortRecord
  <1> QED BY <1>1, <1>2, Zenon DEF PortRecord, TakeMessage

\* The ports, with message m taken from p's queue, or put there.
Unqueued(P, p, m) == [P EXCEPT ![p] = TakeMessage(@, m)]
Queued(P, p, m) == [P EXCEPT ![p].message_queue = @ \cup {m}]

\* A proxy takes a message from its queue; the port it carries is free.
LEMMA Unqueue ==
    ASSUME NEW P, NEW N, NEW H, NEW C, NEW M, NEW G, NEW E, NEW S, NEW R, NEW V, NEW d, NEW o,
           Safe(P, N, H, C, M, G, E, S, R, V, d, o),
           NEW p \in DOMAIN P, ~Receiving(P, p), NEW m \in P[p].message_queue,
           NEW P2, P2 = Unqueued(P, p, m)
    PROVE  /\ Safe(P2, N, H, C, M, G, E, S, R, V, d, o)
           /\ m.ports # << >> =>
                /\ Unattached(P2, H, E, Carried(m))
                /\ P2[Carried(m)].end \notin ToMerge
                /\ Carried(m)[1] = p[1]
           /\ Deliverable(m, p, S, M, d, o)
           /\ m.port_name = p /\ m.descriptors = << >> /\ m \in Message(N)
  <1> USE DEF Unqueued
  <1>a. P[p] \in PortRecord(N)
    BY DEF Safe, WellTyped
  <1>b. P2[p] \in PortRecord(N) /\ m \in Message(N)
    <2>1. P2[p] = TakeMessage(P[p], m)
      OBVIOUS
    <2> QED BY <1>a, <2>1, TakeTypes
  <1>0. /\ DOMAIN P2 = DOMAIN P
        /\ \A q \in DOMAIN P : q # p => P2[q] = P[q]
        /\ P2[p].state = P[p].state
        /\ P2[p].end = P[p].end
        /\ P2[p].message_queue = P[p].message_queue \ {m}
        /\ P2[p].peer = P[p].peer
        /\ P2[p].remove_proxy_on_last_message = P[p].remove_proxy_on_last_message
        /\ P2[p].last_sequence_num_to_receive = P[p].last_sequence_num_to_receive
        /\ P2[p].send_on_proxy_removal = P[p].send_on_proxy_removal
    BY <1>a DEF PortRecord, TakeMessage
  <1>c. /\ \A q \in DOMAIN P : P2[q].state = P[q].state /\ P2[q].end = P[q].end
        /\ \A q \in DOMAIN P : P2[q].message_queue \subseteq P[q].message_queue
        /\ m \notin P2[p].message_queue
    BY <1>0
  <1> HIDE DEF Unqueued
  <1>1. WellTyped(P2, N, H, C, M, G, E, S, R, d, o)
    <2>1. IsFiniteSet(P2[p].message_queue)
      <3>1. IsFiniteSet(P[p].message_queue)
        BY DEF Safe, WellTyped
      <3> QED BY <1>0, <3>1, FS_RemoveElement
    <2> QED BY <1>0, <1>b, <2>1 DEF Safe, WellTyped
  <1>2. Carry(P2, H, E)
    <2>1. H \subseteq DOMAIN P
      BY DEF Safe, WellTyped
    <2> QED BY <1>0, <1>c, <2>1 DEF Safe, Carry, Loose, Receiving
  <1>3. Moves(P2, E)
    BY <1>0 DEF Safe, Moves, Announced
  <1>4. Single(P2, E, C, G)
    BY <1>0 DEF Safe, Single, Receiving
  <1>5. Routes(P2, E, M, G, d, o)
    BY <1>0 DEF Safe, Routes, Receiving
  <1>6. Numbers(P2, E, S, R, M, G)
    BY <1>0 DEF Safe, Numbers, Receiving
  <1>7. Closures(P2, E, S, M, C, G, d, o)
    BY <1>0 DEF Safe, Closures, Receiving
  <1>v. Notified(P2, E, C, V)
    BY <1>0 DEF Safe, Notified, Receiving
  <1>8. m.ports # << >> =>
          /\ Unattached(P2, H, E, Carried(m))
          /\ P2[Carried(m)].end \notin ToMerge
          /\ Carried(m)[1] = p[1]
    BY <1>0, <1>c DEF Safe, Carry, Loose, Receiving, Unattached
  <1>9. Deliverable(m, p, S, M, d, o) /\ m.port_name = p /\ m.descriptors = << >>
    BY DEF Safe, Routes, Numbers, Carry, Deliverable
  <1> QED BY <1>1, <1>2, <1>3, <1>4, <1>5, <1>6, <1>7, <1>v, <1>8, <1>9, <1>b DEF Safe



\* A message whose port is free may be queued.
LEMMA Enqueue ==
    ASSUME NEW P, NEW N, NEW H, NEW C, NEW M, NEW G, NEW E, NEW S, NEW R, NEW V, NEW d, NEW o,
           Safe(P, N, H, C, M, G, E, S, R, V, d, o),
           NEW p \in DOMAIN P, NEW m \in Message(N),
           m.port_name = p, m.descriptors = << >>, Deliverable(m, p, S, M, d, o),
           m.ports # << >> =>
             /\ Unattached(P, H, E, Carried(m))
             /\ P[Carried(m)].end \notin ToMerge
             /\ Carried(m)[1] = p[1],
           NEW P2, P2 = Queued(P, p, m)
    PROVE  Safe(P2, N, H, C, M, G, E, S, R, V, d, o)
  <1> USE DEF Queued
  <1>a. P[p] \in PortRecord(N)
    BY DEF Safe, WellTyped
  <1>b. P2[p] \in PortRecord(N)
    <2>1. P2[p] = [P[p] EXCEPT !.message_queue = @ \cup {m}]
      OBVIOUS
    <2> QED BY <1>a, <2>1 DEF PortRecord
  <1>0. /\ DOMAIN P2 = DOMAIN P
        /\ \A q \in DOMAIN P : q # p => P2[q] = P[q]
        /\ P2[p].state = P[p].state
        /\ P2[p].end = P[p].end
        /\ P2[p].message_queue = P[p].message_queue \cup {m}
        /\ P2[p].peer = P[p].peer
        /\ P2[p].next_sequence_num = P[p].next_sequence_num
        /\ P2[p].next_sequence_num_to_send = P[p].next_sequence_num_to_send
        /\ P2[p].remove_proxy_on_last_message = P[p].remove_proxy_on_last_message
        /\ P2[p].last_sequence_num_to_receive = P[p].last_sequence_num_to_receive
        /\ P2[p].peer_closed = P[p].peer_closed
        /\ P2[p].send_on_proxy_removal = P[p].send_on_proxy_removal
    BY <1>a DEF PortRecord
  <1>c. /\ \A q \in DOMAIN P : P2[q].state = P[q].state /\ P2[q].end = P[q].end
        /\ \A q \in DOMAIN P : \A k \in P2[q].message_queue :
              k \in P[q].message_queue \/ (q = p /\ k = m)
    BY <1>0
  <1> HIDE DEF Queued
  <1>1. WellTyped(P2, N, H, C, M, G, E, S, R, d, o)
    <2>1. IsFiniteSet(P2[p].message_queue)
      <3>1. IsFiniteSet(P[p].message_queue)
        BY DEF Safe, WellTyped
      <3> QED BY <1>0, <3>1, FS_AddElement
    <2> QED BY <1>0, <1>b, <2>1 DEF Safe, WellTyped
  <1>2. Carry(P2, H, E)
    <2>1. H \subseteq DOMAIN P
      BY DEF Safe, WellTyped
    <2> QED BY <1>0, <1>c, <2>1 DEF Safe, Carry, Loose, Receiving, Unattached
  <1>3. Moves(P2, E)
    BY <1>0 DEF Safe, Moves, Announced
  <1>4. Single(P2, E, C, G)
    BY <1>0 DEF Safe, Single, Receiving
  <1>5. Routes(P2, E, M, G, d, o)
    BY <1>0, <1>c DEF Safe, Routes, Receiving, Deliverable
  <1>6. Numbers(P2, E, S, R, M, G)
    BY <1>0, <1>c DEF Safe, Numbers, Receiving, Deliverable
  <1>7. Closures(P2, E, S, M, C, G, d, o)
    BY <1>0 DEF Safe, Closures, Receiving
  <1>v. Notified(P2, E, C, V)
    BY <1>0 DEF Safe, Notified, Receiving
  <1> QED BY <1>1, <1>2, <1>3, <1>4, <1>5, <1>6, <1>7, <1>v DEF Safe

\* A port the embedder gives up is free.
LEMMA ReleasePort ==
    ASSUME NEW P, NEW N, NEW H, NEW C, NEW M, NEW G, NEW E, NEW S, NEW R, NEW V, NEW d, NEW o,
           Safe(P, N, H, C, M, G, E, S, R, V, d, o),
           NEW q \in H
    PROVE  /\ Safe(P, N, H \ {q}, C, M, G, E, S, R, V, d, o)
           /\ Unattached(P, H \ {q}, E, q)
  <1>1. WellTyped(P, N, H \ {q}, C, M, G, E, S, R, d, o)
    BY DEF Safe, WellTyped
  <1>2. Carry(P, H \ {q}, E)
    BY DEF Safe, Carry, Loose
  <1>3. Unattached(P, H \ {q}, E, q)
    BY DEF Safe, Carry, Loose, WellTyped, Unattached
  <1> QED BY <1>1, <1>2, <1>3 DEF Safe

-----------------------------------------------------------------------------
(* Ports move.                                                              *)

\* What ConvertToProxies makes of a port and puts in a message has its type.
LEMMA ProxiedTypes ==
    ASSUME NEW N \in Nat, NEW r \in PortRecord(N), NEW a \in Addr(N + 1), NEW q \in Addr(N)
    PROVE  /\ Proxied(r, a) \in PortRecord(N + 1)
           /\ Descriptor(q, r) \in DescriptorRecord(N + 1)
           /\ LET b == Proxied(r, a)
              IN  /\ b.end = r.end
                  /\ b.state = "Buffering"
                  /\ b.peer = a
                  /\ b.next_sequence_num = r.next_sequence_num
                  /\ b.next_sequence_num_to_send = r.next_sequence_num_to_send
                  /\ b.message_queue = r.message_queue
                  /\ b.last_sequence_num_to_receive = r.last_sequence_num_to_receive
                  /\ b.peer_closed = r.peer_closed
                  /\ b.remove_proxy_on_last_message
                       = (r.remove_proxy_on_last_message \/ r.peer_closed)
                  /\ b.send_on_proxy_removal = r.send_on_proxy_removal
  <1>1. r \in PortRecord(N + 1) /\ q \in Addr(N + 1)
    BY TypesGrow, AddrGrows
  <1>2. (r.remove_proxy_on_last_message \/ r.peer_closed) \in BOOLEAN
    OBVIOUS
  <1>3. Proxied(r, a) \in PortRecord(N + 1)
    BY <1>1, <1>2, Zenon DEF Proxied, PortRecord
  <1>4. Descriptor(q, r) \in DescriptorRecord(N + 1)
    <2>1. /\ r.end \in Ends /\ r.peer \in Addr(N + 1) /\ r.peer_closed \in BOOLEAN
          /\ r.next_sequence_num_to_send \in Nat /\ r.next_sequence_num \in Nat
          /\ r.last_sequence_num_to_receive \in Nat
      BY <1>1 DEF PortRecord
    <2> QED BY <1>1, <2>1, Zenon DEF Descriptor, DescriptorRecord
  <1>5. LET b == Proxied(r, a)
        IN  /\ b.end = r.end
            /\ b.state = "Buffering"
            /\ b.peer = a
            /\ b.next_sequence_num = r.next_sequence_num
            /\ b.next_sequence_num_to_send = r.next_sequence_num_to_send
            /\ b.message_queue = r.message_queue
            /\ b.last_sequence_num_to_receive = r.last_sequence_num_to_receive
            /\ b.peer_closed = r.peer_closed
            /\ b.remove_proxy_on_last_message
                 = (r.remove_proxy_on_last_message \/ r.peer_closed)
            /\ b.send_on_proxy_removal = r.send_on_proxy_removal
    BY Zenon DEF Proxied, PortRecord
  <1> QED BY <1>3, <1>4, <1>5

\* The new address that a launch uses.
LEMMA FreshAddress ==
    ASSUME NEW N \in Nat, NEW node \in Nodes
    PROVE  /\ <<node, N + 1>> \in Addr(N + 1)
           /\ <<node, N + 1>> \notin Addr(N)
           /\ <<node, N + 1>>[1] = node
           /\ <<node, N + 1>>[2] = N + 1
           /\ Addr(N) \subseteq Addr(N + 1)
  BY DEF Addr

\* The ends of addresses, with a new one.
OneMore(o, N, e) == [a \in Addr(N + 1) |-> IF a \in Addr(N) THEN o[a] ELSE e]

\* A free port moves: it stays behind as a proxy, and its description is sent.
LEMMA Launch ==
    ASSUME NEW P, NEW N, NEW H, NEW C, NEW M, NEW G, NEW E, NEW S, NEW R, NEW V, NEW d, NEW o,
           Safe(P, N, H, C, M, G, E, S, R, V, d, o),
           NEW q, Unattached(P, H, E, q),
           NEW node \in Nodes, NEW new, new = <<node, N + 1>>,
           NEW e \in Event(N + 1),
           Moving(e), Carried(e) = new, Described(e) = Descriptor(q, P[q]), e.ports # << >>,
           e.port_name \in Addr(N), e.port_name[1] = node,
           e.type = "UserMessage" =>
             P[q].end \notin ToMerge /\ Deliverable(e, e.port_name, S, M, d, o),
           e.type = "MergePort" => \E f \in ToMerge : e.port_name = Home(f),
           NEW E2, NEW x, Extends(E2, E, x, e),
           NEW P2, P2 = [P EXCEPT ![q] = Proxied(@, new)],
           NEW o2, o2 = OneMore(o, N, P[q].end)
    PROVE  Safe(P2, N + 1, H, C, M, G, E2, S, R, V, d, o2)
  <1>n. N \in Nat
    BY DEF Safe, WellTyped
  <1>q. q \in DOMAIN P /\ q \notin H /\ Receiving(P, q) /\ P[q] \in PortRecord(N) /\ q \in Addr(N)
    BY DEF Safe, WellTyped, Unattached
  <1>f. /\ new \in Addr(N + 1) /\ new \notin Addr(N) /\ new[1] = node /\ new[2] = N + 1
        /\ Addr(N) \subseteq Addr(N + 1)
    BY <1>n, FreshAddress
  <1>0. /\ DOMAIN P2 = DOMAIN P
        /\ \A r \in DOMAIN P : r # q => P2[r] = P[r]
        /\ P2[q] \in PortRecord(N + 1)
        /\ P2[q].state = "Buffering"
        /\ P2[q].end = P[q].end
        /\ P2[q].peer = new
        /\ P2[q].message_queue = P[q].message_queue
        /\ P2[q].last_sequence_num_to_receive = P[q].last_sequence_num_to_receive
        /\ P2[q].remove_proxy_on_last_message
             = (P[q].remove_proxy_on_last_message \/ P[q].peer_closed)
        /\ P2[q].send_on_proxy_removal = P[q].send_on_proxy_removal
    BY <1>n, <1>q, <1>f, ProxiedTypes
  <1>d. /\ Described(e).end = P[q].end
        /\ Described(e).peer = P[q].peer
        /\ Described(e).referring = q
        /\ Described(e).next_sequence_num_to_send = P[q].next_sequence_num_to_send
        /\ Described(e).next_sequence_num_to_receive = P[q].next_sequence_num
        /\ Described(e).last_sequence_num_to_receive = P[q].last_sequence_num_to_receive
        /\ Described(e).peer_closed = P[q].peer_closed
    BY DEF Descriptor
  <1>e. /\ \A y \in DOMAIN E2 : y = x \/ (y \in DOMAIN E /\ y # x)
        /\ E2[x] = e /\ x \in DOMAIN E2
        /\ \A y \in DOMAIN E : y \in DOMAIN E2 /\ E2[y] = E[y]
    BY DEF Extends
  <1>c. /\ \A r \in DOMAIN P : P2[r].end = P[r].end /\ P2[r].message_queue = P[r].message_queue
                               /\ P2[r].send_on_proxy_removal = P[r].send_on_proxy_removal
        /\ ~Attaching(e) /\ ~Receiving(P2, q)
        /\ e.type \in {"UserMessage", "MergePort"}
    BY <1>0 DEF Attaching, Moving, Receiving
  <1>o. /\ o2 \in [Addr(N + 1) -> Ends]
        /\ \A a \in Addr(N) : o2[a] = o[a]
        /\ o2[new] = P[q].end
    <2>1. o \in [Addr(N) -> Ends] /\ P[q].end \in Ends
      BY <1>q DEF Safe, WellTyped, PortRecord
    <2> QED BY <2>1, <1>f DEF OneMore
  <1>1. WellTyped(P2, N + 1, H, C, M, G, E2, S, R, d, o2)
    <2>1. PortRecord(N) \subseteq PortRecord(N + 1) /\ Event(N) \subseteq Event(N + 1)
      BY <1>n, TypesGrow
    <2>2. N + 1 \in Nat /\ 2 * Len(Pipes) <= N + 1
      <3>1. 2 * Len(Pipes) <= N
        BY DEF Safe, WellTyped
      <3> QED BY <1>n, <3>1, PipesAssumption
    <2>3. DOMAIN P2 \subseteq Addr(N + 1) /\ IsFiniteSet(DOMAIN P2) /\ H \subseteq DOMAIN P2
      BY <1>0, <1>f DEF Safe, WellTyped
    <2>4. \A r \in DOMAIN P2 : P2[r] \in PortRecord(N + 1) /\ IsFiniteSet(P2[r].message_queue)
      BY <1>0, <1>q, <2>1 DEF Safe, WellTyped
    <2>5. \A y \in DOMAIN E2 : E2[y] \in Event(N + 1)
      BY <1>e, <2>1 DEF Safe, WellTyped
    <2> QED BY <2>2, <2>3, <2>4, <2>5, <1>o DEF Safe, WellTyped
  <1>2. Carry(P2, H, E2)
    <2>1. H \subseteq DOMAIN P
      BY DEF Safe, WellTyped
    <2> QED BY <1>0, <1>c, <1>e, <1>q, <2>1 DEF Safe, Carry, Loose, Receiving, Unattached
  <1>t. /\ \A y \in DOMAIN E : Moving(E[y]) => /\ Carried(E[y]) \in Addr(N)
                                               /\ Described(E[y]).peer \in Addr(N)
        /\ \A y \in DOMAIN E :
              /\ E[y].port_name \in Addr(N)
              /\ E[y].type = "ObserveProxy" => E[y].proxy \in Addr(N) /\ E[y].proxy_target \in Addr(N)
        /\ \A r \in DOMAIN P : /\ r \in Addr(N) /\ P[r].peer \in Addr(N)
                               /\ P[r].send_on_proxy_removal # << >> =>
                                    P[r].send_on_proxy_removal[1].port_name \in Addr(N)
    BY AddressesKnown
  <1>b. 2 * Len(Pipes) < N + 1
    <2>1. 2 * Len(Pipes) <= N
      BY DEF Safe, WellTyped
    <2> QED BY <1>n, <2>1, PipesAssumption
  <1>3. Moves(P2, E2)
    <2>1. \A a \in Addr(N) : Announced(P, E, a) => Announced(P2, E2, a)
      BY <1>0, <1>e, <1>f, <1>q DEF Announced, NotUnborn, Receiving
    <2>2. \A y \in DOMAIN E : Moving(E[y]) => Described(E[y]).referring # q
      BY <1>q DEF Safe, Moves, Receiving
    <2>3. \A y \in DOMAIN E : E[y].type = "PortAccepted" => E[y].port_name # q
      BY <1>q DEF Safe, Moves, Receiving
    <2>4. /\ Carried(e) \notin DOMAIN P2 /\ Carried(e)[2] > 2 * Len(Pipes)
      BY <1>0, <1>f, <1>t, <1>b
    <2>5. \A y \in DOMAIN E : Moving(E[y]) => Carried(E[y]) # Carried(e)
      BY <1>f, <1>t
    <2>6. \A y \in DOMAIN E2 : Moving(E2[y]) =>
          /\ E2[y].ports # << >>
          /\ Carried(E2[y]) \notin DOMAIN P2
          /\ Carried(E2[y])[2] > 2 * Len(Pipes)
          /\ Carried(E2[y])[1] = E2[y].port_name[1]
          /\ Described(E2[y]).referring \in DOMAIN P2
          /\ P2[Described(E2[y]).referring].state = "Buffering"
          /\ E2[y].type = "UserMessage" => Described(E2[y]).end \notin ToMerge
      BY <1>0, <1>d, <1>e, <1>f, <1>q, <2>2, <2>4 DEF Safe, Moves
    <2>7. \A y, z \in DOMAIN E2 : Moving(E2[y]) /\ Moving(E2[z]) /\ y # z =>
          /\ Carried(E2[y]) # Carried(E2[z])
          /\ Described(E2[y]).referring # Described(E2[z]).referring
      BY <1>d, <1>e, <2>2, <2>5 DEF Safe, Moves
    <2>8. \A y \in DOMAIN E2 : E2[y].type = "PortAccepted" =>
          /\ E2[y].port_name \in DOMAIN P2
          /\ P2[E2[y].port_name].state = "Buffering"
          /\ \A z \in DOMAIN E2 :
                /\ E2[z].type = "PortAccepted" /\ E2[z].port_name = E2[y].port_name => y = z
                /\ Moving(E2[z]) => Described(E2[z]).referring # E2[y].port_name
      BY <1>0, <1>c, <1>d, <1>e, <2>3 DEF Safe, Moves
    <2>9. \A y \in DOMAIN E2 :
          /\ E2[y].type = "MergePort" => /\ Moving(E2[y])
                                         /\ \E f \in ToMerge : E2[y].port_name = Home(f)
          /\ E2[y].type = "ObserveProxy" => Announced(P2, E2, E2[y].proxy)
          /\ E2[y].type = "ObserveProxyAck" => Announced(P2, E2, E2[y].port_name)
      <3>1. \A y \in DOMAIN E :
          /\ E[y].type = "MergePort" => /\ Moving(E[y])
                                        /\ \E f \in ToMerge : E[y].port_name = Home(f)
          /\ E[y].type = "ObserveProxy" => Announced(P, E, E[y].proxy)
          /\ E[y].type = "ObserveProxyAck" => Announced(P, E, E[y].port_name)
        BY DEF Safe, Moves
      <3> QED BY <1>c, <1>e, <1>t, <2>1, <3>1
    <2>10. \A r \in DOMAIN P2 : P2[r].send_on_proxy_removal # << >> =>
             Announced(P2, E2, P2[r].send_on_proxy_removal[1].port_name)
      <3>1. \A r \in DOMAIN P : P[r].send_on_proxy_removal # << >> =>
               Announced(P, E, P[r].send_on_proxy_removal[1].port_name)
        BY DEF Safe, Moves
      <3> QED BY <1>0, <1>c, <1>t, <2>1, <3>1
    <2> QED BY <2>6, <2>7, <2>8, <2>9, <2>10 DEF Moves
  <1>4. Single(P2, E2, C, G)
    BY <1>0, <1>c, <1>d, <1>e, <1>q DEF Safe, Single, Receiving
  <1>5. Routes(P2, E2, M, G, d, o2)
    <2>1. P[q].end \notin G
      BY <1>q DEF Safe, Single
    <2> QED BY <1>0, <1>c, <1>d, <1>e, <1>f, <1>o, <1>q, <1>t, <2>1
          DEF Safe, Routes, Receiving, Deliverable
  <1>6. Numbers(P2, E2, S, R, M, G)
    BY <1>0, <1>c, <1>d, <1>e, <1>q DEF Safe, Numbers, Receiving, Deliverable
  <1>7. Closures(P2, E2, S, M, C, G, d, o2)
    <2>1. d[P[q].end] = P[q].end
      BY <1>q DEF Safe, Single, Routes, WellTyped, PortRecord, Mated
    <2>2. P2[q].remove_proxy_on_last_message =>
            P[q].remove_proxy_on_last_message \/ P[q].peer_closed
      BY <1>0, Zenon
    <2>3. P2[q].remove_proxy_on_last_message =>
            Tellable(d[P[q].end], P2[q].last_sequence_num_to_receive, S, M, C, G)
      BY <1>0, <1>q, <2>1, <2>2 DEF Safe, Closures
    <2>4. \A r \in DOMAIN P2 :
          /\ Receiving(P2, r) => ~P2[r].remove_proxy_on_last_message
          /\ Receiving(P2, r) /\ P2[r].peer_closed =>
                Tellable(P2[r].end, P2[r].last_sequence_num_to_receive, S, M, C, G)
          /\ P2[r].state = "Buffering" /\ P2[r].remove_proxy_on_last_message =>
                Tellable(d[P2[r].end], P2[r].last_sequence_num_to_receive, S, M, C, G)
      <3>1. ASSUME NEW r \in DOMAIN P2, r # q
            PROVE  P2[r] = P[r] /\ r \in DOMAIN P
        BY <1>0, <3>1
      <3> QED BY <1>0, <1>c, <2>3, <3>1 DEF Safe, Closures, Receiving
    <2>5. \A y \in DOMAIN E2 :
          /\ Moving(E2[y]) /\ Described(E2[y]).peer_closed =>
                Tellable(Described(E2[y]).end,
                         Described(E2[y]).last_sequence_num_to_receive, S, M, C, G)
          /\ E2[y].type = "ObserveClosure" =>
                Tellable(d[o2[E2[y].port_name]], E2[y].last_sequence_num, S, M, C, G)
      BY <1>c, <1>d, <1>e, <1>o, <1>q, <1>t DEF Safe, Closures
    <2> QED BY <2>4, <2>5 DEF Closures
  <1>v. Notified(P2, E2, C, V)
    BY <1>0, <1>c, <1>d, <1>e, <1>q DEF Safe, Notified, Receiving
  <1> QED BY <1>1, <1>2, <1>3, <1>4, <1>5, <1>6, <1>7, <1>v DEF Safe

\* The ports, with a new one.
Born(P, new, port) == [p \in DOMAIN P \cup {new} |-> IF p = new THEN port ELSE P[p]]

\* A port made from a descriptor, and the ports with it.
MadeFrom(port, D) ==
    /\ port.end = D.end /\ port.state = "Receiving" /\ port.peer = D.peer
    /\ port.message_queue = {} /\ ~port.remove_proxy_on_last_message
    /\ port.send_on_proxy_removal = << >>
    /\ port.next_sequence_num = D.next_sequence_num_to_receive
    /\ port.next_sequence_num_to_send = D.next_sequence_num_to_send
    /\ port.peer_closed = D.peer_closed
    /\ port.last_sequence_num_to_receive = D.last_sequence_num_to_receive
Gains(P2, P, new, port) ==
    /\ DOMAIN P2 = DOMAIN P \cup {new}
    /\ \A p \in DOMAIN P : P2[p] = P[p]
    /\ \A p \in DOMAIN P2 : p = new \/ (p \in DOMAIN P /\ P2[p] = P[p])
    /\ P2[new] = port

\* A port that arrives takes the place of its event.
LEMMA Arrive ==
    ASSUME NEW P, NEW N, NEW H, NEW C, NEW M, NEW G, NEW E, NEW S, NEW R, NEW V, NEW d, NEW o,
           Safe(P, N, H, C, M, G, E, S, R, V, d, o),
           NEW E2, NEW x, NEW e, Extends(E, E2, x, e), Moving(e),
           NEW new, new = Carried(e), NEW D, D = Described(e),
           NEW port \in PortRecord(N), MadeFrom(port, D),
           NEW P2, Gains(P2, P, new, port)
    PROVE  /\ Safe(P2, N, H, C, M, G, E2, S, R, V, d, o)
           /\ Unattached(P2, H, E2, new)
           /\ new[1] = e.port_name[1] /\ new \notin DOMAIN P /\ new[2] > 2 * Len(Pipes)
           /\ e.type = "UserMessage" => P2[new].end \notin ToMerge
           /\ D.referring \in DOMAIN P2
           /\ P2[D.referring].state = "Buffering"
           /\ \A y \in DOMAIN E2 :
                 /\ E2[y].type = "PortAccepted" => E2[y].port_name # D.referring
                 /\ Moving(E2[y]) => Described(E2[y]).referring # D.referring
  <1>e. /\ x \in DOMAIN E /\ E[x] = e
        /\ \A y \in DOMAIN E : y \in DOMAIN E2 \/ y = x
        /\ \A y \in DOMAIN E2 : y \in DOMAIN E /\ E2[y] = E[y] /\ y # x
    BY DEF Extends
  <1>t. e \in Event(N) /\ D \in DescriptorRecord(N) /\ new \in Addr(N)
    <2>1. e \in Event(N) /\ e.ports # << >>
      BY <1>e DEF Safe, WellTyped, Moves
    <2> QED BY <2>1, MovingTypes
  <1>m. /\ new \notin DOMAIN P /\ new[2] > 2 * Len(Pipes) /\ new[1] = e.port_name[1]
        /\ D.referring \in DOMAIN P /\ P[D.referring].state = "Buffering"
        /\ e.type = "UserMessage" => D.end \notin ToMerge
    BY <1>e DEF Safe, Moves
  <1>p. port \in PortRecord(N)
    OBVIOUS
  <1>0. /\ DOMAIN P2 = DOMAIN P \cup {new}
        /\ \A p \in DOMAIN P : P2[p] = P[p]
        /\ \A p \in DOMAIN P2 : p = new \/ (p \in DOMAIN P /\ P2[p] = P[p])
        /\ P2[new] = port
    BY DEF Gains
  <1>1. /\ port.end = D.end /\ port.state = "Receiving" /\ port.peer = D.peer
        /\ port.message_queue = {} /\ ~port.remove_proxy_on_last_message
        /\ port.send_on_proxy_removal = << >>
        /\ port.next_sequence_num = D.next_sequence_num_to_receive
        /\ port.next_sequence_num_to_send = D.next_sequence_num_to_send
        /\ port.peer_closed = D.peer_closed
        /\ port.last_sequence_num_to_receive = D.last_sequence_num_to_receive
    BY DEF MadeFrom
  <1>h. H \subseteq DOMAIN P
    BY DEF Safe, WellTyped
  <1>w. WellTyped(P2, N, H, C, M, G, E2, S, R, d, o)
    <2>1. IsFiniteSet(DOMAIN P2)
      <3>1. IsFiniteSet(DOMAIN P)
        BY DEF Safe, WellTyped
      <3> QED BY <1>0, <3>1, FS_AddElement
    <2>2. IsFiniteSet(P2[new].message_queue)
      BY <1>0, <1>1, FS_EmptySet
    <2> QED BY <1>0, <1>p, <1>t, <1>e, <2>1, <2>2 DEF Safe, WellTyped
  <1>2. Carry(P2, H, E2)
    <2>1. ~(new[2] <= 2 * Len(Pipes))
      <3>1. new[2] \in Nat /\ 2 * Len(Pipes) \in Nat
        BY <1>t, PipesAssumption DEF Addr
      <3> QED BY <1>m, <3>1
    <2>2. /\ \A p \in H : Receiving(P2, p)
          /\ \A p \in DOMAIN P2 : p[2] <= 2 * Len(Pipes) => p = Home(P2[p].end)
      BY <1>0, <1>h, <2>1 DEF Safe, Carry, Receiving
    <2>3. \A q : Loose(P, H, q) => Loose(P2, H, q)
      BY <1>0 DEF Loose, Receiving
    <2>4. \A p \in DOMAIN P2 : \A m \in P2[p].message_queue :
             p \in DOMAIN P /\ m \in P[p].message_queue
      BY <1>0, <1>1
    <2> HIDE DEF Loose
    <2> QED BY <1>e, <2>2, <2>3, <2>4 DEF Safe, Carry
  <1>3. Moves(P2, E2)
    BY <1>0, <1>1, <1>e, <1>m DEF Safe, Moves, Announced, NotUnborn
  <1>4. Single(P2, E2, C, G)
    BY <1>0, <1>1, <1>e DEF Safe, Single, Receiving
  <1>5. Routes(P2, E2, M, G, d, o)
    BY <1>0, <1>1, <1>e DEF Safe, Routes, Receiving
  <1>6. Numbers(P2, E2, S, R, M, G)
    BY <1>0, <1>1, <1>e DEF Safe, Numbers, Receiving
  <1>7. Closures(P2, E2, S, M, C, G, d, o)
    BY <1>0, <1>1, <1>e DEF Safe, Closures, Receiving
  <1>v. Notified(P2, E2, C, V)
    BY <1>0, <1>1, <1>e DEF Safe, Notified, Receiving
  <1>8. Unattached(P2, H, E2, new)
    BY <1>0, <1>1, <1>e, <1>h, <1>m DEF Safe, Carry, Loose, Receiving, Unattached
  <1>9. \A y \in DOMAIN E2 :
            /\ E2[y].type = "PortAccepted" => E2[y].port_name # D.referring
            /\ Moving(E2[y]) => Described(E2[y]).referring # D.referring
    BY <1>e DEF Safe, Moves
  <1> QED BY <1>w, <1>2, <1>3, <1>4, <1>5, <1>6, <1>7, <1>v, <1>8, <1>9, <1>0, <1>1, <1>m DEF Safe

\* A new port comes to life as it was described.
LEMMA Accept ==
    ASSUME NEW P, NEW N, NEW H, NEW C, NEW M, NEW G, NEW E, NEW S, NEW R, NEW V, NEW d, NEW o,
           Safe(P, N, H, C, M, G, E, S, R, V, d, o),
           NEW E2, NEW x, NEW e, Extends(E, E2, x, e), Moving(e),
           NEW new, new = Carried(e), NEW D, D = Described(e),
           NEW port, port = NewPort(D.end, D.peer, D.next_sequence_num_to_send,
                                    D.next_sequence_num_to_receive,
                                    D.last_sequence_num_to_receive, D.peer_closed),
           NEW P2, P2 = Born(P, new, port)
    PROVE  /\ Safe(P2, N, H, C, M, G, E2, S, R, V, d, o)
           /\ Unattached(P2, H, E2, new)
           /\ new[1] = e.port_name[1] /\ new \notin DOMAIN P /\ new[2] > 2 * Len(Pipes)
           /\ e.type = "UserMessage" => P2[new].end \notin ToMerge
           /\ D.referring \in DOMAIN P2
           /\ P2[D.referring].state = "Buffering"
           /\ \A y \in DOMAIN E2 :
                 /\ E2[y].type = "PortAccepted" => E2[y].port_name # D.referring
                 /\ Moving(E2[y]) => Described(E2[y]).referring # D.referring
  <1>e. /\ x \in DOMAIN E /\ E[x] = e
        /\ \A y \in DOMAIN E : y \in DOMAIN E2 \/ y = x
        /\ \A y \in DOMAIN E2 : y \in DOMAIN E /\ E2[y] = E[y] /\ y # x
    BY DEF Extends
  <1>t. e \in Event(N) /\ D \in DescriptorRecord(N) /\ new \in Addr(N)
    <2>1. e \in Event(N) /\ e.ports # << >>
      BY <1>e DEF Safe, WellTyped, Moves
    <2> QED BY <2>1, MovingTypes
  <1>m. /\ new \notin DOMAIN P /\ new[2] > 2 * Len(Pipes) /\ new[1] = e.port_name[1]
        /\ D.referring \in DOMAIN P /\ P[D.referring].state = "Buffering"
        /\ e.type = "UserMessage" => D.end \notin ToMerge
    BY <1>e DEF Safe, Moves
  <1>p. port \in PortRecord(N)
    <2>1. /\ D.end \in Ends /\ D.peer \in Addr(N) /\ D.peer_closed \in BOOLEAN
          /\ D.last_sequence_num_to_receive \in Nat
      BY <1>t DEF DescriptorRecord
    <2>2. /\ D.next_sequence_num_to_send = S[D.end] + 1
          /\ D.next_sequence_num_to_receive = Len(R[D.end]) + 1
      BY <1>e DEF Safe, Numbers
    <2>3. S[D.end] \in Nat /\ Len(R[D.end]) \in Nat
      <3>1. S \in [Ends -> Nat] /\ R \in [Ends -> Seq([end : Ends, index : Nat])]
        BY DEF Safe, WellTyped
      <3>2. R[D.end] \in Seq([end : Ends, index : Nat])
        BY <2>1, <3>1
      <3> QED BY <2>1, <3>1, <3>2, LenProperties
    <2>4. D.next_sequence_num_to_send \in Nat \ {0} /\ D.next_sequence_num_to_receive \in Nat \ {0}
      BY <2>2, <2>3
    <2>5. << >> \in AtMostOne(Acknowledgement(N))
      BY AtMostOneFacts
    <2> QED BY <2>1, <2>4, <2>5, Zenon DEF NewPort, PortRecord
  <1>0. Gains(P2, P, new, port)
    BY <1>m DEF Born, Gains
  <1>1. MadeFrom(port, D)
    BY DEF NewPort, MadeFrom
  <1> QED BY <1>p, <1>0, <1>1, Arrive

-----------------------------------------------------------------------------
(* Ports are closed and merged.                                             *)

\* The ports and the closed ends, when the ports of K have been closed.
Without(P, K) == [q \in DOMAIN P \ K |-> P[q]]
AlsoClosed(C, P, K) == C \cup {P[p].end : p \in K}

\* Receiving ports that are free, held, or carried by messages queued at ports of
\* the set.
Closable(P, H, E, K) ==
    /\ K \subseteq DOMAIN P
    /\ \A q \in K : Receiving(P, q)
    /\ \A q \in K : \/ q \in H
                    \/ Unattached(P, H, E, q)
                    \/ \E p \in K : \E m \in P[p].message_queue :
                          m.ports # << >> /\ Carried(m) = q

\* They may be closed; the closure is true for their peers.
LEMMA CloseSet ==
    ASSUME NEW P, NEW N, NEW H, NEW C, NEW M, NEW G, NEW E, NEW S, NEW R, NEW V, NEW d, NEW o,
           Safe(P, N, H, C, M, G, E, S, R, V, d, o),
           NEW K, Closable(P, H, E, K),
           NEW P2, P2 = Without(P, K),
           NEW C2, C2 = AlsoClosed(C, P, K)
    PROVE  /\ Safe(P2, N, H \ K, C2, M, G, E, S, R, V, d, o)
           /\ \A q \in K : Tellable(d[o[P[q].peer]], P[q].next_sequence_num_to_send - 1,
                                    S, M, C2, G)
  <1> USE DEF Without, AlsoClosed
  <1> K \subseteq DOMAIN P /\ \A q \in K : Receiving(P, q)
    BY DEF Closable
  <1> \A q \in K : \/ q \in H
                  \/ Unattached(P, H, E, q)
                  \/ \E p \in K : \E m \in P[p].message_queue :
                        m.ports # << >> /\ Carried(m) = q
    BY DEF Closable
  <1>0. /\ DOMAIN P2 = DOMAIN P \ K
        /\ \A q \in DOMAIN P2 : q \in DOMAIN P /\ q \notin K /\ P2[q] = P[q]
        /\ \A q \in DOMAIN P : q \notin K => q \in DOMAIN P2 /\ P2[q] = P[q]
    OBVIOUS
  <1>c. /\ C \subseteq C2 /\ \A q \in K : P[q].end \in C2
        /\ \A e \in C2 : e \in C \/ \E q \in K : e = P[q].end
    OBVIOUS
  <1>h. H \subseteq DOMAIN P
    BY DEF Safe, WellTyped
  <1>a. /\ \A p \in DOMAIN P2 : \A m \in P[p].message_queue :
              m.ports # << >> => Carried(m) \in DOMAIN P2
        /\ \A x \in DOMAIN E : Attaching(E[x]) => Carried(E[x]) \in DOMAIN P2
    <2>1. ASSUME NEW p \in DOMAIN P2, NEW m \in P[p].message_queue, m.ports # << >>
          PROVE  Carried(m) \in DOMAIN P2
      BY <1>0, <2>1 DEF Safe, Carry, Loose, Unattached
    <2>2. ASSUME NEW x \in DOMAIN E, Attaching(E[x])
          PROVE  Carried(E[x]) \in DOMAIN P2
      BY <1>0, <2>2 DEF Safe, Carry, Loose, Unattached
    <2> QED BY <2>1, <2>2
  <1> HIDE DEF Without, AlsoClosed
  <1>1. WellTyped(P2, N, H \ K, C2, M, G, E, S, R, d, o)
    <2>1. IsFiniteSet(DOMAIN P2)
      <3>1. IsFiniteSet(DOMAIN P)
        BY DEF Safe, WellTyped
      <3> QED BY <1>0, <3>1, FS_Subset
    <2>2. C2 \subseteq Ends
      <3>1. C \subseteq Ends /\ \A q \in DOMAIN P : P[q] \in PortRecord(N)
        BY DEF Safe, WellTyped
      <3> QED BY <1>c, <3>1 DEF PortRecord
    <2> QED BY <1>0, <2>1, <2>2 DEF Safe, WellTyped
  <1>2. Carry(P2, H \ K, E)
    BY <1>0, <1>a, <1>h DEF Safe, Carry, Loose, Receiving
  <1>3. Moves(P2, E)
    BY <1>0 DEF Safe, Moves, Announced, Receiving
  <1>4. Single(P2, E, C2, G)
    BY <1>0, <1>c DEF Safe, Single, Receiving
  <1>5. Routes(P2, E, M, G, d, o)
    BY <1>0 DEF Safe, Routes, Receiving
  <1>6. Numbers(P2, E, S, R, M, G)
    BY <1>0 DEF Safe, Numbers, Receiving
  <1>7. Closures(P2, E, S, M, C2, G, d, o)
    BY <1>0, <1>c DEF Safe, Closures, Receiving, Tellable
  <1>v. Notified(P2, E, C2, V)
    BY <1>0, <1>c DEF Safe, Notified, Receiving
  <1>8. ASSUME NEW q \in K
        PROVE  Tellable(d[o[P[q].peer]], P[q].next_sequence_num_to_send - 1, S, M, C2, G)
    <2>1. P[q].end \in Ends \ G /\ d[o[P[q].peer]] = M[P[q].end]
      BY AddressesKnown DEF Safe, Single, Routes
    <2>2. M[M[P[q].end]] = P[q].end
      BY <2>1 DEF Safe, Routes, Mated
    <2>3. P[q].next_sequence_num_to_send = S[P[q].end] + 1 /\ S[P[q].end] \in Nat
      BY <2>1 DEF Safe, Numbers, WellTyped
    <2>4. P[q].next_sequence_num_to_send - 1 = S[P[q].end]
      BY <2>3
    <2> QED BY <1>c, <2>1, <2>2, <2>4 DEF Tellable
  <1> QED BY <1>1, <1>2, <1>3, <1>4, <1>5, <1>6, <1>7, <1>v, <1>8 DEF Safe

\* The mates and the destinations of ends, after the ends e and f have been merged.
Rejoined(M, e, f) == [M EXCEPT ![M[e]] = M[f], ![M[f]] = M[e]]
Redirected(d, M, e, f) ==
    [x \in Ends |-> IF d[x] = e THEN M[f] ELSE IF d[x] = f THEN M[e] ELSE d[x]]

AlsoMerged(G, e, f) == G \cup {e, f}

\* No message carries the port q.
Detached(P, E, q) ==
    /\ \A p \in DOMAIN P : \A m \in P[p].message_queue :
          m.ports # << >> => Carried(m) # q
    /\ \A x \in DOMAIN E : Attaching(E[x]) => Carried(E[x]) # q

\* What this changes.
Joined(M, G, d, e, f, M2, G2, d2) ==
    /\ M2 \in [Ends -> Ends] /\ d2 \in [Ends -> Ends] /\ G2 \subseteq Ends
    /\ Mated(M2, G2, d2)
    /\ \A x, y \in Ends : d[x] = d[y] => d2[x] = d2[y]
    /\ \A x, y \in Ends : y \notin G2 /\ d[x] = M[y] => d2[x] = M2[y]
    /\ \A x \in Ends : d[x] = M[f] => d2[x] = d2[e]
    /\ \A x \in Ends : d[x] = M[e] => d2[x] = d2[f]
    /\ \A x \in Ends : M2[x] = M[x] \/ M[x] = e \/ M[x] = f
    /\ M2[M[e]] = M[f] /\ M2[M[f]] = M[e]
    /\ d2[e] = M[f] /\ d2[f] = M[e]
    /\ \A x \in Ends : \/ d2[x] = d[x] /\ d[x] # e /\ d[x] # f
                       \/ d[x] = e /\ d2[x] = M[f]
                       \/ d[x] = f /\ d2[x] = M[e]

\* What joining the ends e and f does to mates and destinations.
LEMMA JoinFacts ==
    ASSUME NEW M \in [Ends -> Ends], NEW d \in [Ends -> Ends], NEW G, G \subseteq Ends,
           Mated(M, G, d), NEW e \in Ends \ G, NEW f \in Ends \ G, e # f,
           NEW M2, M2 = Rejoined(M, e, f),
           NEW d2, d2 = Redirected(d, M, e, f),
           NEW G2, G2 = G \cup {e, f}
    PROVE  Joined(M, G, d, e, f, M2, G2, d2)
  <1>1. M[e] \in Ends /\ M[f] \in Ends /\ M[e] # M[f] /\ M[e] # e /\ M[f] # f
    BY DEF Mated
  <1>2. /\ M2 \in [Ends -> Ends] /\ M2[M[e]] = M[f] /\ M2[M[f]] = M[e]
        /\ \A x \in Ends : x # M[e] /\ x # M[f] => M2[x] = M[x]
    BY <1>1 DEF Rejoined
  <1>3. /\ d2 \in [Ends -> Ends]
        /\ \A x \in Ends : d2[x] = IF d[x] = e THEN M[f] ELSE IF d[x] = f THEN M[e] ELSE d[x]
    BY <1>1 DEF Redirected
  <1>4. M[M[e]] = e /\ M[M[f]] = f
    BY DEF Mated
  <1>5. G2 \subseteq Ends
    OBVIOUS
  <1>6. ASSUME NEW x \in Ends \ G2
        PROVE  d2[x] = x /\ M2[M2[x]] = x /\ M2[x] # x /\ M2[x] \notin G2
    BY <1>1, <1>2, <1>3, <1>4 DEF Mated
  <1>7. \A x, y \in Ends : d[x] = d[y] => d2[x] = d2[y]
    BY <1>3
  <1>8. \A x, y \in Ends : y \notin G2 /\ d[x] = M[y] => d2[x] = M2[y]
    BY <1>1, <1>2, <1>3, <1>4 DEF Mated
  <1>9. \A x \in Ends : (d[x] = M[f] => d2[x] = d2[e]) /\ (d[x] = M[e] => d2[x] = d2[f])
    BY <1>1, <1>3 DEF Mated
  <1>10. \A x \in Ends : M2[x] = M[x] \/ M[x] = e \/ M[x] = f
    BY <1>2, <1>4
  <1>11. d2[e] = M[f] /\ d2[f] = M[e]
    BY <1>3 DEF Mated
  <1> QED BY <1>2, <1>3, <1>5, <1>6, <1>7, <1>8, <1>9, <1>10, <1>11 DEF Joined, Mated

\* The ports p and q have become proxies of each other's peers.
Spliced(P2, P, N, p, q) ==
    /\ DOMAIN P2 = DOMAIN P
    /\ \A r \in DOMAIN P \ {p, q} : P2[r] = P[r]
    /\ \A r \in {p, q} :
          /\ P2[r] \in PortRecord(N)
          /\ P2[r].end = P[r].end
          /\ P2[r].state = "Proxying"
          /\ P2[r].message_queue = P[r].message_queue
          /\ P2[r].send_on_proxy_removal = P[r].send_on_proxy_removal
    /\ P2[p].peer = P[q].peer /\ P2[q].peer = P[p].peer

\* Two receiving ports that have sent nothing become proxies of each other's
\* peers; a closure either of them knew of is true for the end it leads to.
LEMMA Merge ==
    ASSUME NEW P, NEW N, NEW H, NEW C, NEW M, NEW G, NEW E, NEW S, NEW R, NEW V, NEW d, NEW o,
           Safe(P, N, H, C, M, G, E, S, R, V, d, o),
           NEW p \in DOMAIN P, NEW q \in DOMAIN P, p # q,
           Receiving(P, p), Receiving(P, q), Detached(P, E, p), Detached(P, E, q),
           P[p].next_sequence_num_to_send = 1, P[q].next_sequence_num_to_send = 1,
           Merges # {},
           NEW P2, Spliced(P2, P, N, p, q),
           NEW e, e = P[p].end, NEW f, f = P[q].end,
           NEW M2, M2 = Rejoined(M, e, f),
           NEW d2, d2 = Redirected(d, M, e, f),
           NEW G2, G2 = AlsoMerged(G, e, f)
    PROVE  /\ Safe(P2, N, H \ {p, q}, C, M2, G2, E, S, R, V, d2, o)
           /\ P[p].peer_closed =>
                Tellable(d2[o[P[q].peer]], P[p].last_sequence_num_to_receive, S, M2, C, G2)
           /\ P[q].peer_closed =>
                Tellable(d2[o[P[p].peer]], P[q].last_sequence_num_to_receive, S, M2, C, G2)
  <1> /\ DOMAIN P2 = DOMAIN P
      /\ \A r \in DOMAIN P \ {p, q} : P2[r] = P[r]
      /\ \A r \in {p, q} :
            /\ P2[r] \in PortRecord(N)
            /\ P2[r].end = P[r].end
            /\ P2[r].state = "Proxying"
            /\ P2[r].message_queue = P[r].message_queue
            /\ P2[r].send_on_proxy_removal = P[r].send_on_proxy_removal
      /\ P2[p].peer = P[q].peer /\ P2[q].peer = P[p].peer
    BY DEF Spliced
  <1>u. G2 = G \cup {e, f}
    BY DEF AlsoMerged
  <1>t. /\ e \in Ends \ (C \cup G) /\ f \in Ends \ (C \cup G) /\ e # f
        /\ M \in [Ends -> Ends] /\ d \in [Ends -> Ends] /\ G \subseteq Ends
        /\ Mated(M, G, d)
    BY AddressesKnown DEF Safe, Single, Routes, WellTyped
  <1>j. Joined(M, G, d, e, f, M2, G2, d2)
    <2>1. e \in Ends \ G /\ f \in Ends \ G /\ e # f
      BY <1>t
    <2> QED BY <1>t, <1>u, <2>1, JoinFacts
  <1> USE DEF Joined, Mated
  <1>g. \A x : x \in G2 <=> x \in G \/ x = e \/ x = f
    BY <1>u
  <1>0. /\ DOMAIN P2 = DOMAIN P
        /\ \A r \in DOMAIN P : r # p /\ r # q => P2[r] = P[r]
        /\ \A r \in DOMAIN P : P2[r].end = P[r].end /\ P2[r].message_queue = P[r].message_queue
                               /\ P2[r].send_on_proxy_removal = P[r].send_on_proxy_removal
        /\ P2[p].state = "Proxying" /\ P2[q].state = "Proxying"
        /\ \A r \in DOMAIN P : Receiving(P2, r) <=> r # p /\ r # q /\ Receiving(P, r)
        /\ \A r \in DOMAIN P : Receiving(P2, r) => P[r].end # e /\ P[r].end # f
    <2>1. \A r \in DOMAIN P : r # p /\ r # q /\ Receiving(P, r) => P[r].end # e /\ P[r].end # f
      BY DEF Safe, Single
    <2> QED BY <2>1 DEF Receiving
  <1>a. /\ \A y \in DOMAIN E : Moving(E[y]) =>
               /\ Carried(E[y]) \in Addr(N) /\ Described(E[y]).peer \in Addr(N)
               /\ Described(E[y]).end \in Ends \ G2
        /\ \A y \in DOMAIN E :
              /\ E[y].port_name \in Addr(N)
              /\ E[y].type = "ObserveProxy" => E[y].proxy \in Addr(N) /\ E[y].proxy_target \in Addr(N)
        /\ \A r \in DOMAIN P : r \in Addr(N) /\ P[r].peer \in Addr(N) /\ P[r].end \in Ends
        /\ \A a \in Addr(N) : o[a] \in Ends
    <2>1. \A y \in DOMAIN E : Moving(E[y]) =>
            Described(E[y]).end \notin G /\ Described(E[y]).end # e /\ Described(E[y]).end # f
      BY DEF Safe, Single
    <2>2. \A a \in Addr(N) : o[a] \in Ends
      BY DEF Safe, WellTyped
    <2> QED BY <2>1, <2>2, <1>g, AddressesKnown
  <1>s. /\ S[e] = 0 /\ S[f] = 0
        /\ \A x \in G2 : S[x] = 0
    <2>1. /\ S[e] + 1 = 1 /\ S[f] + 1 = 1 /\ S[e] \in Nat /\ S[f] \in Nat
          /\ \A x \in G : S[x] = 0
      BY <1>t DEF Safe, Numbers, WellTyped
    <2> QED BY <2>1, <1>g
  <1>b. /\ \A r \in DOMAIN P : \A m \in P[r].message_queue : m.body.end \in Ends \ G2
        /\ \A y \in DOMAIN E : E[y].type = "UserMessage" => E[y].body.end \in Ends \ G2
    <2>1. ASSUME NEW m \in Message(N), Numbered(m, S)
          PROVE  m.body.end \in Ends \ G2
      <3>1. m.sequence_num \in Nat \ {0} /\ m.body.end \in Ends
        BY MessageTypes
      <3>2. S[m.body.end] # 0
        BY <2>1, <3>1 DEF Numbered
      <3> QED BY <1>s, <3>1, <3>2
    <2>2. \A r \in DOMAIN P : \A m \in P[r].message_queue : m \in Message(N) /\ Numbered(m, S)
      BY DEF Safe, WellTyped, PortRecord, Numbers
    <2>3. ASSUME NEW y \in DOMAIN E, E[y].type = "UserMessage"
          PROVE  E[y] \in Message(N) /\ Numbered(E[y], S)
      <3>1. E[y] \in Event(N)
        BY DEF Safe, WellTyped
      <3> QED BY <2>3, <3>1, EventTypes DEF Safe, Numbers
    <2> QED BY <2>1, <2>2, <2>3
  <1>1. WellTyped(P2, N, H \ {p, q}, C, M2, G2, E, S, R, d2, o)
    <2>1. \A r \in DOMAIN P2 : P2[r] \in PortRecord(N) /\ IsFiniteSet(P2[r].message_queue)
      BY <1>0 DEF Safe, WellTyped
    <2> QED BY <1>0, <1>j, <2>1 DEF Safe, WellTyped
  <1>2. Carry(P2, H \ {p, q}, E)
    <2>1. H \subseteq DOMAIN P
      BY DEF Safe, WellTyped
    <2>2. \A r : r # p /\ r # q /\ Loose(P, H, r) => Loose(P2, H \ {p, q}, r)
      BY <1>0 DEF Loose
    <2> HIDE DEF Loose
    <2>3. /\ \A r \in H \ {p, q} : Receiving(P2, r)
          /\ \A r \in DOMAIN P2 : r[2] <= 2 * Len(Pipes) => r = Home(P2[r].end)
      BY <1>0, <2>1 DEF Safe, Carry
    <2>4. ASSUME NEW r \in DOMAIN P2, NEW m \in P2[r].message_queue
          PROVE  /\ m.port_name = r
                 /\ m.descriptors = << >>
                 /\ m.ports # << >> => Loose(P2, H \ {p, q}, Carried(m)) /\ Carried(m)[1] = r[1]
      <3>1. r \in DOMAIN P /\ m \in P[r].message_queue
        BY <1>0
      <3>2. /\ m.port_name = r
            /\ m.descriptors = << >>
            /\ m.ports # << >> => Loose(P, H, Carried(m)) /\ Carried(m)[1] = r[1]
        BY <3>1 DEF Safe, Carry
      <3>3. m.ports # << >> => Carried(m) # p /\ Carried(m) # q
        BY <3>1 DEF Detached
      <3> QED BY <2>2, <3>2, <3>3
    <2>5. ASSUME NEW y \in DOMAIN E, Attaching(E[y])
          PROVE  /\ Loose(P2, H \ {p, q}, Carried(E[y]))
                 /\ \A r \in DOMAIN P2 : \A m \in P2[r].message_queue :
                       m.ports # << >> => Carried(m) # Carried(E[y])
      <3>1. Loose(P, H, Carried(E[y])) /\ \A r \in DOMAIN P : \A m \in P[r].message_queue :
               m.ports # << >> => Carried(m) # Carried(E[y])
        BY <2>5 DEF Safe, Carry
      <3>2. Carried(E[y]) # p /\ Carried(E[y]) # q
        BY <2>5 DEF Detached
      <3>3. Loose(P2, H \ {p, q}, Carried(E[y]))
        BY <2>2, <3>1, <3>2
      <3> QED BY <1>0, <3>1, <3>3
    <2>6. \A r, s \in DOMAIN P2 :
            \A m \in P2[r].message_queue, k \in P2[s].message_queue :
                m.ports # << >> /\ k.ports # << >> /\ Carried(m) = Carried(k) =>
                    r = s /\ m = k
      BY <1>0 DEF Safe, Carry
    <2> QED BY <2>3, <2>4, <2>5, <2>6 DEF Safe, Carry
  <1>3. Moves(P2, E)
    BY <1>0 DEF Safe, Moves, Announced, Receiving
  <1>4. Single(P2, E, C, G2)
    BY <1>0, <1>g, <1>a DEF Safe, Single
  <1>5. Routes(P2, E, M2, G2, d2, o)
    <2>1. \A r \in DOMAIN P2 : d2[o[P2[r].peer]] = IF Receiving(P2, r) THEN M2[P2[r].end]
                                                  ELSE d2[P2[r].end]
      <3>1. ASSUME NEW r \in DOMAIN P, Receiving(P2, r)
            PROVE  d2[o[P2[r].peer]] = M2[P2[r].end]
        <4>1. P2[r] = P[r] /\ d[o[P[r].peer]] = M[P[r].end] /\ P[r].end \notin G2
          BY <1>0, <1>g, <3>1 DEF Safe, Routes, Single
        <4> QED BY <4>1, <1>a, <1>j
      <3>2. ASSUME NEW r \in DOMAIN P, r # p, r # q, ~Receiving(P2, r)
            PROVE  d2[o[P2[r].peer]] = d2[P2[r].end]
        <4>1. P2[r] = P[r] /\ d[o[P[r].peer]] = d[P[r].end]
          BY <1>0, <3>2 DEF Safe, Routes
        <4> QED BY <4>1, <1>a, <1>j
      <3>3. d2[o[P2[p].peer]] = d2[P2[p].end] /\ d2[o[P2[q].peer]] = d2[P2[q].end]
        <4>1. d[o[P[q].peer]] = M[f] /\ d[o[P[p].peer]] = M[e]
          BY DEF Safe, Routes
        <4> QED BY <4>1, <1>a, <1>j
      <3> QED BY <1>0, <3>1, <3>2, <3>3
    <2>2. \A r \in DOMAIN P2 : \A m \in P2[r].message_queue : M2[m.body.end] = d2[P2[r].end]
      <3>1. \A r \in DOMAIN P : \A m \in P[r].message_queue : M[m.body.end] = d[P[r].end]
        BY DEF Safe, Routes
      <3> QED BY <3>1, <1>0, <1>a, <1>b, <1>j
    <2>3. \A y \in DOMAIN E : Moving(E[y]) =>
            d2[o[Described(E[y]).peer]] = M2[Described(E[y]).end]
      <3>1. \A y \in DOMAIN E : Moving(E[y]) =>
              d[o[Described(E[y]).peer]] = M[Described(E[y]).end]
        BY DEF Safe, Routes
      <3> QED BY <3>1, <1>a, <1>j
    <2>4. \A y \in DOMAIN E : E[y].type = "UserMessage" => M2[E[y].body.end] = d2[o[E[y].port_name]]
      <3>1. \A y \in DOMAIN E : E[y].type = "UserMessage" => M[E[y].body.end] = d[o[E[y].port_name]]
        BY DEF Safe, Routes
      <3> QED BY <3>1, <1>a, <1>b, <1>j
    <2>5. \A y \in DOMAIN E : E[y].type = "ObserveProxy" =>
            d2[o[E[y].proxy]] = d2[o[E[y].proxy_target]]
      <3>1. \A y \in DOMAIN E : E[y].type = "ObserveProxy" =>
              d[o[E[y].proxy]] = d[o[E[y].proxy_target]]
        BY DEF Safe, Routes
      <3> QED BY <3>1, <1>a, <1>j
    <2>6. /\ \A r \in DOMAIN P2 : o[r] = P2[r].end
          /\ \A y \in DOMAIN E : Moving(E[y]) => o[Carried(E[y])] = Described(E[y]).end
      BY <1>0 DEF Safe, Routes
    <2> QED BY <1>j, <2>1, <2>2, <2>3, <2>4, <2>5, <2>6 DEF Routes
  <1>6. Numbers(P2, E, S, R, M2, G2)
    <2>1. ASSUME NEW x \in Ends
          PROVE  /\ Len(R[x]) <= S[M2[x]]
                 /\ \A i \in 1 .. Len(R[x]) : R[x][i] = [end |-> M2[x], index |-> i]
      <3>0. /\ Len(R[x]) <= S[M[x]]
            /\ \A i \in 1 .. Len(R[x]) : R[x][i] = [end |-> M[x], index |-> i]
        BY DEF Safe, Numbers
      <3>1. CASE M2[x] = M[x]
        BY <3>0, <3>1
      <3>2. CASE M[x] = e \/ M[x] = f
        <4>1. Len(R[x]) <= 0 /\ Len(R[x]) \in Nat /\ S[M2[x]] \in Nat
          <5>1. R[x] \in Seq([end : Ends, index : Nat]) /\ S \in [Ends -> Nat]
            BY DEF Safe, WellTyped
          <5>2. Len(R[x]) <= 0
            BY <1>s, <3>0, <3>2
          <5> QED BY <1>j, <5>1, <5>2, LenProperties
        <4>2. Len(R[x]) <= S[M2[x]] /\ \A i \in 1 .. Len(R[x]) : FALSE
          BY <4>1
        <4> QED BY <4>2
      <3> QED BY <1>j, <3>1, <3>2
    <2> QED BY <1>0, <1>s, <2>1 DEF Safe, Numbers
  <1>k. ASSUME NEW x \in Ends, NEW last, Tellable(x, last, S, M, C, G)
        PROVE  /\ x # e /\ x # f => Tellable(x, last, S, M2, C, G2)
               /\ x = e => Tellable(M[f], last, S, M2, C, G2)
               /\ x = f => Tellable(M[e], last, S, M2, C, G2)
    BY <1>k, <1>t, <1>j, <1>g DEF Tellable
  <1>7. Closures(P2, E, S, M2, C, G2, d2, o)
    <2>1. ASSUME NEW x \in Ends, NEW last, Tellable(d[x], last, S, M, C, G)
          PROVE  Tellable(d2[x], last, S, M2, C, G2)
      <3>1. d[x] \in Ends
        BY <1>t
      <3> QED BY <3>1, <2>1, <1>j, <1>k
    <2>2. \A r \in DOMAIN P2 :
            /\ Receiving(P2, r) => ~P2[r].remove_proxy_on_last_message
            /\ Receiving(P2, r) /\ P2[r].peer_closed =>
                 Tellable(P2[r].end, P2[r].last_sequence_num_to_receive, S, M2, C, G2)
      BY <1>0, <1>a, <1>k DEF Safe, Closures
    <2>3. \A r \in DOMAIN P2 :
            P2[r].state = "Buffering" /\ P2[r].remove_proxy_on_last_message =>
                 Tellable(d2[P2[r].end], P2[r].last_sequence_num_to_receive, S, M2, C, G2)
      <3>1. ASSUME NEW r \in DOMAIN P2, P2[r].state = "Buffering"
            PROVE  r \in DOMAIN P /\ P2[r] = P[r] /\ P[r].end \in Ends
        BY <1>0, <1>a, <3>1
      <3> QED BY <3>1, <2>1 DEF Safe, Closures
    <2>4. \A y \in DOMAIN E :
            /\ Moving(E[y]) /\ Described(E[y]).peer_closed =>
                  Tellable(Described(E[y]).end,
                           Described(E[y]).last_sequence_num_to_receive, S, M2, C, G2)
      <3>1. \A y \in DOMAIN E : Moving(E[y]) => Described(E[y]).end # e /\ Described(E[y]).end # f
        BY <1>a, <1>g
      <3> QED BY <1>a, <1>k, <3>1 DEF Safe, Closures
    <2>5. \A y \in DOMAIN E : E[y].type = "ObserveClosure" =>
                Tellable(d2[o[E[y].port_name]], E[y].last_sequence_num, S, M2, C, G2)
      BY <1>a, <2>1 DEF Safe, Closures
    <2> QED BY <2>2, <2>3, <2>4, <2>5 DEF Closures
  <1>v. Notified(P2, E, C, V)
    BY <1>0 DEF Safe, Notified
  <1>8. /\ P[p].peer_closed =>
             Tellable(d2[o[P[q].peer]], P[p].last_sequence_num_to_receive, S, M2, C, G2)
        /\ P[q].peer_closed =>
             Tellable(d2[o[P[p].peer]], P[q].last_sequence_num_to_receive, S, M2, C, G2)
    <2>1. d[o[P[q].peer]] = M[f] /\ d[o[P[p].peer]] = M[e]
      BY DEF Safe, Routes
    <2>2. d2[o[P[q].peer]] = M[f] /\ d2[o[P[p].peer]] = M[e]
      BY <2>1, <1>a, <1>j
    <2>3. /\ P[p].peer_closed => Tellable(e, P[p].last_sequence_num_to_receive, S, M, C, G)
          /\ P[q].peer_closed => Tellable(f, P[q].last_sequence_num_to_receive, S, M, C, G)
      BY DEF Safe, Closures
    <2> QED BY <1>t, <1>k, <2>2, <2>3
  <1>9. Unmerged(M2, G2)
    BY DEF Unmerged
  <1> QED BY <1>1, <1>2, <1>3, <1>4, <1>5, <1>6, <1>7, <1>v, <1>8, <1>9 DEF Safe

-----------------------------------------------------------------------------
(* The embedder sends and reads.                                            *)

\* The ports and what was sent, after a message of port p and end e.
Counted(P, p) == [P EXCEPT ![p].next_sequence_num_to_send = @ + 1]
OneSent(S, e) == [S EXCEPT ![e] = @ + 1]

\* A receiving port numbers a message, which may go to its peer.
LEMMA Number ==
    ASSUME NEW P, NEW N, NEW H, NEW C, NEW M, NEW G, NEW E, NEW S, NEW R, NEW V, NEW d, NEW o,
           Safe(P, N, H, C, M, G, E, S, R, V, d, o),
           NEW p \in DOMAIN P, Receiving(P, p), NEW e, e = P[p].end,
           NEW P2, P2 = Counted(P, p),
           NEW S2, S2 = OneSent(S, e)
    PROVE  /\ Safe(P2, N, H, C, M, G, E, S2, R, V, d, o)
           /\ \A m : m.body.end = e /\ m.body.index = S[e] + 1
                     /\ m.sequence_num = P[p].next_sequence_num_to_send =>
                        Deliverable(m, P[p].peer, S2, M, d, o)
           /\ P[p].next_sequence_num_to_send \in Nat \ {0} /\ S[e] \in Nat
  <1> USE DEF Counted, OneSent
  <1>a. P[p] \in PortRecord(N) /\ e \in Ends /\ S \in [Ends -> Nat] /\ e \notin C \cup G
    BY DEF Safe, WellTyped, PortRecord, Single
  <1>b. P2[p] \in PortRecord(N) /\ P[p].next_sequence_num_to_send \in Nat \ {0}
    <2>1. P[p].next_sequence_num_to_send \in Nat \ {0}
      BY <1>a DEF PortRecord
    <2>2. P2[p] = [P[p] EXCEPT !.next_sequence_num_to_send = @ + 1]
      OBVIOUS
    <2>3. P[p].next_sequence_num_to_send + 1 \in Nat \ {0}
      BY <2>1
    <2>4. P2[p] \in PortRecord(N)
      BY <1>a, <2>2, <2>3, Zenon DEF PortRecord
    <2> QED BY <2>1, <2>4
  <1>0. /\ DOMAIN P2 = DOMAIN P
        /\ \A q \in DOMAIN P : q # p => P2[q] = P[q]
        /\ P2[p].state = P[p].state
        /\ P2[p].end = P[p].end
        /\ P2[p].message_queue = P[p].message_queue
        /\ P2[p].peer = P[p].peer
        /\ P2[p].next_sequence_num_to_send = P[p].next_sequence_num_to_send + 1
        /\ P2[p].next_sequence_num = P[p].next_sequence_num
        /\ P2[p].remove_proxy_on_last_message = P[p].remove_proxy_on_last_message
        /\ P2[p].last_sequence_num_to_receive = P[p].last_sequence_num_to_receive
        /\ P2[p].peer_closed = P[p].peer_closed
        /\ P2[p].send_on_proxy_removal = P[p].send_on_proxy_removal
    BY <1>a DEF PortRecord
  <1>s. /\ S2 \in [Ends -> Nat] /\ S2[e] = S[e] + 1
        /\ \A x \in Ends : x # e => S2[x] = S[x]
        /\ \A x \in Ends : S2[x] \in Nat /\ S[x] \in Nat /\ S[x] <= S2[x]
    BY <1>a
  <1> HIDE DEF Counted, OneSent
  <1>1. WellTyped(P2, N, H, C, M, G, E, S2, R, d, o)
    BY <1>0, <1>b, <1>s DEF Safe, WellTyped
  <1>2. Carry(P2, H, E)
    <2>1. H \subseteq DOMAIN P
      BY DEF Safe, WellTyped
    <2> QED BY <1>0, <2>1 DEF Safe, Carry, Loose, Receiving
  <1>3. Moves(P2, E)
    BY <1>0 DEF Safe, Moves, Announced
  <1>4. Single(P2, E, C, G)
    BY <1>0 DEF Safe, Single, Receiving
  <1>5. Routes(P2, E, M, G, d, o)
    BY <1>0 DEF Safe, Routes, Receiving
  <1>6. Numbers(P2, E, S2, R, M, G)
    <2>1. ASSUME NEW m \in Message(N), Numbered(m, S)
          PROVE  Numbered(m, S2)
      <3>1. m.sequence_num \in Nat /\ m.body.end \in Ends
        BY MessageTypes
      <3> QED BY <2>1, <3>1, <1>s DEF Numbered
    <2>2. \A q \in DOMAIN P2 : \A m \in P2[q].message_queue : Numbered(m, S2)
      <3>1. \A q \in DOMAIN P : \A m \in P[q].message_queue : m \in Message(N) /\ Numbered(m, S)
        BY DEF Safe, WellTyped, PortRecord, Numbers
      <3> QED BY <1>0, <2>1, <3>1
    <2>3. \A y \in DOMAIN E : E[y].type = "UserMessage" => Numbered(E[y], S2)
      <3>1. ASSUME NEW y \in DOMAIN E, E[y].type = "UserMessage"
            PROVE  E[y] \in Message(N) /\ Numbered(E[y], S)
        <4>1. E[y] \in Event(N)
          BY DEF Safe, WellTyped
        <4> QED BY <3>1, <4>1, EventTypes DEF Safe, Numbers
      <3> QED BY <2>1, <3>1
    <2>4. \A q \in DOMAIN P2 : Receiving(P2, q) =>
                /\ P2[q].next_sequence_num_to_send = S2[P2[q].end] + 1
                /\ P2[q].next_sequence_num = Len(R[P2[q].end]) + 1
      <3>1. \A q \in DOMAIN P : Receiving(P, q) =>
                /\ P[q].next_sequence_num_to_send = S[P[q].end] + 1
                /\ P[q].next_sequence_num = Len(R[P[q].end]) + 1
                /\ q # p => P[q].end # e
                /\ P[q].end \in Ends
        BY AddressesKnown DEF Safe, Numbers, Single
      <3> QED BY <1>0, <1>s, <3>1 DEF Receiving
    <2>5. \A y \in DOMAIN E : Moving(E[y]) =>
                /\ Described(E[y]).next_sequence_num_to_send = S2[Described(E[y]).end] + 1
                /\ Described(E[y]).next_sequence_num_to_receive
                     = Len(R[Described(E[y]).end]) + 1
      <3>1. \A y \in DOMAIN E : Moving(E[y]) => Described(E[y]).end \in Ends
                                                /\ Described(E[y]).end # e
        BY AddressesKnown DEF Safe, Single
      <3> QED BY <1>s, <3>1 DEF Safe, Numbers
    <2>6. \A x \in Ends : Len(R[x]) <= S2[M[x]]
      <3>1. ASSUME NEW x \in Ends
            PROVE  Len(R[x]) \in Nat /\ M[x] \in Ends /\ Len(R[x]) <= S[M[x]]
        <4>1. R[x] \in Seq([end : Ends, index : Nat]) /\ M[x] \in Ends
          BY DEF Safe, WellTyped
        <4> QED BY <4>1, LenProperties DEF Safe, Numbers
      <3>2. ASSUME NEW x \in Ends PROVE Len(R[x]) <= S2[M[x]]
        <4>1. PICK a, b, c : a = Len(R[x]) /\ b = S[M[x]] /\ c = S2[M[x]]
          OBVIOUS
        <4>2. a \in Nat /\ b \in Nat /\ c \in Nat /\ a <= b /\ b <= c
          BY <3>1, <4>1, <1>s
        <4> QED BY <4>1, <4>2
      <3> QED BY <3>2
    <2>7. \A x \in G : S2[x] = 0
      BY <1>a, <1>s DEF Safe, Numbers, WellTyped
    <2> QED BY <2>2, <2>3, <2>4, <2>5, <2>6, <2>7 DEF Safe, Numbers
  <1>7. Closures(P2, E, S2, M, C, G, d, o)
    <2>1. ASSUME NEW x \in Ends, NEW last, Tellable(x, last, S, M, C, G)
          PROVE  Tellable(x, last, S2, M, C, G)
      <3>1. M[x] \in Ends
        BY DEF Safe, WellTyped
      <3> QED BY <1>a, <1>s, <2>1, <3>1 DEF Tellable
    <2>2. /\ \A q \in DOMAIN P : P[q].end \in Ends /\ d[P[q].end] \in Ends
          /\ \A y \in DOMAIN E : Moving(E[y]) => Described(E[y]).end \in Ends
          /\ \A y \in DOMAIN E : d[o[E[y].port_name]] \in Ends
      <3>1. d \in [Ends -> Ends] /\ o \in [Addr(N) -> Ends]
        BY DEF Safe, WellTyped
      <3> QED BY <3>1, AddressesKnown
    <2>3. \A q \in DOMAIN P2 :
            /\ Receiving(P2, q) => ~P2[q].remove_proxy_on_last_message
            /\ Receiving(P2, q) /\ P2[q].peer_closed =>
                  Tellable(P2[q].end, P2[q].last_sequence_num_to_receive, S2, M, C, G)
            /\ P2[q].state = "Buffering" /\ P2[q].remove_proxy_on_last_message =>
                  Tellable(d[P2[q].end], P2[q].last_sequence_num_to_receive, S2, M, C, G)
      <3>1. \A q \in DOMAIN P :
            /\ Receiving(P, q) => ~P[q].remove_proxy_on_last_message
            /\ Receiving(P, q) /\ P[q].peer_closed =>
                  Tellable(P[q].end, P[q].last_sequence_num_to_receive, S2, M, C, G)
            /\ P[q].state = "Buffering" /\ P[q].remove_proxy_on_last_message =>
                  Tellable(d[P[q].end], P[q].last_sequence_num_to_receive, S2, M, C, G)
        BY <2>1, <2>2 DEF Safe, Closures
      <3> QED BY <1>0, <3>1 DEF Receiving
    <2>4. \A y \in DOMAIN E :
            /\ Moving(E[y]) /\ Described(E[y]).peer_closed =>
                  Tellable(Described(E[y]).end,
                           Described(E[y]).last_sequence_num_to_receive, S2, M, C, G)
            /\ E[y].type = "ObserveClosure" =>
                  Tellable(d[o[E[y].port_name]], E[y].last_sequence_num, S2, M, C, G)
      BY <2>1, <2>2 DEF Safe, Closures
    <2> QED BY <2>3, <2>4 DEF Closures
  <1>v. Notified(P2, E, C, V)
    BY <1>0 DEF Safe, Notified, Receiving
  <1>8. \A m : m.body.end = e /\ m.body.index = S[e] + 1
               /\ m.sequence_num = P[p].next_sequence_num_to_send =>
                  Deliverable(m, P[p].peer, S2, M, d, o)
    <2>1. d[o[P[p].peer]] = M[e] /\ P[p].next_sequence_num_to_send = S[e] + 1
      BY DEF Safe, Routes, Numbers
    <2> QED BY <1>a, <1>s, <2>1 DEF Deliverable, Numbered
  <1> QED BY <1>1, <1>2, <1>3, <1>4, <1>5, <1>6, <1>7, <1>v, <1>8, <1>a, <1>b DEF Safe

\* A message that is queued at a receiving port is from its peer end.
LEMMA QueuedFromMate ==
    ASSUME NEW P, NEW N, NEW H, NEW C, NEW M, NEW G, NEW E, NEW S, NEW R, NEW V, NEW d, NEW o,
           Safe(P, N, H, C, M, G, E, S, R, V, d, o),
           NEW p \in DOMAIN P, Receiving(P, p), NEW m \in P[p].message_queue
    PROVE  /\ m.body = [end |-> M[P[p].end], index |-> m.sequence_num]
           /\ m.sequence_num <= S[M[P[p].end]]
           /\ m \in Message(N)
  <1>1. m \in Message(N) /\ Numbered(m, S) /\ M[m.body.end] = d[P[p].end]
    BY DEF Safe, WellTyped, PortRecord, Numbers, Routes
  <1>2. P[p].end \in Ends \ G /\ d[P[p].end] = P[p].end
    BY AddressesKnown DEF Safe, Single, Routes, Mated
  <1>3. m.body.end \in Ends \ G
    <2>1. m.sequence_num \in Nat \ {0} /\ m.body.end \in Ends
      BY <1>1, MessageTypes
    <2>2. S[m.body.end] # 0
      BY <1>1, <2>1 DEF Numbered
    <2> QED BY <2>1, <2>2 DEF Safe, Numbers
  <1>4. m.body.end = M[P[p].end]
    BY <1>1, <1>2, <1>3 DEF Safe, Routes, Mated
  <1>5. m.body \in [end : Ends, index : Nat]
    BY <1>1, MessageTypes
  <1> QED BY <1>1, <1>4, <1>5 DEF Numbered

\* What was read, and what is held, once end e has read message m.
OneRead(R, e, m) == [R EXCEPT ![e] = Append(@, m.body)]
AlsoHeld(H, m) == H \cup ToSet(m.ports)

\* The embedder reads the message its port expects next, and holds the port
\* that the message carried.
LEMMA Read ==
    ASSUME NEW P, NEW N, NEW H, NEW C, NEW M, NEW G, NEW E, NEW S, NEW R, NEW V, NEW d, NEW o,
           Safe(P, N, H, C, M, G, E, S, R, V, d, o),
           NEW p \in H, NEW m \in P[p].message_queue,
           m.sequence_num = P[p].next_sequence_num,
           NEW P2, P2 = Unqueued(P, p, m),
           NEW H2, H2 = AlsoHeld(H, m),
           NEW e, e = P[p].end,
           NEW R2, R2 = OneRead(R, e, m)
    PROVE  Safe(P2, N, H2, C, M, G, E, S, R2, V, d, o)
  <1> USE DEF Unqueued, OneRead, AlsoHeld
  <1>a. p \in DOMAIN P /\ P[p] \in PortRecord(N) /\ Receiving(P, p)
    BY DEF Safe, WellTyped, Carry
  <1>b. P2[p] \in PortRecord(N) /\ m \in Message(N)
    <2>1. P2[p] = TakeMessage(P[p], m)
      BY <1>a
    <2> QED BY <1>a, <2>1, TakeTypes
  <1>0. /\ DOMAIN P2 = DOMAIN P
        /\ \A q \in DOMAIN P : q # p => P2[q] = P[q]
        /\ P2[p].state = P[p].state
        /\ P2[p].end = P[p].end
        /\ P2[p].message_queue = P[p].message_queue \ {m}
        /\ P2[p].next_sequence_num = P[p].next_sequence_num + 1
        /\ P2[p].next_sequence_num_to_send = P[p].next_sequence_num_to_send
        /\ P2[p].peer = P[p].peer
        /\ P2[p].peer_closed = P[p].peer_closed
        /\ P2[p].remove_proxy_on_last_message = P[p].remove_proxy_on_last_message
        /\ P2[p].last_sequence_num_to_receive = P[p].last_sequence_num_to_receive
        /\ P2[p].send_on_proxy_removal = P[p].send_on_proxy_removal
    BY <1>a DEF PortRecord, TakeMessage
  <1>c. /\ \A q \in DOMAIN P : P2[q].state = P[q].state /\ P2[q].end = P[q].end
        /\ \A q \in DOMAIN P : P2[q].message_queue \subseteq P[q].message_queue
        /\ m \notin P2[p].message_queue
    BY <1>0
  <1>h. /\ m.ports = << >> => H2 = H
        /\ m.ports # << >> => H2 = H \cup {Carried(m)}
        /\ m.ports # << >> => Loose(P, H, Carried(m))
    <2>1. m.ports = << >> => ToSet(m.ports) = {}
      BY DEF ToSet
    <2>2. m.ports # << >> => m.ports = <<Carried(m)>>
      BY <1>b, MessageTypes
    <2>3. ToSet(<<Carried(m)>>) = {Carried(m)}
      BY DEF ToSet
    <2> QED BY <1>a, <2>1, <2>2, <2>3 DEF Safe, Carry
  <1>r. /\ R2 \in [Ends -> Seq([end : Ends, index : Nat])]
        /\ \A x \in Ends : x # e => R2[x] = R[x]
        /\ Len(R2[e]) = Len(R[e]) + 1
        /\ R2[e][Len(R[e]) + 1] = m.body
        /\ \A i \in 1 .. Len(R[e]) : R2[e][i] = R[e][i]
        /\ e \in Ends /\ Len(R[e]) \in Nat
    <2>1. /\ R \in [Ends -> Seq([end : Ends, index : Nat])] /\ e \in Ends
          /\ m.body \in [end : Ends, index : Nat]
      BY <1>a, <1>b, MessageTypes DEF Safe, WellTyped, PortRecord
    <2>2. R[e] \in Seq([end : Ends, index : Nat])
      BY <2>1
    <2>3. R2[e] = Append(R[e], m.body) /\ \A x \in Ends : x # e => R2[x] = R[x]
      BY <2>1
    <2>4. /\ Append(R[e], m.body) \in Seq([end : Ends, index : Nat])
          /\ Len(Append(R[e], m.body)) = Len(R[e]) + 1
          /\ Append(R[e], m.body)[Len(R[e]) + 1] = m.body
          /\ \A i \in 1 .. Len(R[e]) : Append(R[e], m.body)[i] = R[e][i]
      BY <2>1, <2>2, AppendProperties
    <2>5. R2 \in [Ends -> Seq([end : Ends, index : Nat])]
      BY <2>1, <2>4, Zenon
    <2> QED BY <2>1, <2>2, <2>3, <2>4, <2>5, LenProperties
  <1> HIDE DEF Unqueued, OneRead, AlsoHeld
  <1>1. WellTyped(P2, N, H2, C, M, G, E, S, R2, d, o)
    <2>1. IsFiniteSet(P2[p].message_queue)
      <3>1. IsFiniteSet(P[p].message_queue)
        BY <1>a DEF Safe, WellTyped
      <3> QED BY <1>0, <3>1, FS_RemoveElement
    <2>2. H2 \subseteq DOMAIN P2
      BY <1>0, <1>h DEF Safe, WellTyped, Loose
    <2> QED BY <1>0, <1>b, <1>r, <2>1, <2>2 DEF Safe, WellTyped
  <1>2. Carry(P2, H2, E)
    <2>1. H \subseteq DOMAIN P
      BY DEF Safe, WellTyped
    <2>2. \A q \in H2 : Receiving(P2, q)
      BY <1>c, <1>h, <2>1 DEF Safe, Carry, Loose, Receiving
    <2>3. \A q : Loose(P, H, q) /\ (m.ports # << >> => q # Carried(m)) => Loose(P2, H2, q)
      BY <1>0, <1>c, <1>h DEF Loose, Receiving
    <2> HIDE DEF Loose
    <2>4. \A q \in DOMAIN P2 : \A k \in P2[q].message_queue :
            /\ k \in P[q].message_queue /\ q \in DOMAIN P
            /\ k.ports # << >> /\ m.ports # << >> => Carried(k) # Carried(m)
      BY <1>0, <1>a, <1>c DEF Safe, Carry
    <2>5. \A y \in DOMAIN E : Attaching(E[y]) /\ m.ports # << >> => Carried(E[y]) # Carried(m)
      BY <1>a DEF Safe, Carry
    <2> QED BY <1>0, <1>c, <2>2, <2>3, <2>4, <2>5 DEF Safe, Carry
  <1>3. Moves(P2, E)
    BY <1>0 DEF Safe, Moves, Announced
  <1>4. Single(P2, E, C, G)
    BY <1>0 DEF Safe, Single, Receiving
  <1>5. Routes(P2, E, M, G, d, o)
    BY <1>0 DEF Safe, Routes, Receiving
  <1>6. Numbers(P2, E, S, R2, M, G)
    <2>1. \A q \in DOMAIN P2 : Receiving(P2, q) =>
                /\ P2[q].next_sequence_num_to_send = S[P2[q].end] + 1
                /\ P2[q].next_sequence_num = Len(R2[P2[q].end]) + 1
      <3>1. \A q \in DOMAIN P : Receiving(P, q) =>
                /\ P[q].next_sequence_num_to_send = S[P[q].end] + 1
                /\ P[q].next_sequence_num = Len(R[P[q].end]) + 1
                /\ q # p => P[q].end # e
                /\ P[q].end \in Ends
        BY <1>a, AddressesKnown DEF Safe, Numbers, Single
      <3>2. ASSUME NEW q \in DOMAIN P2, Receiving(P2, q), q # p
            PROVE  /\ P2[q].next_sequence_num_to_send = S[P2[q].end] + 1
                   /\ P2[q].next_sequence_num = Len(R2[P2[q].end]) + 1
        <4>1. q \in DOMAIN P /\ P2[q] = P[q] /\ Receiving(P, q)
          BY <1>0, <3>2 DEF Receiving
        <4>2. /\ P[q].next_sequence_num_to_send = S[P[q].end] + 1
              /\ P[q].next_sequence_num = Len(R[P[q].end]) + 1
              /\ P[q].end # e /\ P[q].end \in Ends
          BY <3>1, <3>2, <4>1
        <4>3. R2[P[q].end] = R[P[q].end]
          BY <1>r, <4>2
        <4> QED BY <4>1, <4>2, <4>3
      <3>3. /\ P2[p].next_sequence_num_to_send = S[P2[p].end] + 1
            /\ P2[p].next_sequence_num = Len(R2[P2[p].end]) + 1
        <4>1. /\ P[p].next_sequence_num_to_send = S[e] + 1
              /\ P[p].next_sequence_num = Len(R[e]) + 1
          BY <1>a, <3>1
        <4>2. PICK a \in Nat, b \in Nat : a = Len(R[e]) /\ b = Len(R2[e])
          BY <1>r
        <4>3. b = a + 1
          BY <1>r, <4>2
        <4> QED BY <1>0, <4>1, <4>2, <4>3
      <3> QED BY <3>2, <3>3
    <2>2. \A y \in DOMAIN E : Moving(E[y]) =>
                Described(E[y]).next_sequence_num_to_receive
                     = Len(R2[Described(E[y]).end]) + 1
      <3>1. \A y \in DOMAIN E : Moving(E[y]) => Described(E[y]).end \in Ends
                                                /\ Described(E[y]).end # e
        BY <1>a, AddressesKnown DEF Safe, Single
      <3> QED BY <1>r, <3>1 DEF Safe, Numbers
    <2>3. /\ m.body = [end |-> M[e], index |-> Len(R[e]) + 1]
          /\ Len(R[e]) + 1 <= S[M[e]]
      BY <1>a, QueuedFromMate DEF Safe, Numbers
    <2>4. ASSUME NEW x \in Ends
          PROVE  /\ Len(R2[x]) <= S[M[x]]
                 /\ \A i \in 1 .. Len(R2[x]) : R2[x][i] = [end |-> M[x], index |-> i]
      <3>1. CASE x # e
        <4>1. R2[x] = R[x]
          BY <1>r, <3>1
        <4>2. /\ Len(R[x]) <= S[M[x]]
              /\ \A i \in 1 .. Len(R[x]) : R[x][i] = [end |-> M[x], index |-> i]
          BY DEF Safe, Numbers
        <4> QED BY <4>1, <4>2
      <3>2. CASE x = e
        <4>1. \A i \in 1 .. Len(R[e]) : R[e][i] = [end |-> M[e], index |-> i]
          BY <1>r DEF Safe, Numbers
        <4>2. ASSUME NEW i \in 1 .. Len(R2[e])
              PROVE  R2[e][i] = [end |-> M[e], index |-> i]
          <5>1. i \in 1 .. Len(R[e]) \/ i = Len(R[e]) + 1
            BY <1>r
          <5> QED BY <1>r, <2>3, <4>1, <5>1
        <4> QED BY <1>r, <2>3, <3>2, <4>2
      <3> QED BY <3>1, <3>2
    <2>5. \A q \in DOMAIN P2 : \A k \in P2[q].message_queue : Numbered(k, S)
      BY <1>0, <1>c DEF Safe, Numbers
    <2> QED BY <2>1, <2>2, <2>4, <2>5 DEF Safe, Numbers
  <1>7. Closures(P2, E, S, M, C, G, d, o)
    BY <1>0 DEF Safe, Closures, Receiving
  <1>v. Notified(P2, E, C, V)
    BY <1>0 DEF Safe, Notified, Receiving
  <1> QED BY <1>1, <1>2, <1>3, <1>4, <1>5, <1>6, <1>7, <1>v DEF Safe
==============================================================================
