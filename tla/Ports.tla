------------------------------- MODULE Ports -------------------------------
(***************************************************************************)
(* The port graph of mojo/core/ports: message pipes whose two ends can be   *)
(* sent, in messages, to other nodes.  A port whose end moves away stays    *)
(* behind as a proxy: first it buffers, then it forwards, and it is erased  *)
(* once the graph has been told to skip it and its last message is through. *)
(*                                                                         *)
(* An address <<node, id>> is the pair (peer_node_name, peer_port_name) of  *)
(* the code.  Names are random and unique there; here ids are numbered.     *)
(*                                                                         *)
(* Every node has an IO thread, which accepts events from the channels of   *)
(* other nodes, and a user thread; the API is called on one of the two, as  *)
(* CallingThread says.  Handlers collect under a port's lock the events     *)
(* they send, and call ForwardEvent after releasing it: an event for the    *)
(* same node is a nested AcceptEvent on the calling thread, any other one   *)
(* is written to a FIFO channel.  stack[n][t] holds the ForwardEvent calls  *)
(* that thread t of node n has still to make, the next one first, so two    *)
(* threads of a node interleave at every call.                              *)
(*                                                                         *)
(* An operator that translates a member function of Node maps a world       *)
(* record (the ports, the name generator, the closed ends and the events    *)
(* forwarded so far) to the world after the call.                           *)
(***************************************************************************)
EXTENDS Integers, FiniteSets, SequencesExt

CONSTANTS
    Pipes,      \* sequence of <<n, m>>: pipe i starts with its ends on n and m
    Carries,    \* pairs <<e, f>>: messages of end e may carry the port of f
    MaxSends,   \* bound: messages the embedder sends from each end
    MayClose,   \* bound: the ends an embedder may close
    Merges,     \* bound: pairs <<e, f>>: the port of e may be merged into f's
    ReadBeforeMerge, \* whether embedders read from ports they later merge
    CallingThread   \* "io" or "user": where embedders call the API

(* Pipe i has the ends 2i - 1 and 2i.                                       *)
Ends == 1 .. 2 * Len(Pipes)
Other(e) == IF e % 2 = 1 THEN e + 1 ELSE e - 1
FirstHome(e) == Pipes[(e + 1) \div 2][2 - (e % 2)]
Home(e) == <<FirstHome(e), e>>
Nodes == {FirstHome(e) : e \in Ends}
Threads == {"io", "user"}

ASSUME PipesAssumption == Pipes \in Seq((Nat \ {0}) \X (Nat \ {0}))

(* An end is never carried by its own pipe, directly or through others:     *)
(* such a message could not be read by anyone.                              *)
ASSUME CarriesAssumption ==
    /\ Carries \subseteq Ends \X Ends
    /\ \A c \in Carries : (c[1] + 1) \div 2 < (c[2] + 1) \div 2
ASSUME BoundsAssumption ==
    MaxSends \in [Ends -> Nat] /\ MayClose \subseteq Ends
(* Ports to be merged stay where they are until then.                       *)
ToMerge == {pair[1] : pair \in Merges} \cup {pair[2] : pair \in Merges}
ASSUME MergesAssumption ==
    /\ Merges \subseteq Ends \X Ends
    /\ \A pair \in Merges : pair[1] # pair[2]
    /\ \A c \in Carries : c[2] \notin ToMerge
    /\ ReadBeforeMerge \in BOOLEAN
ASSUME CallingThreadAssumption == CallingThread \in Threads

InvalidPortName == 0        \* no port has this id
InitialSequenceNum == 1
InvalidSequenceNum == -1    \* the largest uint64 of the code

VARIABLES
    ports,      \* ports_ of all the nodes: a function on the live addresses
    names,      \* how many port names have been generated
    stack,      \* stack[n][t]: the ForwardEvent calls pending on a thread
    chan,       \* chan[m][n]: the events written by node m to node n
    held,       \* the ports the embedders hold handles to
    sent,       \* sent[e]: how many messages end e has sent
    received,   \* received[e]: what end e's embedder has read, in order
    closed,     \* the ends that have been closed
    mate,       \* mate[e]: the other end of e's pipe, as merges leave it
    merged      \* the ends that merges have taken out of their pipes

vars == <<ports, names, stack, chan, held, sent, received, closed, mate, merged>>

-----------------------------------------------------------------------------
(* Ports and their queues.                                                  *)

NewPort(e, peer, send, receive, last, peer_closed) ==
    [ end                          |-> e,
      state                        |-> "Receiving",
      peer                         |-> peer,
      next_sequence_num_to_send    |-> send,
      next_sequence_num            |-> receive,
      message_queue                |-> {},
      last_sequence_num_to_receive |-> last,
      peer_closed                  |-> peer_closed,
      remove_proxy_on_last_message |-> FALSE,
      send_on_proxy_removal        |-> << >> ]

(* Mutant: a closed peer's messages are dropped.                            *)
CanAcceptMoreMessages_UntilClosed(port) ==
    ~port.peer_closed /\ ~port.remove_proxy_on_last_message

(* Closed ports are erased at once, so the state kClosed does not occur.    *)
CanAcceptMoreMessages(port) ==
    \/ ~port.peer_closed /\ ~port.remove_proxy_on_last_message
    \/ port.last_sequence_num_to_receive # port.next_sequence_num - 1

(* Mutant: whatever message is queued is the next one.                      *)
HasNextMessage_AnyNumber(port) == port.message_queue # {}

(* The heap's smallest number is the one expected next.                     *)
HasNextMessage(port) ==
    /\ \E m \in port.message_queue : m.sequence_num = port.next_sequence_num
    /\ \A m \in port.message_queue : m.sequence_num >= port.next_sequence_num

(* heap_[0], the message GetNextMessage takes.                              *)
NextMessage(port) ==
    CHOOSE m \in port.message_queue :
        \A o \in port.message_queue : m.sequence_num <= o.sequence_num

TakeMessage(port, m) ==
    [port EXCEPT !.message_queue = @ \ {m}, !.next_sequence_num = @ + 1]

-----------------------------------------------------------------------------
(* Events, and the world a handler works on.                                *)

PortAccepted(to) == [type |-> "PortAccepted", port_name |-> to]

ObserveProxy(to, proxy, target) ==
    [ type         |-> "ObserveProxy",
      port_name    |-> to,
      proxy        |-> proxy,
      proxy_target |-> target ]

ObserveProxyAck(to, last) ==
    [ type              |-> "ObserveProxyAck",
      port_name         |-> to,
      last_sequence_num |-> last ]

ObserveClosure(to, last) ==
    [ type              |-> "ObserveClosure",
      port_name         |-> to,
      last_sequence_num |-> last ]

MergePortEvent(to, from) ==
    [ type        |-> "MergePort",
      port_name   |-> to,
      ports       |-> <<from>>,
      descriptors |-> << >> ]

(* A message the embedder writes: body names it among those of its end.     *)
UserMessage(e, attached) ==
    [ type         |-> "UserMessage",
      port_name    |-> << >>,
      sequence_num |-> 0,
      body         |-> [end |-> e, index |-> sent[e] + 1],
      ports        |-> attached,
      descriptors  |-> << >> ]

World ==
    [ ports  |-> ports,
      names  |-> names,
      held   |-> held,
      closed |-> closed,
      mate   |-> mate,
      merged |-> merged,
      out    |-> << >> ]

Forward(w, event) == [w EXCEPT !.out = Append(@, event)]

ErasePorts(w, erased) ==
    [w EXCEPT !.ports = [p \in DOMAIN @ \ erased |-> @[p]],
              !.held = @ \ erased]

(* The embedder gives up its handles to some ports.                         *)
Release(w, some) == [w EXCEPT !.held = @ \ some]

-----------------------------------------------------------------------------
(* The private member functions of Node.                                    *)

(* Mutant: the state is not changed.                                        *)
Proxied_StillReceiving(port, new) == [port EXCEPT !.peer = new]

(* The proxy left behind by a port that moves to the address new.           *)
Proxied(port, new) ==
    [port EXCEPT
        !.state = "Buffering",
        !.remove_proxy_on_last_message = @ \/ port.peer_closed,
        !.peer = new]

Descriptor(p, port) ==
    [ end                          |-> port.end,
      peer                         |-> port.peer,
      referring                    |-> p,
      next_sequence_num_to_send    |-> port.next_sequence_num_to_send,
      next_sequence_num_to_receive |-> port.next_sequence_num,
      last_sequence_num_to_receive |-> port.last_sequence_num_to_receive,
      peer_closed                  |-> port.peer_closed ]

(* ConvertToProxy for every port attached to message m, which goes to the   *)
(* remote node.                                                             *)
ConvertToProxies(w, m, node) ==
    LET new(i) == <<node, w.names + i>>
        Index(p) == CHOOSE i \in DOMAIN m.ports : m.ports[i] = p
    IN  [ world |->
            [w EXCEPT
                !.names = @ + Len(m.ports),
                !.ports = [p \in DOMAIN @ |->
                             IF p \in ToSet(m.ports)
                             THEN Proxied(@[p], new(Index(p)))
                             ELSE @[p]]],
          message |->
            [m EXCEPT
                !.ports = [i \in DOMAIN @ |-> new(i)],
                !.descriptors = [i \in DOMAIN m.ports |->
                    Descriptor(m.ports[i], w.ports[m.ports[i]])]] ]

(* Mutant: a remote target is treated like a local one.                     *)
PrepareToForwardUserMessage_Locally(w, p, m) ==
    LET next == w.ports[p].next_sequence_num_to_send
        fresh == m.sequence_num = 0
    IN  Forward([w EXCEPT !.ports[p].next_sequence_num_to_send =
                    IF fresh THEN @ + 1 ELSE @],
                [m EXCEPT !.sequence_num = IF fresh THEN next ELSE @,
                          !.port_name = w.ports[p].peer])

(* The successful path of PrepareToForwardUserMessage at port p, and the    *)
(* ForwardEvent its callers then make.                                      *)
PrepareToForwardUserMessage(w, p, m) ==
    LET port == w.ports[p]
        numbered ==
            IF m.sequence_num = 0
            THEN [w EXCEPT !.ports[p].next_sequence_num_to_send = @ + 1]
            ELSE w
        routed == [m EXCEPT
                     !.sequence_num = IF @ = 0
                                      THEN port.next_sequence_num_to_send
                                      ELSE @,
                     !.port_name = port.peer]
    IN  IF port.peer[1] = p[1]
        THEN Forward(numbered, routed)
        ELSE LET moved == ConvertToProxies(numbered, routed, port.peer[1])
             IN  Forward(moved.world, moved.message)

(* The loop ends when the queue has no message in sequence.                 *)
ForwardUserMessagesFromProxy(w, p) ==
    LET ForwardNext(u) ==
            LET m == NextMessage(u.ports[p])
            IN  IF HasNextMessage(u.ports[p])
                THEN PrepareToForwardUserMessage(
                         [u EXCEPT !.ports[p] = TakeMessage(@, m)], p, m)
                ELSE u
        rounds == Cardinality(w.ports[p].message_queue)
        after[i \in 0 .. rounds] ==
            IF i = 0 THEN w ELSE ForwardNext(after[i - 1])
    IN  after[rounds]

InitiateProxyRemoval(w, p) ==
    Forward(w, ObserveProxy(w.ports[p].peer, p, w.ports[p].peer))

(* Mutant: the last message is not waited for.                              *)
TryRemoveProxy_AtOnce(w, p) ==
    IF w.ports[p].remove_proxy_on_last_message
    THEN [ErasePorts(w, {p}) EXCEPT
            !.out = @ \o w.ports[p].send_on_proxy_removal]
    ELSE w

TryRemoveProxy(w, p) ==
    LET port == w.ports[p]
    IN  IF port.remove_proxy_on_last_message /\ ~CanAcceptMoreMessages(port)
        THEN [ErasePorts(w, {p}) EXCEPT !.out = @ \o port.send_on_proxy_removal]
        ELSE w

(* The ports a queue's messages carry.                                      *)
Attached(port) == UNION {ToSet(m.ports) : m \in port.message_queue}

(* Mutant: the ports carried by unread messages are left open.              *)
ClosePorts_Only(w, roots) ==
    LET closing == roots \cap DOMAIN w.ports
    IN  [ErasePorts(w, closing) EXCEPT
            !.closed = @ \cup {w.ports[p].end : p \in closing},
            !.out = @ \o SetToSeq({
                ObserveClosure(w.ports[p].peer,
                               w.ports[p].next_sequence_num_to_send - 1) :
                p \in closing})]

(* ClosePort on each of a set of ports, and so on the ports that their      *)
(* unread messages carry.  Each that receives is erased, and its peer is    *)
(* told the number of the last message it sent; others are left alone.      *)
ClosePorts(w, roots) ==
    LET live(S) == {p \in S \cap DOMAIN w.ports : w.ports[p].state = "Receiving"}
        depth == Cardinality(DOMAIN w.ports)
        reach[n \in 0 .. depth] ==
            IF n = 0 THEN live(roots)
            ELSE reach[n - 1] \cup
                 live(UNION {Attached(w.ports[p]) : p \in reach[n - 1]})
        closing == reach[depth]
        Notice(p) == ObserveClosure(w.ports[p].peer,
                                    w.ports[p].next_sequence_num_to_send - 1)
        order == CHOOSE s \in SetToSeqs(closing) :
                     \A i, j \in DOMAIN s :
                         i < j => w.ports[s[i]].end <= w.ports[s[j]].end
    IN  [ErasePorts(w, closing) EXCEPT
            !.closed = @ \cup {w.ports[p].end : p \in closing},
            !.out = @ \o [i \in DOMAIN order |-> Notice(order[i])]]

(* An ObserveProxy for no port in particular tells node n that a proxy is   *)
(* gone; for the node Everyone, it is a call of BroadcastEvent.             *)
Everyone == 0
DeadProxy(n, p) == ObserveProxy(<<n, InvalidPortName>>, p, <<Everyone, InvalidPortName>>)

(* A ClosePort call that a handler makes after other calls.                 *)
ClosePortCall(p) == [type |-> "ClosePort", port_name |-> p]

(* The ports of node n whose peer is the given port or, if that names none, *)
(* any port of its node.                                                    *)
PortsWithPeer(w, n, peer) ==
    {p \in DOMAIN w.ports :
        /\ p[1] = n
        /\ \/ w.ports[p].peer = peer
           \/ <<w.ports[p].peer[1], InvalidPortName>> = peer}

(* What the peer's loss does to a port: as if the peer had been closed      *)
(* after the last message that arrived in sequence.                         *)
WithoutPeer(port) ==
    IF port.peer_closed THEN port
    ELSE [port EXCEPT !.peer_closed = TRUE,
                      !.last_sequence_num_to_receive = port.next_sequence_num - 1]

(* Mutant: only the node of a dead proxy learns of its death.               *)
Announce_Locally(p) == <<DeadProxy(p[1], p)>>

(* A dead proxy is announced to the other nodes, then to its own.           *)
Announce(p) == <<DeadProxy(Everyone, p), DeadProxy(p[1], p)>>

(* Every port that has lost its peer is closed or, if it is a proxy,        *)
(* erased.  The deaths are announced one by one, and last the ports that    *)
(* the proxies' messages carry are closed.                                  *)
DestroyAllPortsWithPeer(w, n, peer) ==
    LET hit == PortsWithPeer(w, n, peer)
        dead == {p \in hit : w.ports[p].state # "Receiving"}
        undelivered == UNION {Attached(w.ports[p]) : p \in dead}
        ByName(p, q) == p[2] < q[2]
        CallsFor(F(_), some) == [i \in 1 .. Cardinality(some) |->
                                F(SetToSortSeq(some, ByName)[i])]
        notified == [w EXCEPT !.ports = [p \in DOMAIN @ |->
                        IF p \in hit THEN WithoutPeer(@[p]) ELSE @[p]]]
    IN  [ErasePorts(notified, dead) EXCEPT
            !.out = @ \o FlattenSeq(CallsFor(Announce, dead))
                      \o CallsFor(ClosePortCall, undelivered)]

(* Mutant: the new port is not added to the node.                           *)
AcceptPorts_NotAdded(w, m) ==
    IF m.descriptors = << >> THEN w
    ELSE [w EXCEPT !.out = @ \o [i \in DOMAIN m.ports |->
                                   PortAccepted(m.descriptors[i].referring)]]

(* AcceptPort for every descriptor of message m: the port comes to life     *)
(* here, and the one it left behind may start to forward.                   *)
AcceptPorts(w, m) ==
    LET Accepted(p) ==
            LET d == m.descriptors[CHOOSE i \in DOMAIN m.ports : m.ports[i] = p]
            IN  NewPort(d.end, d.peer, d.next_sequence_num_to_send,
                        d.next_sequence_num_to_receive,
                        d.last_sequence_num_to_receive, d.peer_closed)
        new == ToSet(m.ports)
    IN  IF m.descriptors = << >> THEN w
        ELSE [w EXCEPT
                !.ports = [p \in DOMAIN @ \cup new |->
                             IF p \in new THEN Accepted(p) ELSE @[p]],
                !.out = @ \o [i \in DOMAIN m.ports |->
                                PortAccepted(m.descriptors[i].referring)]]

-----------------------------------------------------------------------------
(* The event handlers of Node.                                              *)

OnUserMessage(w, event) ==
    LET p == event.port_name
        bound == AcceptPorts(w, event)
        m == [event EXCEPT !.descriptors = << >>]
        queued == [bound EXCEPT !.ports[p].message_queue = @ \cup {m}]
    IN  IF p \notin DOMAIN w.ports \/ ~CanAcceptMoreMessages(w.ports[p])
        THEN ClosePorts(bound, ToSet(m.ports))
        ELSE IF w.ports[p].state = "Proxying"
        THEN TryRemoveProxy(ForwardUserMessagesFromProxy(queued, p), p)
        ELSE queued

(* Mutant: a closure noted while buffering is not passed on.                *)
BeginProxying_Silently(w, p) ==
    LET flushed == ForwardUserMessagesFromProxy(
                       [w EXCEPT !.ports[p].state = "Proxying"], p)
    IN  IF flushed.ports[p].remove_proxy_on_last_message
        THEN TryRemoveProxy(flushed, p)
        ELSE InitiateProxyRemoval(flushed, p)

BeginProxying(w, p) ==
    LET flushed == ForwardUserMessagesFromProxy(
                       [w EXCEPT !.ports[p].state = "Proxying"], p)
        port == flushed.ports[p]
    IN  IF port.remove_proxy_on_last_message
        THEN Forward(TryRemoveProxy(flushed, p),
                     ObserveClosure(port.peer,
                                    port.last_sequence_num_to_receive))
        ELSE InitiateProxyRemoval(flushed, p)

OnPortAccepted(w, event) ==
    IF event.port_name \in DOMAIN w.ports
    THEN BeginProxying(w, event.port_name)
    ELSE w

(* Mutant: the acknowledgement is sent to the new peer.                     *)
OnObserveProxy_AcksTarget(w, event) ==
    LET p == event.port_name
        port == w.ports[p]
    IN  IF p \notin DOMAIN w.ports THEN w
        ELSE IF port.peer # event.proxy
        THEN Forward(w, [event EXCEPT !.port_name = port.peer])
        ELSE Forward([w EXCEPT !.ports[p].peer = event.proxy_target],
                     ObserveProxyAck(event.proxy_target,
                                     port.next_sequence_num_to_send - 1))

OnObserveProxy(w, event) ==
    LET p == event.port_name
        port == w.ports[p]
    IN  IF p[2] = InvalidPortName
        THEN DestroyAllPortsWithPeer(w, p[1], event.proxy)
        ELSE IF p \notin DOMAIN w.ports THEN w
        ELSE IF port.peer # event.proxy
        THEN Forward(w, [event EXCEPT !.port_name = port.peer])
        ELSE IF port.state = "Receiving"
        THEN Forward([w EXCEPT !.ports[p].peer = event.proxy_target],
                     ObserveProxyAck(event.proxy,
                                     port.next_sequence_num_to_send - 1))
        ELSE [w EXCEPT !.ports[p].send_on_proxy_removal =
                  <<ObserveProxyAck(event.proxy, InvalidSequenceNum)>>]

(* Mutant: a proxy asked to announce itself again does not.                 *)
OnObserveProxyAck_NoRetry(w, event) ==
    LET p == event.port_name
        last == event.last_sequence_num
    IN  IF p \notin DOMAIN w.ports \/ last = InvalidSequenceNum THEN w
        ELSE TryRemoveProxy(
               [w EXCEPT
                  !.ports[p].remove_proxy_on_last_message = TRUE,
                  !.ports[p].last_sequence_num_to_receive = last], p)

OnObserveProxyAck(w, event) ==
    LET p == event.port_name
        last == event.last_sequence_num
    IN  IF p \notin DOMAIN w.ports THEN w
        ELSE IF last = InvalidSequenceNum
        THEN InitiateProxyRemoval(w, p)
        ELSE TryRemoveProxy(
               [w EXCEPT
                  !.ports[p].remove_proxy_on_last_message = TRUE,
                  !.ports[p].last_sequence_num_to_receive = last], p)

OnObserveClosure(w, event) ==
    LET p == event.port_name
        port == w.ports[p]
        receiving == port.state = "Receiving"
        noted == [w EXCEPT
                    !.ports[p].peer_closed = TRUE,
                    !.ports[p].last_sequence_num_to_receive =
                        event.last_sequence_num,
                    !.ports[p].remove_proxy_on_last_message =
                        @ \/ ~receiving]
        last == IF receiving THEN port.next_sequence_num_to_send - 1
                ELSE event.last_sequence_num
    IN  IF p \notin DOMAIN w.ports THEN w
        ELSE Forward(IF port.state = "Proxying" THEN TryRemoveProxy(noted, p)
                     ELSE noted,
                     ObserveClosure(port.peer, last))

(* Mutant: the embedders of the merged ends are not told of a closure.      *)
CompleteMerge_Silently(w, p) ==
    IF w.ports[p].remove_proxy_on_last_message
    THEN TryRemoveProxy(w, p)
    ELSE InitiateProxyRemoval(w, p)

(* What MergePortsInternal does with each of the two new proxies.           *)
CompleteMerge(w, p) ==
    LET port == w.ports[p]
    IN  IF port.remove_proxy_on_last_message
        THEN Forward(TryRemoveProxy(w, p),
                     ObserveClosure(port.peer,
                                    port.last_sequence_num_to_receive))
        ELSE InitiateProxyRemoval(w, p)

(* The ends whose pipes are joined are those the ports p and q lead to.     *)
JoinEnds(w, p, q) ==
    LET e == w.ports[p].end
        f == w.ports[q].end
    IN  [w EXCEPT
            !.mate = [@ EXCEPT ![w.mate[e]] = w.mate[f], ![w.mate[f]] = w.mate[e]],
            !.merged = @ \cup {e, f},
            !.held = @ \ {p, q}]

(* Mutant: a port that has sent messages is merged all the same.            *)
CanMerge_EvenIfUsed(w, p, q) ==
    /\ w.ports[p].state = "Receiving"
    /\ w.ports[q].state = "Receiving"
    /\ w.ports[p].peer # q
    /\ w.ports[q].peer # p

CanMerge(w, p, q) ==
    /\ \A r \in {p, q} :
          /\ w.ports[r].state = "Receiving"
          /\ w.ports[r].next_sequence_num_to_send = InitialSequenceNum
    /\ w.ports[p].peer # q
    /\ w.ports[q].peer # p

(* Ports p and q, both of which an embedder or the node controller holds,   *)
(* become proxies of each other's peers; if they cannot they are closed.    *)
MergePortsInternal(w, p, q) ==
    LET Proxy(port, peer) ==
            [port EXCEPT
                !.peer = peer,
                !.state = "Proxying",
                !.remove_proxy_on_last_message = @ \/ port.peer_closed]
        swapped == [JoinEnds(w, p, q) EXCEPT
                      !.ports[p] = Proxy(@, w.ports[q].peer),
                      !.ports[q] = Proxy(@, w.ports[p].peer)]
        flushed == ForwardUserMessagesFromProxy(
                       ForwardUserMessagesFromProxy(swapped, p), q)
    IN  IF CanMerge(w, p, q)
        THEN CompleteMerge(CompleteMerge(flushed, p), q)
        ELSE ClosePorts(w, {p, q})

OnMergePort(w, event) ==
    LET p == event.port_name
        new == event.ports[1]
        bound == AcceptPorts(w, event)
    IN  IF p \in DOMAIN w.ports
        THEN MergePortsInternal(bound, p, new)
        ELSE ClosePorts(bound, {new})

AcceptEvent(w, event) ==
    CASE event.type = "UserMessage"     -> OnUserMessage(w, event)
      [] event.type = "PortAccepted"    -> OnPortAccepted(w, event)
      [] event.type = "ObserveProxy"    -> OnObserveProxy(w, event)
      [] event.type = "ObserveProxyAck" -> OnObserveProxyAck(w, event)
      [] event.type = "ObserveClosure"  -> OnObserveClosure(w, event)
      [] event.type = "MergePort"       -> OnMergePort(w, event)
      [] event.type = "ClosePort"       -> ClosePorts(w, {event.port_name})

-----------------------------------------------------------------------------
(* The threads.                                                             *)

Init ==
    /\ ports = [p \in {Home(e) : e \in Ends} |->
                  NewPort(p[2], Home(Other(p[2])), InitialSequenceNum,
                          InitialSequenceNum, 0, FALSE)]
    /\ names = Cardinality(Ends)
    /\ stack = [n \in Nodes |-> [t \in Threads |-> << >>]]
    /\ chan = [m \in Nodes |-> [n \in Nodes |-> << >>]]
    /\ held = {Home(e) : e \in Ends}
    /\ sent = [e \in Ends |-> 0]
    /\ received = [e \in Ends |-> << >>]
    /\ closed = {}
    /\ mate = [e \in Ends |-> Other(e)]
    /\ merged = {}

(* Thread t of node n has run a handler that ended in world w; its events   *)
(* are forwarded before those the callers of the handler still hold.        *)
Commit(n, t, w, rest) ==
    \E after \in {w} :
        /\ ports' = after.ports
        /\ names' = after.names
        /\ held' = after.held
        /\ closed' = after.closed
        /\ mate' = after.mate
        /\ merged' = after.merged
        /\ stack' = [stack EXCEPT ![n][t] = after.out \o rest]

(* The embedder calls the API with a handle it holds.                       *)
Calls(p) ==
    /\ p \in held
    /\ stack[p[1]][CallingThread] = << >>

(* The handles it may attach to a message of p: at most one, of the same    *)
(* node; p's own peer is refused by the code.                               *)
Attachable(p) ==
    {<< >>} \cup
    {<<q>> : q \in {q \in held :
                      /\ q[1] = p[1]
                      /\ \/ <<ports[p].end, ports[q].end>> \in Carries
                         \/ q = ports[p].peer}}

(* Mutant: messages are sent to a peer known to be closed.                  *)
Refused_OnlyPeer(p, attached) == ports[p].peer \in ToSet(attached)

Refused(p, attached) ==
    ports[p].peer_closed \/ ports[p].peer \in ToSet(attached)

SendUserMessage(p) ==
    \E attached \in Attachable(p) :
        LET e == ports[p].end
            message == UserMessage(e, attached)
        IN  /\ sent[e] < MaxSends[e]
            /\ Calls(p)
            /\ ~Refused(p, attached)
            /\ Commit(p[1], CallingThread,
                      PrepareToForwardUserMessage(
                          Release(World, ToSet(attached)), p, message),
                      << >>)
            /\ sent' = [sent EXCEPT ![e] = @ + 1]
            /\ UNCHANGED <<chan, received>>

(* A send that fails closes the ports the message carries.                  *)
SendUserMessageFails(p) ==
    \E attached \in Attachable(p) :
        /\ sent[ports[p].end] < MaxSends[ports[p].end]
        /\ Calls(p)
        /\ attached # << >>
        /\ Refused(p, attached)
        /\ Commit(p[1], CallingThread,
                  ClosePorts(World, ToSet(attached)), << >>)
        /\ UNCHANGED <<chan, sent, received>>

GetMessage(p) ==
    LET port == ports[p]
        message == NextMessage(port)
    IN  /\ Calls(p)
        /\ ReadBeforeMerge \/ port.end \notin ToMerge
        /\ CanAcceptMoreMessages(port)
        /\ HasNextMessage(port)
        /\ ports' = [ports EXCEPT ![p] = TakeMessage(@, message)]
        /\ held' = held \cup ToSet(message.ports)
        /\ received' = [received EXCEPT ![port.end] = Append(@, message.body)]
        /\ UNCHANGED <<names, stack, chan, sent, closed, mate, merged>>

ClosePort(p) ==
    /\ Calls(p)
    /\ ports[p].end \in MayClose
    /\ Commit(p[1], CallingThread, ClosePorts(World, {p}), << >>)
    /\ UNCHANGED <<chan, sent, received>>

(* The embedder fuses two pipes whose ends it holds.                        *)
MergeLocalPorts(p, q) ==
    /\ Calls(p)
    /\ q \in held
    /\ p[1] = q[1]
    /\ <<ports[p].end, ports[q].end>> \in Merges
    /\ Commit(p[1], CallingThread, MergePortsInternal(World, p, q), << >>)
    /\ UNCHANGED <<chan, sent, received>>

(* OnRequestPortMerge: the IO thread of a node that has invited another one *)
(* sends it the port it has reserved, to be merged with a port there.       *)
MergePorts(p, e) ==
    LET to == Home(e)
        moved == ConvertToProxies(Release(World, {p}), MergePortEvent(to, p), to[1])
    IN  /\ p \in held
        /\ p[1] # to[1]
        /\ <<ports[p].end, e>> \in Merges
        /\ stack[p[1]]["io"] = << >>
        /\ Commit(p[1], "io", Forward(moved.world, moved.message), << >>)
        /\ UNCHANGED <<chan, sent, received>>

(* ForwardEvent for another node: the event is written to its channel.      *)
SendPeerEvent(n, t) ==
    LET event == Head(stack[n][t])
    IN  /\ stack[n][t] # << >>
        /\ event.port_name[1] # n
        /\ chan' = [chan EXCEPT ![n][event.port_name[1]] = Append(@, event)]
        /\ stack' = [stack EXCEPT ![n][t] = Tail(@)]
        /\ UNCHANGED <<ports, names, held, sent, received, closed, mate, merged>>

(* ForwardEvent for the same node: a nested call of AcceptEvent.            *)
AcceptLocalEvent(n, t) ==
    LET event == Head(stack[n][t])
    IN  /\ stack[n][t] # << >>
        /\ event.port_name[1] = n
        /\ Commit(n, t, AcceptEvent(World, event), Tail(stack[n][t]))
        /\ UNCHANGED <<chan, sent, received>>

(* The IO thread of node n accepts the next event from node m.              *)
OnEventMessage(m, n) ==
    /\ chan[m][n] # << >>
    /\ stack[n]["io"] = << >>
    /\ Commit(n, "io", AcceptEvent(World, Head(chan[m][n])), << >>)
    /\ chan' = [chan EXCEPT ![m][n] = Tail(@)]
    /\ UNCHANGED <<sent, received>>

Embedder ==
    \E p \in held : \/ SendUserMessage(p)
                    \/ SendUserMessageFails(p)
                    \/ GetMessage(p)
                    \/ ClosePort(p)
                    \/ \E q \in held : MergeLocalPorts(p, q)

Thread(n, t) == SendPeerEvent(n, t) \/ AcceptLocalEvent(n, t)

Next ==
    \/ Embedder
    \/ \E n \in Nodes, t \in Threads : Thread(n, t)
    \/ \E m, n \in Nodes : OnEventMessage(m, n)
    \/ \E p \in held, e \in Ends : MergePorts(p, e)

Spec == Init /\ [][Next]_vars

-----------------------------------------------------------------------------
(* What is under way.                                                       *)

(* The places an event can be at, each with the event.                      *)
UnderWay ==
    (UNION {{[from |-> n, to |-> n, by |-> t, place |-> i,
              event |-> stack[n][t][i]] : i \in DOMAIN stack[n][t]} :
              n \in Nodes, t \in Threads})
    \cup
    (UNION {{[from |-> m, to |-> n, by |-> "channel", place |-> i,
              event |-> chan[m][n][i]] : i \in DOMAIN chan[m][n]} :
              m, n \in Nodes})

MessagesUnderWay == {u \in UnderWay : u.event.type = "UserMessage"}

(* The events that bring a port to another node, and the ports they bring.  *)
CarriersUnderWay ==
    {u \in UnderWay : u.event.type \in {"UserMessage", "MergePort"}}

Quiet == UnderWay = {}

PortsOf(e) == {p \in DOMAIN ports : ports[p].end = e}

ReceivingPorts(e) == {p \in PortsOf(e) : ports[p].state = "Receiving"}

(* How many copies of a message are queued or under way.                    *)
Copies(body) ==
    Cardinality({u \in MessagesUnderWay : u.event.body = body})
      + Cardinality({p \in DOMAIN ports :
                       \E m \in ports[p].message_queue : m.body = body})

-----------------------------------------------------------------------------
(* Properties.                                                              *)

Addresses == Nodes \X (1 .. names)

(* Every variable has its type; ports have peers and states of the code.    *)
TypeOK ==
    /\ names \in Nat
    /\ DOMAIN ports \subseteq Addresses
    /\ \A p \in DOMAIN ports :
         /\ ports[p].state \in {"Receiving", "Buffering", "Proxying"}
         /\ ports[p].end \in Ends
         /\ ports[p].peer \in Addresses
         /\ ports[p].next_sequence_num \in Nat
         /\ ports[p].next_sequence_num_to_send \in Nat
         /\ ports[p].last_sequence_num_to_receive \in Nat
         /\ ports[p].peer_closed \in BOOLEAN
         /\ ports[p].remove_proxy_on_last_message \in BOOLEAN
    /\ \A u \in UnderWay : u.event.port_name \in Addresses
    /\ held \subseteq DOMAIN ports
    /\ sent \in [Ends -> Nat]
    /\ closed \subseteq Ends
    /\ mate \in [Ends -> Ends]
    /\ merged \subseteq Ends

(* What an end reads are the messages of the other end, each once, in the   *)
(* order they were sent, whatever routes they took (message_queue.h: the    *)
(* queue enforces message ordering for the consumer).                       *)
ReceivedInOrder ==
    \A e \in Ends :
        /\ Len(received[e]) <= sent[mate[e]]
        /\ \A i \in DOMAIN received[e] :
              received[e][i] = [end |-> mate[e], index |-> i]

(* As long as the reading end is open, every message sent and not yet read  *)
(* is queued or under way, in one copy: no proxy is erased, and no port     *)
(* stops accepting, while a message still has to pass it.                   *)
NothingLost ==
    \A e \in Ends : mate[e] \notin closed =>
        \A i \in Len(received[mate[e]]) + 1 .. sent[e] :
            Copies([end |-> e, index |-> i]) = 1

(* port.h: at most two receiving ports on a route.  An open end is one      *)
(* receiving port, or a descriptor under way to its next node, never both   *)
(* and never neither; a closed or merged one is nowhere.                    *)
EndInOnePlace ==
    \A e \in Ends :
        Cardinality(ReceivingPorts(e))
          + Cardinality({u \in CarriersUnderWay :
                           \E i \in DOMAIN u.event.descriptors :
                               u.event.descriptors[i].end = e})
        = (IF e \in closed \cup merged THEN 0 ELSE 1)

(* The NOTREACHED branches of OnObserveProxyAck and BeginProxying: an ack   *)
(* meets a proxy that forwards, or none; an acceptance meets a proxy that   *)
(* still buffers.                                                           *)
EventsExpected ==
    \A u \in UnderWay :
        LET e == u.event
            p == e.port_name
        IN  /\ e.type = "ObserveProxyAck" /\ p \in DOMAIN ports =>
                  ports[p].state = "Proxying"
            /\ e.type = "PortAccepted" =>
                  /\ p \in DOMAIN ports
                  /\ ports[p].state = "Buffering"

(* The DCHECKs of GetMessage and ConvertToProxy, and the error return of    *)
(* OnUserMessage: the ports carried by a message that is queued, or on its  *)
(* way inside a node, exist there, can receive, and no embedder uses them.  *)
AttachedPortsReady ==
    LET Ready(q, n) == /\ q \in DOMAIN ports \ held
                       /\ ports[q].state = "Receiving"
                       /\ q[1] = n
    IN  /\ \A p \in DOMAIN ports : \A q \in Attached(ports[p]) : Ready(q, p[1])
        /\ \A u \in CarriersUnderWay :
              u.event.descriptors = << >> =>
                  \A q \in ToSet(u.event.ports) : Ready(q, u.to)

(* A port nobody can reach any more has been closed ("we need to take care  *)
(* to close those ports so as to avoid leaking memory"): the embedder holds *)
(* it, or a message that is queued or under way carries it.                 *)
NoOrphanedPort ==
    \A e \in Ends : \A p \in ReceivingPorts(e) :
        \/ p \in held
        \/ \E q \in DOMAIN ports : p \in Attached(ports[q])
        \/ \E u \in CarriersUnderWay : p \in ToSet(u.event.ports)

(* Ports that travel in messages are neither used twice nor leaked,         *)
(* wherever the carrying message meets ports that move, merge or close.     *)
CarriedPortsSafe == AttachedPortsReady /\ NoOrphanedPort

(* When no event is under way the graph is as if nothing had ever moved:    *)
(* no proxy is left, and open ends point at each other.  It is checked      *)
(* where a route changes by one merge and one moving end, and one thread of *)
(* each node forwards events; NoStrandedProxy, below, fails where both ends *)
(* of a pipe move.                                                          *)
RoutesSettle ==
    Quiet =>
        \A e \in Ends : \A p \in PortsOf(e) :
            /\ ports[p].state = "Receiving"
            /\ mate[e] \notin closed =>
                  ReceivingPorts(mate[e]) = {ports[p].peer}

(* When no event is under way, an end knows that the other end was closed   *)
(* exactly when it was, and knows the number of its last message: closure   *)
(* is never lost on the way through ports that move at the same time.       *)
ClosureKnown ==
    Quiet =>
        \A e \in Ends : \A p \in ReceivingPorts(e) :
            /\ ports[p].peer_closed <=> mate[e] \in closed
            /\ ports[p].peer_closed =>
                  ports[p].last_sequence_num_to_receive = sent[mate[e]]

(* Once the events that moving, merging and closing caused have been        *)
(* handled, the graph is what it would have been had nothing moved.         *)
GraphSettles == RoutesSettle /\ ClosureKnown

(* node.cc, InitiateProxyRemoval: "Eventually, this node will receive       *)
(* ObserveProxyAck (or ObserveClosure if the peer was closed in the         *)
(* meantime)."  So no proxy that forwards is left when no event is under    *)
(* way.                                                                     *)
NoStrandedProxy ==
    Quiet => \A p \in DOMAIN ports : ports[p].state # "Proxying"

(* The ends that GetMessage tells their peer is closed, those that are      *)
(* moving included.                                                         *)
Told ==
    {e \in Ends :
        \E p \in ReceivingPorts(e) : ~CanAcceptMoreMessages(ports[p])}
    \cup
    {e \in Ends :
        \E u \in CarriersUnderWay : \E i \in DOMAIN u.event.descriptors :
            LET d == u.event.descriptors[i]
            IN  /\ d.end = e
                /\ d.peer_closed
                /\ d.last_sequence_num_to_receive
                     = d.next_sequence_num_to_receive - 1}

Pipe == INSTANCE MessagePipe WITH PipeCount <- Len(Pipes), told <- Told

(* Wherever the ends move and whatever routes the events take, the          *)
(* embedders see message pipes.                                             *)
ImplementsMessagePipe == Pipe!Spec

=============================================================================
