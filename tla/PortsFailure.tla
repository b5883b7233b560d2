---------------------------- MODULE PortsFailure ----------------------------
(***************************************************************************)
(* The port graph when a node may die: how the node controllers find out,   *)
(* and what becomes of the routes that led through the dead node.           *)
(*                                                                         *)
(* A controller writes to the channels of its peers.  For a node that is    *)
(* not a peer it asks the broker for an introduction and keeps the events   *)
(* until the answer comes.  When a channel fails, or an introduction is     *)
(* refused, every port whose peer is on that node is closed or, if it is a  *)
(* proxy, erased, and its death is broadcast by way of the broker.          *)
(***************************************************************************)
EXTENDS Ports

CONSTANTS
    Broker,     \* the broker's node, which does not die
    MayCrash    \* bound: the nodes that may

ASSUME BrokerAssumption == Broker \in Nodes /\ MayCrash \subseteq Nodes \ {Broker}

VARIABLES
    crashed,    \* the nodes that have died
    peers,      \* peers[n]: peers_ of n's controller
    pending     \* pending[n][m]: pending_peer_messages_, events of n for m

network == <<crashed, peers, pending>>
allVars == <<vars, network>>

ControlMessages == {"Broadcast", "RequestIntroduction", "Introduce"}

(* Nodes whose ports are joined have been introduced.                       *)
Introduced(n) ==
    {m \in Nodes \ {n} : Broker \in {m, n} \/ {m, n} \in {ToSet(pipe) : pipe \in ToSet(Pipes)}}

FailInit ==
    /\ Init
    /\ crashed = {}
    /\ peers = [n \in Nodes |-> Introduced(n)]
    /\ pending = [n \in Nodes |-> [m \in Nodes |-> << >>]]

(* The channels after node n has written a sequence of messages to m.  What *)
(* is written to a dead node is lost.                                       *)
Written(channels, n, m, messages) ==
    IF m \in crashed THEN channels
    ELSE [channels EXCEPT ![n][m] = @ \o messages]

-----------------------------------------------------------------------------
(* The process of node n dies: its ports, the calls its threads were in and *)
(* what it had not read are gone.  What it had written can still be read.   *)
Crash(n) ==
    /\ n \in MayCrash \ crashed
    /\ crashed' = crashed \cup {n}
    /\ ports' = [p \in {p \in DOMAIN ports : p[1] # n} |-> ports[p]]
    /\ held' = {p \in held : p[1] # n}
    /\ stack' = [stack EXCEPT ![n] = [t \in Threads |-> << >>]]
    /\ chan' = [m \in Nodes |-> [chan[m] EXCEPT ![n] = << >>]]
    /\ peers' = [peers EXCEPT ![n] = {}]
    /\ pending' = [pending EXCEPT ![n] = [m \in Nodes |-> << >>]]
    /\ UNCHANGED <<names, sent, received, closed, mate, merged>>

LostConnectionToNode(w, n, m) == DestroyAllPortsWithPeer(w, n, <<m, InvalidPortName>>)

(* Node n has read the last of what the dead node m wrote, and drops it.    *)
OnChannelError(m, n) ==
    /\ m \in crashed \cap peers[n]
    /\ chan[m][n] = << >>
    /\ stack[n]["io"] = << >>
    /\ peers' = [peers EXCEPT ![n] = @ \ {m}]
    /\ pending' = [pending EXCEPT ![n][m] = << >>]
    /\ Commit(n, "io", LostConnectionToNode(World, n, m), << >>)
    /\ UNCHANGED <<chan, sent, received, crashed>>

-----------------------------------------------------------------------------
(* ForwardEvent for another node, and BroadcastEvent.                       *)

(* The channels after node n has handled a broadcast as the broker does:    *)
(* a copy of the event goes to every peer.                                  *)
OnBroadcast(channels, n, event) ==
    [channels EXCEPT ![n] = [m \in Nodes |->
        IF m \in peers[n] \ crashed
        THEN Append(@[m], DeadProxy(m, event.proxy)) ELSE @[m]]]

BroadcastEvent(n, t) ==
    LET event == Head(stack[n][t])
    IN  /\ stack[n][t] # << >>
        /\ event.port_name[1] = Everyone
        /\ chan' = IF n = Broker THEN OnBroadcast(chan, n, event)
                   ELSE Written(chan, n, Broker, <<[event EXCEPT !.type = "Broadcast"]>>)
        /\ stack' = [stack EXCEPT ![n][t] = Tail(@)]
        /\ UNCHANGED <<ports, names, held, sent, received, closed, mate, merged, network>>

(* A peer's channel takes the event; the broker drops what is for a node it *)
(* does not know; any other node asks to be introduced.                     *)
SendEvent(n, t) ==
    LET event == Head(stack[n][t])
        m == event.port_name[1]
        request == [type |-> "RequestIntroduction", name |-> m]
    IN  /\ stack[n][t] # << >>
        /\ m \notin {n, Everyone}
        /\ \/ /\ m \in peers[n]
              /\ chan' = Written(chan, n, m, <<event>>)
              /\ UNCHANGED pending
           \/ /\ m \notin peers[n]
              /\ n = Broker
              /\ UNCHANGED <<chan, pending>>
           \/ /\ m \notin peers[n]
              /\ n # Broker
              /\ pending' = [pending EXCEPT ![n][m] = Append(@, event)]
              /\ chan' = IF pending[n][m] = << >>
                         THEN Written(chan, n, Broker, <<request>>) ELSE chan
        /\ stack' = [stack EXCEPT ![n][t] = Tail(@)]
        /\ UNCHANGED <<ports, names, held, sent, received, closed, mate, merged,
                       crashed, peers>>

-----------------------------------------------------------------------------
(* The IO thread of node n takes the next message from m's channel.         *)

Takes(m, n, type) ==
    /\ chan[m][n] # << >>
    /\ Head(chan[m][n]).type = type
    /\ stack[n]["io"] = << >>

Taken(m, n) == [chan EXCEPT ![m][n] = Tail(@)]

AcceptsEvent(m, n) ==
    /\ chan[m][n] # << >>
    /\ m \in peers[n]
    /\ Head(chan[m][n]).type \notin ControlMessages
    /\ OnEventMessage(m, n)
    /\ UNCHANGED network

RelaysBroadcast(m, n) ==
    /\ Takes(m, n, "Broadcast")
    /\ chan' = OnBroadcast(Taken(m, n), n, Head(chan[m][n]))
    /\ UNCHANGED <<ports, names, held, stack, sent, received, closed, mate, merged, network>>

(* The broker creates a channel and gives one end of it to each node, or    *)
(* refuses.                                                                 *)
OnRequestIntroduction(m, n) ==
    LET name == Head(chan[m][n]).name
        known == name \in peers[n]
        Introduce(k, valid) == <<[type |-> "Introduce", name |-> k, valid |-> valid]>>
        answered == Written(Taken(m, n), n, m, Introduce(name, known))
    IN  /\ Takes(m, n, "RequestIntroduction")
        /\ chan' = IF known THEN Written(answered, n, name, Introduce(m, TRUE)) ELSE answered
        /\ UNCHANGED <<ports, names, held, stack, sent, received, closed, mate, merged, network>>

(* Mutant: the events kept for a new peer are forgotten.                    *)
AddPeer_Forgets(channels, n, m) == channels

(* The channels after node n has connected to m.                            *)
AddPeer(channels, n, m) == Written(channels, n, m, pending[n][m])

(* With a channel, the new peer gets the events kept for it; without one,   *)
(* the connection is lost.                                                  *)
OnIntroduce(m, n) ==
    LET name == Head(chan[m][n]).name
    IN  /\ Takes(m, n, "Introduce")
        /\ IF Head(chan[m][n]).valid
           THEN /\ peers' = [peers EXCEPT ![n] = @ \cup {name}]
                /\ chan' = AddPeer(Taken(m, n), n, name)
                /\ UNCHANGED <<ports, names, held, closed, mate, merged, stack>>
           ELSE /\ Commit(n, "io", LostConnectionToNode(World, n, name), << >>)
                /\ chan' = Taken(m, n)
                /\ UNCHANGED peers
        /\ pending' = [pending EXCEPT ![n][name] = << >>]
        /\ UNCHANGED <<sent, received, crashed>>

NetworkStep ==
    \/ \E n \in Nodes, t \in Threads :
          \/ AcceptLocalEvent(n, t) /\ UNCHANGED network
          \/ SendEvent(n, t)
          \/ BroadcastEvent(n, t)
    \/ \E m, n \in Nodes :
          \/ AcceptsEvent(m, n)
          \/ RelaysBroadcast(m, n)
          \/ OnRequestIntroduction(m, n)
          \/ OnIntroduce(m, n)
          \/ OnChannelError(m, n)

FailNext ==
    \/ Embedder /\ UNCHANGED network
    \/ NetworkStep
    \/ \E n \in Nodes : Crash(n)

FailSpec == FailInit /\ [][FailNext]_allVars

(* The nodes that are left keep handling what there is to handle.           *)
FairFailSpec == FailSpec /\ WF_allVars(NetworkStep)

-----------------------------------------------------------------------------
(* Properties.                                                              *)

(* No event is under way or kept back, and every death is known.            *)
Settled ==
    /\ Quiet
    /\ \A n \in Nodes : /\ peers[n] \cap crashed = {}
                        /\ \A m \in Nodes : pending[n][m] = << >>

(* No open end counts on a port that is gone without having been told.      *)
NobodyMisled ==
    \A e \in Ends : \A p \in ReceivingPorts(e) :
        ports[p].peer_closed \/ ports[p].peer \in DOMAIN ports

(* node.cc: a dead proxy's death is broadcast "so it can be                 *)
(* back-propagated"; node_delegate.h: to all nodes.  So when everything has *)
(* settled, no open end is misled.                                          *)
LossKnown == Settled => NobodyMisled

(* And everything does settle.  Once the embedders stop, whatever died and  *)
(* whenever, every open end whose peer is gone has been told, for good, and *)
(* every proxy is removed (InitiateProxyRemoval: "Eventually, this node     *)
(* will receive ObserveProxyAck"), also one whose removal had to go through *)
(* a node that died.  It is checked where one end moves and only that end   *)
(* closes: when both close, an ObserveClosure sent towards a node that dies *)
(* is lost, and nothing repeats it.                                         *)
LossNoticed ==
    <>[](/\ NobodyMisled
         /\ \A p \in DOMAIN ports : ports[p].state = "Receiving")

(* As long as no node dies, having to be introduced first changes nothing:  *)
(* the routes settle, and the ends know exactly what was closed.            *)
IntroductionsSuffice == Settled /\ crashed = {} => GraphSettles

=============================================================================
