---------------------------- MODULE MessagePipe ----------------------------
(***************************************************************************)
(* What message pipes promise to the embedders that hold their ends, with   *)
(* no ports, nodes or routes: each end reads the messages of the other one  *)
(* once and in order, and is told that the other end is closed only when    *)
(* nothing is left to read.  Ports implements this specification.           *)
(***************************************************************************)
EXTENDS Integers, Sequences

CONSTANT PipeCount

Ends == 1 .. 2 * PipeCount
Other(e) == IF e % 2 = 1 THEN e + 1 ELSE e - 1

VARIABLES
    sent,       \* sent[e]: how many messages end e has sent
    received,   \* received[e]: what end e has read, in order
    closed,     \* the closed ends
    told        \* the open ends that are told their peer is closed

vars == <<sent, received, closed, told>>

Init ==
    /\ sent = [e \in Ends |-> 0]
    /\ received = [e \in Ends |-> << >>]
    /\ closed = {}
    /\ told = {}

(* Nothing is left to read at end e, and nothing will follow.               *)
Finished(e) ==
    /\ Other(e) \in closed
    /\ Len(received[e]) = sent[Other(e)]

Send(e) ==
    /\ e \notin closed \cup told
    /\ sent' = [sent EXCEPT ![e] = @ + 1]
    /\ UNCHANGED <<received, closed, told>>

(* Reading the last message of a closed end may tell so at once.            *)
Receive(e) ==
    /\ e \notin closed
    /\ Len(received[e]) < sent[Other(e)]
    /\ received' = [received EXCEPT ![e] =
            Append(@, [end |-> Other(e), index |-> Len(@) + 1])]
    /\ told' \in {told, told \cup {e}}
    /\ e \in told' => Finished(e)'
    /\ UNCHANGED <<sent, closed>>

(* Closing an end closes the ends carried by its unread messages too.       *)
Close(some) ==
    /\ some # {}
    /\ some \cap closed = {}
    /\ closed' = closed \cup some
    /\ told' = told \ some
    /\ UNCHANGED <<sent, received>>

Tell(e) ==
    /\ e \notin closed
    /\ Finished(e)
    /\ told' = told \cup {e}
    /\ UNCHANGED <<sent, received, closed>>

Next ==
    \/ \E e \in Ends : Send(e) \/ Receive(e) \/ Tell(e)
    \/ \E some \in SUBSET Ends : Close(some)

Spec == Init /\ [][Next]_vars

-----------------------------------------------------------------------------
(* Each end has read the first messages of the other one, each once and in  *)
(* the order they were sent.                                                *)
ReadsWhatWasSent ==
    \A e \in Ends :
        /\ Len(received[e]) <= sent[Other(e)]
        /\ \A i \in 1 .. Len(received[e]) :
              received[e][i] = [end |-> Other(e), index |-> i]

(* An end that has been told its peer is closed is open itself, and nothing *)
(* is left to read: no message is lost by looking at the notice.            *)
ToldWhenFinished == \A e \in told : e \notin closed /\ Finished(e)

=============================================================================
