------------------------------ MODULE MCPorts -------------------------------
(* Instances of Ports for TLC.                                              *)
EXTENDS Ports

(* Pipe 1 joins nodes 1 and 2; pipe 2 starts on node 1.                     *)
TwoNodes == <<<<1, 2>>, <<1, 1>>>>

(* Both ends of pipe 2 may be sent to node 2.                               *)
BothEnds == {<<1, 3>>, <<1, 4>>}
BothEndsSends == <<2, 0, 1, 1>>

(* Both ends of pipe 2 may be sent to node 2, and back.                     *)
ThereAndBack == {<<1, 3>>, <<1, 4>>, <<2, 3>>, <<2, 4>>}
ThereAndBackSends == <<2, 1, 0, 0>>

(* Pipes 1 and 2 join nodes 1, 2 and 3; an end of pipe 3 may travel from    *)
(* node 1 to node 2 and on to node 3.                                       *)
ThreeNodes == <<<<1, 2>>, <<2, 3>>, <<1, 1>>>>
Relayed == {<<1, 6>>, <<3, 6>>}

(* Node 1 keeps end 2 for node 2, which asks for it to be merged into end 3 *)
(* there, or fuses it with end 5 itself.  Either way the pipe that results  *)
(* joins two ends on node 2 through proxies on node 1, until they are       *)
(* removed: of two messages from end 1 the second may take a shorter route. *)
(* Either message may carry end 8.  End 5 may have sent when it is fused.   *)
Invitation == <<<<2, 1>>, <<2, 2>>, <<1, 2>>, <<2, 2>>>>
ThroughMerge == {<<1, 8>>}
InvitationMerges == {<<2, 3>>, <<2, 5>>}
InvitationSends == <<2, 0, 0, 0, 1, 0, 0, 0>>
=============================================================================
