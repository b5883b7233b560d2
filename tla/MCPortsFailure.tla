--------------------------- MODULE MCPortsFailure ---------------------------
(* Instances of PortsFailure for TLC.                                       *)
EXTENDS PortsFailure, MCPorts

(* ThreeNodes, and the broker on a node of its own.                         *)
FourNodes == Append(ThreeNodes, <<4, 4>>)
FourNodesSends == <<1, 0, 1, 0, 1, 0, 0, 0>>

ThreeNodesSends == <<1, 0, 1, 0, 0, 0>>
=============================================================================
