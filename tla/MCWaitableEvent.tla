--------------------------- MODULE MCWaitableEvent ---------------------------
(* Instances of WaitableEvent for TLC.                                      *)
EXTENDS WaitableEvent

\* Callers pass the events in either order, so that the caller's order and
\* the order of the addresses differ.
EitherOrder == {<<1, 2>>, <<2, 1>>}
==============================================================================
