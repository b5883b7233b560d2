-------------------------- MODULE MCPersistentMemory --------------------------
(* Instances of PersistentMemory for TLC.                                    *)
EXTENDS PersistentMemory, TLC

CONSTANTS a1, a2, a3, g1, g2, r1, r2

\* Blocks of 24 (a1, a3), 40 (a2) and 32 bytes (g1, g2) with their headers.
Requests == (a1 :> 8) @@ (a2 :> 20) @@ (a3 :> 8) @@ (g1 :> 9) @@ (g2 :> 9)

SmallCasts == {{a1, a2, a3, r1}, {a1, a2, r1, r2}, {g1, g2, a2, r1}}
==============================================================================
