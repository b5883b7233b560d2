---------------------------- MODULE MCTaskTracker ----------------------------
(* Instances of TaskTracker for TLC.                                        *)
EXTENDS TaskTracker, TLC

\* Posters are alike, and so are workers.
Symmetry == Permutations(Posters) \cup Permutations(Workers)
==============================================================================
