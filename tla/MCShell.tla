-------------------------------- MODULE MCShell --------------------------------
(* Shell for TLC.  Projects and targets are interchangeable.               *)
EXTENDS Shell

Symmetry == Permutations(Projects) \cup Permutations(Tids)
===============================================================================
