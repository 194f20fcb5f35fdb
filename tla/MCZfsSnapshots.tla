--------------------------- MODULE MCZfsSnapshots ---------------------------
EXTENDS ZfsSnapshots, TLC

(* Requests are interchangeable, and so are clones.                        *)
Symmetry == Permutations(Requests) \cup Permutations(Clones)
=============================================================================
