--------------------------- MODULE MCSlidingWindow ---------------------------
(* Small instances of SlidingWindow for TLC. *)
EXTENDS SlidingWindow, TLC

Symmetry == Permutations(Reqs) \cup Permutations(Keys)
=============================================================================
