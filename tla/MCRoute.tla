------------------------------- MODULE MCRoute -------------------------------
(* Small instances of Route for TLC. *)
EXTENDS Route, TLC

CONSTANTS b1, b2

\* failure_threshold is left out of the file: New turns it into 50.
MCConfig == [MinRequests |-> 1, FailureThreshold |-> 0,
             OpenDurationSeconds |-> 1, HalfOpenRequests |-> 1]

TwoBackends == <<b1, b2>>

Symmetry == Permutations(Reqs)
=============================================================================
