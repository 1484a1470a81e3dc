----------------------- MODULE MCCircuitBreakerHistory -----------------------
(* Small instances of CircuitBreakerHistory for TLC. *)
EXTENDS CircuitBreakerHistory, TLC

\* failure_threshold is left out of the file: New turns it into 50.
MCConfig == [MinRequests |-> 3, FailureThreshold |-> 0,
             OpenDurationSeconds |-> 1, HalfOpenRequests |-> 2]

Symmetry == Permutations(Reqs)
=============================================================================
