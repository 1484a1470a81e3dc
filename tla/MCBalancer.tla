----------------------------- MODULE MCBalancer ------------------------------
(* Small instances of Balancer for TLC. *)
EXTENDS Balancer, TLC

CONSTANTS b1, b2, b3, c1, c2

ThreeBackends == <<b1, b2, b3>>

\* Only the first client is named by a header.
MCHash == [i \in {c1, c2} \X (0..2) |-> IF i[1] = c1 THEN 4 + i[2] ELSE 5 + i[2]]

Symmetry == Permutations(Reqs)
=============================================================================
