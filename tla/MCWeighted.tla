------------------------------ MODULE MCWeighted ------------------------------
(* Small instances of Weighted for TLC. *)
EXTENDS Weighted, TLC

CONSTANTS b1, b2, b3

ThreeBackends == <<b1, b2, b3>>

MCWeight == (b1 :> 1) @@ (b2 :> 1) @@ (b3 :> 3)
=============================================================================
