--------------------------------- MODULE Pool ---------------------------------
(***************************************************************************)
(* What every balancer works on: the backends of its route and their alive *)
(* flags, which others set at any moment.                                  *)
(***************************************************************************)
EXTENDS Integers, Sequences, FiniteSets

CONSTANT Backends  \* the backends: a slice of pointers, no two the same

Backend == {Backends[i] : i \in DOMAIN Backends}

None == "none"

ASSUME PoolAssumption ==
    /\ Backends \in Seq(Backend)
    /\ \A i, j \in DOMAIN Backends : Backends[i] = Backends[j] => i = j
    /\ None \notin Backend

VARIABLE alive  \* Backend.alive

AllAlive == [b \in Backend |-> TRUE]
=============================================================================
