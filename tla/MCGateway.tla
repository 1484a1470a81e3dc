------------------------------ MODULE MCGateway ------------------------------
(* Small instances of Gateway for TLC. *)
EXTENDS Gateway

\* The prefixes /a and /ab, and paths that match both or one of them; the last
\* one matches nothing in a configuration that has only /ab.
a == <<1>>
ab == <<1, 2>>
MCPaths == {<<1, 2, 3>>, <<1, 3>>}

Entry(p) == [prefix |-> p, limiterOk |-> TRUE]
BadEntry(p) == [prefix |-> p, limiterOk |-> FALSE]

\* Nested prefixes, the longer one last; one prefix twice, which validate does
\* not reject; and a configuration that fails halfway.
MCConfigs == {<<Entry(a), Entry(ab)>>, <<Entry(ab), Entry(ab)>>,
              <<Entry(a), BadEntry(ab)>>}

\* Two configurations with nothing in common.
TwoConfigs == {<<Entry(a)>>, <<Entry(ab)>>}
=============================================================================
