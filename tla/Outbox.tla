-------------------------------- MODULE Outbox --------------------------------
(***************************************************************************)
(* What the span exporter promises its owner: spans that were accepted are *)
(* handed to the collector in order, each once, none held back for ever,   *)
(* and Stop returns when all of them have been handed over. Whether the    *)
(* collector takes them is not promised.                                   *)
(***************************************************************************)
EXTENDS Naturals, Sequences

CONSTANT Spans

VARIABLES
    accepted,  \* the spans taken in, in order
    handed,    \* those that have been handed over
    closed,    \* Stop has been called
    stopped    \* Stop has returned

vars == <<accepted, handed, closed, stopped>>

Init ==
    /\ accepted = <<>>
    /\ handed = <<>>
    /\ closed = FALSE
    /\ stopped = FALSE

Accept(s) ==
    /\ ~closed
    /\ accepted' = Append(accepted, s)
    /\ UNCHANGED <<handed, closed, stopped>>

\* The next ones, however many.
Hand ==
    /\ \E n \in (Len(handed) + 1)..Len(accepted) : handed' = SubSeq(accepted, 1, n)
    /\ UNCHANGED <<accepted, closed, stopped>>

Close ==
    /\ ~closed
    /\ closed' = TRUE
    /\ UNCHANGED <<accepted, handed, stopped>>

Stop ==
    /\ closed
    /\ ~stopped
    /\ handed = accepted
    /\ stopped' = TRUE
    /\ UNCHANGED <<accepted, handed, closed>>

Next == (\E s \in Spans : Accept(s)) \/ Hand \/ Close \/ Stop

Safety == Init /\ [][Next]_vars

Spec == Safety /\ WF_vars(Hand) /\ WF_vars(Stop)
=============================================================================
