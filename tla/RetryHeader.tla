----------------------------- MODULE RetryHeader ------------------------------
(***************************************************************************)
(* How serveProxy tells a rejected client when to come back. A limiter     *)
(* returns a duration; the header Retry-After holds it in whole seconds,   *)
(* formatted with %.0f.                                                    *)
(***************************************************************************)
EXTENDS Integers

CONSTANT Second  \* clock ticks per second

ASSUME RetryHeaderAssumption == Second \in Nat \ {0}

\* The nearest number of seconds, the even one of two that are equally near.
Seconds(wait) ==
    LET whole == wait \div Second
        rest == 2 * (wait % Second)
    IN  IF rest > Second \/ (rest = Second /\ whole % 2 = 1) THEN whole + 1 ELSE whole

\* How long a client waits that does as it is told.
Told(wait) == Seconds(wait) * Second

\* The most that rounding takes from a wait.
Slack == Second \div 2
=============================================================================
