---------------------------- MODULE CircuitBreaker ----------------------------
(***************************************************************************)
(* One circuit breaker shared by concurrent requests to its backend.       *)
(*                                                                         *)
(* A request (a handler goroutine, which serves one request after another) *)
(* calls Allow; if it is admitted it is in flight until the reverse proxy  *)
(* reports its outcome with RecordSuccess or RecordFailure, any time and   *)
(* any number of breaker transitions later. A request whose protocol is    *)
(* upgraded reports twice: ModifyResponse takes the 101 for a success,     *)
(* then the upgrade fails, because the response writers of the middleware  *)
(* cannot be hijacked, and ErrorHandler reports a failure. A rejected      *)
(* Allow changes nothing and is therefore a stuttering step.               *)
(***************************************************************************)
EXTENDS Breaker

CONSTANTS
    Reqs,            \* handler goroutines
    MaxTime,         \* bound on the clock
    MaxObservations  \* bound on the rolling window, counting the reports to come

ASSUME CircuitBreakerAssumption ==
    /\ IsFiniteSet(Reqs)
    /\ MaxTime \in Nat
    /\ MaxObservations \in Nat

VARIABLES
    breaker,   \* the Breaker object
    now,       \* the monotonic clock behind time.Now
    inflight,  \* requests that were admitted and have a report to make
    upgrading  \* those among them that have reported the success of an upgrade

vars == <<breaker, now, inflight, upgrading>>

TypeOK ==
    /\ breaker \in BreakerType
    /\ now \in Nat
    /\ inflight \in SUBSET Reqs
    /\ upgrading \in SUBSET inflight

Init ==
    /\ breaker = New
    /\ now = 0
    /\ inflight = {}
    /\ upgrading = {}

WithinBounds ==
    Len(breaker.window) + 2 * Cardinality(inflight) - Cardinality(upgrading) < MaxObservations

Admit(r) ==
    /\ r \notin inflight
    /\ WithinBounds
    /\ Admits(breaker, now)
    /\ breaker' = Allow(breaker, now)
    /\ inflight' = inflight \cup {r}
    /\ UNCHANGED <<now, upgrading>>

Succeed(r) ==
    /\ r \in inflight \ upgrading
    /\ breaker' = RecordSuccess(breaker, now)
    /\ inflight' = inflight \ {r}
    /\ UNCHANGED <<now, upgrading>>

\* The answer is 101: its failure is still to come.
Upgrade(r) ==
    /\ r \in inflight \ upgrading
    /\ breaker' = RecordSuccess(breaker, now)
    /\ upgrading' = upgrading \cup {r}
    /\ UNCHANGED <<now, inflight>>

Fail(r) ==
    /\ r \in inflight
    /\ breaker' = RecordFailure(breaker, now)
    /\ inflight' = inflight \ {r}
    /\ upgrading' = upgrading \ {r}
    /\ UNCHANGED now

Tick ==
    /\ now < MaxTime
    /\ now' = now + 1
    /\ UNCHANGED <<breaker, inflight, upgrading>>

Next == Tick \/ \E r \in Reqs : Admit(r) \/ Succeed(r) \/ Upgrade(r) \/ Fail(r)

Spec == Init /\ [][Next]_vars

\* Every admitted request reports (dial, TLS and response-header timeouts bound
\* the wait) and clients keep sending requests.
Fairness ==
    /\ WF_vars(\E r \in Reqs : Admit(r))
    /\ \A r \in Reqs : WF_vars(Succeed(r) \/ Upgrade(r) \/ Fail(r))

-----------------------------------------------------------------------------
\* A half-open breaker whose quota is used up still waits for the outcome of
\* an admitted request: Allow (lines 97-102) never leaves the breaker in a
\* half-open state that rejects everybody and that no report can end.
HalfOpenNotStuck ==
    breaker.state = "half-open" /\ ~Admits(breaker, now) => inflight # {}

\* The rolling window belongs to the closed state: transitionTo empties it when
\* it leaves closed, and record is called in no other state, so that nothing
\* observed before a trip can count after the breaker has closed again.
WindowOnlyWhenClosed == breaker.state # "closed" => breaker.window = <<>>

\* With traffic, a half-open breaker is resolved: it closes or opens again.
HalfOpenResolves ==
    breaker.state = "half-open" ~> breaker.state # "half-open"
=============================================================================
