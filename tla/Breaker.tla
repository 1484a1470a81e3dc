------------------------------- MODULE Breaker -------------------------------
(***************************************************************************)
(* The methods of circuitbreaker.Breaker as operators on a breaker record. *)
(* Every method of the Go type runs under the breaker's mutex, so each one *)
(* is a function of the breaker b and of the time t it reads; the state    *)
(* machines that share a breaker between requests (CircuitBreaker, Route)  *)
(* apply one operator per step.                                            *)
(***************************************************************************)
EXTENDS Integers, Sequences, FiniteSets, FiniteSetsExt

CONSTANTS
    BreakerConfig,  \* the circuit_breaker: block of a route, as it was parsed
    RollingWindow   \* the rollingWindow constant, in clock ticks

ConfigType == [MinRequests : Int, FailureThreshold : Int,
               OpenDurationSeconds : Int, HalfOpenRequests : Int]

ASSUME BreakerAssumption ==
    /\ BreakerConfig \in ConfigType
    /\ RollingWindow \in Nat

OrDefault(v, d) == IF v = 0 THEN d ELSE v

\* New: zero fields of the configuration take their defaults.
cfg == [MinRequests         |-> OrDefault(BreakerConfig.MinRequests, 20),
        FailureThreshold    |-> OrDefault(BreakerConfig.FailureThreshold, 50),
        OpenDurationSeconds |-> OrDefault(BreakerConfig.OpenDurationSeconds, 30),
        HalfOpenRequests    |-> OrDefault(BreakerConfig.HalfOpenRequests, 5)]

Observation == [at : Nat, success : BOOLEAN]

BreakerType == [state : {"closed", "open", "half-open"}, openAt : Nat,
                window : Seq(Observation),
                halfOpenTotal : Nat, halfOpenFailures : Nat]

New == [state |-> "closed", openAt |-> 0, window |-> <<>>,
        halfOpenTotal |-> 0, halfOpenFailures |-> 0]

-----------------------------------------------------------------------------
\* Mutant of TransitionTo: opening keeps the rolling window.
TransitionToKeepWindow(b, s, t) ==
    CASE s = "open"      -> [b EXCEPT !.state = s, !.openAt = t]
      [] s = "half-open" -> [b EXCEPT !.state = s, !.halfOpenTotal = 0,
                                      !.halfOpenFailures = 0]
      [] s = "closed"    -> [b EXCEPT !.state = s, !.window = <<>>]

\* Mutant of TransitionTo: reopening does not restart the open period.
TransitionToOldOpenAt(b, s, t) ==
    CASE s = "open"      -> [b EXCEPT !.state = s, !.window = <<>>,
                                      !.openAt = IF b.state = "closed" THEN t ELSE @]
      [] s = "half-open" -> [b EXCEPT !.state = s, !.halfOpenTotal = 0,
                                      !.halfOpenFailures = 0]
      [] s = "closed"    -> [b EXCEPT !.state = s, !.window = <<>>]

TransitionTo(b, s, t) ==
    CASE s = "open"      -> [b EXCEPT !.state = s, !.openAt = t, !.window = <<>>]
      [] s = "half-open" -> [b EXCEPT !.state = s, !.halfOpenTotal = 0,
                                      !.halfOpenFailures = 0]
      [] s = "closed"    -> [b EXCEPT !.state = s, !.window = <<>>]

-----------------------------------------------------------------------------
\* Allow

OpenPeriodOver(b, t) == t - b.openAt > cfg.OpenDurationSeconds

\* Mutant of Admits: the half-open quota is compared with <= instead of <.
AdmitsOneMore(b, t) ==
    \/ b.state = "closed"
    \/ b.state = "open" /\ OpenPeriodOver(b, t)
    \/ b.state = "half-open" /\ b.halfOpenTotal <= cfg.HalfOpenRequests

\* Allow returns nil (TRUE) or ErrCircuitOpen (FALSE).
Admits(b, t) ==
    \/ b.state = "closed"
    \/ b.state = "open" /\ OpenPeriodOver(b, t)
    \/ b.state = "half-open" /\ b.halfOpenTotal < cfg.HalfOpenRequests

\* The breaker after Allow. The request that moves an open breaker to
\* half-open is admitted without being counted in halfOpenTotal.
Allow(b, t) ==
    CASE ~Admits(b, t)         -> b
      [] b.state = "closed"    -> b
      [] b.state = "open"      -> TransitionTo(b, "half-open", t)
      [] b.state = "half-open" -> [b EXCEPT !.halfOpenTotal = @ + 1]

-----------------------------------------------------------------------------
\* RecordSuccess and RecordFailure

\* record's loop drops the leading observations older than the cutoff and
\* stops at the first one that is not.
EvictBefore(w, cutoff) ==
    LET fresh == {i \in DOMAIN w : ~(w[i].at < cutoff)}
    IN  IF fresh = {} THEN <<>> ELSE SubSeq(w, Min(fresh), Len(w))

\* Mutant of Record: nothing is evicted.
RecordKeepAll(b, success, t) ==
    [b EXCEPT !.window = Append(@, [at |-> t, success |-> success])]

Record(b, success, t) ==
    [b EXCEPT !.window = EvictBefore(Append(@, [at |-> t, success |-> success]),
                                     t - RollingWindow)]

FailureCount(w) == Cardinality({i \in DOMAIN w : ~w[i].success})

\* Integer percentage, as in the code. The window is never empty here: it
\* holds at least the observation that was just recorded.
AtThreshold(w) ==
    /\ Len(w) >= cfg.MinRequests
    /\ (FailureCount(w) * 100) \div Len(w) >= cfg.FailureThreshold

MaybeTrip(b, t) == IF AtThreshold(b.window) THEN TransitionTo(b, "open", t) ELSE b

\* Mutant of RecordSuccess: a half-open breaker closes on the first success.
RecordSuccessEager(b, t) ==
    CASE b.state = "closed"    -> Record(b, TRUE, t)
      [] b.state = "half-open" -> TransitionTo(b, "closed", t)
      [] b.state = "open"      -> b

\* Mutant of RecordSuccess: a probe that succeeds gives its slot back.
RecordSuccessRelease(b, t) ==
    CASE b.state = "closed"    -> Record(b, TRUE, t)
      [] b.state = "half-open" ->
            IF b.halfOpenTotal - b.halfOpenFailures >= cfg.HalfOpenRequests
            THEN TransitionTo(b, "closed", t)
            ELSE [b EXCEPT !.halfOpenTotal = @ - 1]
      [] b.state = "open"      -> b

RecordSuccess(b, t) ==
    CASE b.state = "closed"    -> Record(b, TRUE, t)
      [] b.state = "half-open" ->
            IF b.halfOpenTotal - b.halfOpenFailures >= cfg.HalfOpenRequests
            THEN TransitionTo(b, "closed", t) ELSE b
      [] b.state = "open"      -> b

\* Mutant of RecordFailure: a half-open failure is counted but does not reopen.
RecordFailureCountOnly(b, t) ==
    CASE b.state = "closed"    -> MaybeTrip(Record(b, FALSE, t), t)
      [] b.state = "half-open" -> [b EXCEPT !.halfOpenFailures = @ + 1]
      [] b.state = "open"      -> b

RecordFailure(b, t) ==
    CASE b.state = "closed"    -> MaybeTrip(Record(b, FALSE, t), t)
      [] b.state = "half-open" ->
            TransitionTo([b EXCEPT !.halfOpenFailures = @ + 1], "open", t)
      [] b.state = "open"      -> b
=============================================================================
