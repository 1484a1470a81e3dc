------------------------ MODULE CircuitBreakerHistory ------------------------
(***************************************************************************)
(* CircuitBreaker with history variables that record what happened,        *)
(* independently of the breaker's own counters. An episode is one stay in  *)
(* the half-open state.                                                    *)
(***************************************************************************)
EXTENDS CircuitBreaker

VARIABLES
    probes,    \* number of requests admitted in the current episode
    outcomes,  \* every outcome reported since the breaker last closed
    openedAt   \* when the breaker last became open

historyVars == <<probes, outcomes, openedAt>>
hvars == <<breaker, now, inflight, upgrading, probes, outcomes, openedAt>>

HInit ==
    /\ Init
    /\ probes = 0
    /\ outcomes = <<>>
    /\ openedAt = 0

\* A closed breaker that stays closed remembers the outcome; every other
\* report starts or continues a stay that has no outcomes.
Remember(success) ==
    /\ outcomes' = IF breaker.state = "closed" /\ breaker'.state = "closed"
                   THEN Append(outcomes, [at |-> now, success |-> success])
                   ELSE <<>>
    /\ openedAt' = IF breaker.state # "open" /\ breaker'.state = "open"
                   THEN now ELSE openedAt

HAdmit(r) ==
    /\ Admit(r)
    /\ probes' = CASE breaker.state = "closed"    -> probes
                   [] breaker.state = "open"      -> 1
                   [] breaker.state = "half-open" -> probes + 1
    /\ UNCHANGED <<outcomes, openedAt>>

HSucceed(r) ==
    /\ Succeed(r)
    /\ Remember(TRUE)
    /\ UNCHANGED probes

HUpgrade(r) ==
    /\ Upgrade(r)
    /\ Remember(TRUE)
    /\ UNCHANGED probes

HFail(r) ==
    /\ Fail(r)
    /\ Remember(FALSE)
    /\ UNCHANGED probes

HTick == Tick /\ UNCHANGED historyVars

HNext == HTick \/ \E r \in Reqs : HAdmit(r) \/ HSucceed(r) \/ HUpgrade(r) \/ HFail(r)

HSpec == HInit /\ [][HNext]_hvars

HFairSpec == HSpec /\ Fairness

-----------------------------------------------------------------------------
\* What the code allows in an episode: HalfOpenRequests counted probes, and the
\* request that moved the breaker to half-open, which Allow does not count
\* (line 93 calls transitionTo, which sets halfOpenTotal to 0). The uncounted
\* one is admitted whatever the configured number is.
ProbeBound ==
    breaker.state = "half-open" => probes = 1 \/ probes <= cfg.HalfOpenRequests + 1

Closes == breaker.state = "half-open" /\ breaker'.state = "closed"

\* A breaker closes only in an episode that has used up its quota of probes,
\* whatever earlier episodes left in its counters (line 120). The quota counts
\* admissions: some of these probes may not have reported yet.
CloseNeedsFullQuota == [][Closes => probes > cfg.HalfOpenRequests]_hvars

\* The outcomes reported in the rolling window that ends now.
Recent(s) ==
    LET young == {i \in DOMAIN s : now - s[i].at <= RollingWindow}
    IN  [count  |-> Cardinality(young),
         failed |-> Cardinality({i \in young : ~s[i].success})]

\* A closed breaker opens exactly when a failure is reported and, over all
\* outcomes of the last rollingWindow since it closed, it meets the threshold:
\* eviction and resetting of the window lose nothing and keep nothing stale.
TripJustified ==
    [][\A r \in Reqs : breaker.state = "closed" /\ HFail(r) =>
         LET seen == Recent(Append(outcomes, [at |-> now, success |-> FALSE]))
         IN  breaker'.state = "open" <=>
               /\ seen.count >= cfg.MinRequests
               /\ seen.failed * 100 >= cfg.FailureThreshold * seen.count]_hvars

\* Between the moment the breaker became open, by a trip or by a failed probe,
\* and the next admission more than OpenDurationSeconds pass (line 92).
CoolDown ==
    [][inflight \subseteq inflight' /\ inflight' # inflight /\ breaker.state = "open"
         => now - openedAt > cfg.OpenDurationSeconds]_hvars
=============================================================================
