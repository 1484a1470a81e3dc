------------------------- MODULE CircuitBreakerProofs -------------------------
(***************************************************************************)
(* Proofs about CircuitBreaker and CircuitBreakerHistory, for every set of *)
(* requests, every configuration and every bound.                          *)
(***************************************************************************)
EXTENDS CircuitBreakerHistory, BreakerLemmas

-----------------------------------------------------------------------------
\* CircuitBreaker

\* A half-open breaker has counted no failure, and when its quota is used up
\* some admitted request has yet to report.
QuotaInv ==
    breaker.state = "half-open" =>
        /\ breaker.halfOpenFailures = 0
        /\ breaker.halfOpenTotal >= cfg.HalfOpenRequests => inflight # {}

IInv == TypeOK /\ WindowOnlyWhenClosed /\ QuotaInv

LEMMA InitIInv == Init => IInv
<1> SUFFICES ASSUME Init PROVE IInv
  OBVIOUS
<1>1. breaker = New /\ New.state = "closed"
  BY DEF Init, New
<1>2. New \in BreakerType
  <2>1. <<>> \in Seq(Observation)
    OBVIOUS
  <2> QED BY <2>1 DEF New, BreakerType
<1> QED BY <1>1, <1>2 DEF Init, IInv, TypeOK, WindowOnlyWhenClosed, QuotaInv

LEMMA StepIInv == IInv /\ [Next]_vars => IInv'
<1> SUFFICES ASSUME IInv, [Next]_vars PROVE IInv'
  OBVIOUS
<1> USE DEF IInv
<1>0. cfg.HalfOpenRequests \in Int
  BY ConfigTyped DEF ConfigType
<1>1. CASE UNCHANGED vars
  BY <1>1 DEF vars, TypeOK, WindowOnlyWhenClosed, QuotaInv
<1>2. CASE Tick
  BY <1>2 DEF Tick, TypeOK, WindowOnlyWhenClosed, QuotaInv
<1>3. ASSUME NEW r \in Reqs, Admit(r) PROVE IInv'
  <2>1. breaker \in BreakerType /\ now \in Nat /\ Admits(breaker, now)
    BY <1>3 DEF TypeOK, Admit
  <2>2. breaker' = Allow(breaker, now) /\ r \in inflight'
    BY <1>3 DEF Admit
  <2>3. TypeOK'
    BY <1>3, <2>1, <2>2, AllowEffect DEF Admit, TypeOK
  <2>4. WindowOnlyWhenClosed'
    BY <2>1, <2>2, AllowEffect DEF WindowOnlyWhenClosed, BreakerType
  <2>5. QuotaInv'
    BY <2>1, <2>2, AllowEffect DEF QuotaInv, BreakerType
  <2> QED BY <2>3, <2>4, <2>5
<1>4. ASSUME NEW r \in Reqs, Succeed(r) PROVE IInv'
  <2>1. breaker \in BreakerType /\ now \in Nat
    BY DEF TypeOK
  <2>2. breaker' = RecordSuccess(breaker, now)
    BY <1>4 DEF Succeed
  <2>3. TypeOK'
    BY <1>4, <2>1, <2>2, SuccessEffect DEF Succeed, TypeOK
  <2>4. WindowOnlyWhenClosed'
    BY <2>1, <2>2, SuccessEffect DEF WindowOnlyWhenClosed, BreakerType
  <2>5. QuotaInv'
    BY <1>0, <2>1, <2>2, SuccessEffect DEF QuotaInv, BreakerType
  <2> QED BY <2>3, <2>4, <2>5
<1>5. ASSUME NEW r \in Reqs, Upgrade(r) PROVE IInv'
  <2>1. breaker \in BreakerType /\ now \in Nat
    BY DEF TypeOK
  <2>2. breaker' = RecordSuccess(breaker, now)
    BY <1>5 DEF Upgrade
  <2>3. TypeOK'
    BY <1>5, <2>1, <2>2, SuccessEffect DEF Upgrade, TypeOK
  <2>4. WindowOnlyWhenClosed'
    BY <2>1, <2>2, SuccessEffect DEF WindowOnlyWhenClosed, BreakerType
  <2>5. QuotaInv'
    BY <1>0, <1>5, <2>1, <2>2, SuccessEffect DEF Upgrade, QuotaInv, BreakerType
  <2> QED BY <2>3, <2>4, <2>5
<1>6. ASSUME NEW r \in Reqs, Fail(r) PROVE IInv'
  <2>1. breaker \in BreakerType /\ now \in Nat
    BY DEF TypeOK
  <2>2. breaker' = RecordFailure(breaker, now)
    BY <1>6 DEF Fail
  <2>3. TypeOK'
    BY <1>6, <2>1, <2>2, FailureEffect DEF Fail, TypeOK
  <2>4. WindowOnlyWhenClosed'
    BY <2>1, <2>2, FailureEffect DEF WindowOnlyWhenClosed, BreakerType
  <2>5. QuotaInv'
    BY <2>1, <2>2, FailureEffect DEF QuotaInv, BreakerType
  <2> QED BY <2>3, <2>4, <2>5
<1> QED BY <1>1, <1>2, <1>3, <1>4, <1>5, <1>6 DEF Next

\* The breaker's fields, the clock and the requests in flight keep their types.
THEOREM TypeCorrect == Spec => []TypeOK
<1>1. IInv => TypeOK
  BY DEF IInv
<1> QED BY <1>1, InitIInv, StepIInv, PTL DEF Spec

\* Outside the closed state the rolling window is empty.
THEOREM WindowTheorem == Spec => []WindowOnlyWhenClosed
<1>1. IInv => WindowOnlyWhenClosed
  BY DEF IInv
<1> QED BY <1>1, InitIInv, StepIInv, PTL DEF Spec

\* No half-open breaker waits for a report that cannot come: one that rejects
\* every request has an admitted request in flight.
THEOREM NotStuckTheorem == Spec => []HalfOpenNotStuck
<1>1. IInv => HalfOpenNotStuck
  <2> SUFFICES ASSUME IInv, breaker.state = "half-open", ~Admits(breaker, now)
               PROVE  inflight # {}
    BY DEF HalfOpenNotStuck
  <2>1. breaker.halfOpenTotal >= cfg.HalfOpenRequests
    BY ConfigTyped DEF Admits, IInv, TypeOK, BreakerType, ConfigType
  <2> QED BY <2>1 DEF IInv, QuotaInv
<1> QED BY <1>1, InitIInv, StepIInv, PTL DEF Spec

-----------------------------------------------------------------------------
\* CircuitBreakerHistory

\* The history agrees with the breaker's own counters: an episode has admitted
\* one request more than it has counted, and openAt is when the breaker opened.
HistoryInv ==
    /\ probes \in Nat
    /\ breaker.state = "half-open" =>
          /\ probes = breaker.halfOpenTotal + 1
          /\ breaker.halfOpenTotal = 0 \/ breaker.halfOpenTotal <= cfg.HalfOpenRequests
    /\ breaker.state = "open" => openedAt = breaker.openAt

HInv == IInv /\ HistoryInv

\* A step with history is a step of CircuitBreaker.
LEMMA HistoryRefines == [HNext]_hvars => [Next]_vars
<1>1. UNCHANGED hvars => UNCHANGED vars
  BY DEF hvars, vars
<1>2. HTick => Tick
  BY DEF HTick
<1>3. ASSUME NEW r \in Reqs, HAdmit(r) \/ HSucceed(r) \/ HUpgrade(r) \/ HFail(r)
      PROVE  Admit(r) \/ Succeed(r) \/ Upgrade(r) \/ Fail(r)
  BY <1>3 DEF HAdmit, HSucceed, HUpgrade, HFail
<1> QED BY <1>1, <1>2, <1>3 DEF HNext, Next

LEMMA InitHInv == HInit => HInv
<1> SUFFICES ASSUME HInit PROVE HInv
  OBVIOUS
<1>1. IInv
  BY InitIInv DEF HInit
<1>2. breaker.state = "closed"
  BY DEF HInit, Init, New
<1> QED BY <1>1, <1>2 DEF HInit, HInv, HistoryInv

LEMMA StepHInv == HInv /\ [HNext]_hvars => HInv'
<1> SUFFICES ASSUME HInv, [HNext]_hvars PROVE HInv'
  OBVIOUS
<1>0. cfg.HalfOpenRequests \in Int
  BY ConfigTyped DEF ConfigType
<1>1. IInv /\ IInv'
  BY HistoryRefines, StepIInv DEF HInv
<1>2. breaker \in BreakerType /\ now \in Nat /\ HistoryInv /\ QuotaInv
  BY DEF HInv, IInv, TypeOK
<1> SUFFICES HistoryInv'
  BY <1>1 DEF HInv
<1>3. CASE UNCHANGED hvars
  BY <1>2, <1>3 DEF hvars, HistoryInv
<1>4. CASE HTick
  BY <1>2, <1>4 DEF HTick, Tick, historyVars, HistoryInv
<1>5. ASSUME NEW r \in Reqs, HAdmit(r) PROVE HistoryInv'
  <2>1. breaker' = Allow(breaker, now) /\ Admits(breaker, now) /\ openedAt' = openedAt
    BY <1>5 DEF HAdmit, Admit
  <2>2. CASE breaker.state = "closed"
    <3>1. breaker' = breaker
      BY <1>2, <2>1, <2>2, AllowEffect
    <3>2. probes' = probes
      BY <1>5, <2>2 DEF HAdmit
    <3> QED BY <1>2, <2>1, <2>2, <3>1, <3>2 DEF HistoryInv
  <2>3. CASE breaker.state = "open"
    <3>1. breaker'.state = "half-open" /\ breaker'.halfOpenTotal = 0
      BY <1>2, <2>1, <2>3, AllowEffect
    <3>2. probes' = 1
      BY <1>5, <2>3 DEF HAdmit
    <3> QED BY <3>1, <3>2 DEF HistoryInv
  <2>4. CASE breaker.state = "half-open"
    <3>1. /\ breaker'.state = "half-open"
          /\ breaker'.halfOpenTotal = breaker.halfOpenTotal + 1
          /\ breaker.halfOpenTotal < cfg.HalfOpenRequests
      BY <1>2, <2>1, <2>4, AllowEffect
    <3>2. probes' = probes + 1
      BY <1>5, <2>4 DEF HAdmit
    <3>3. breaker.halfOpenTotal \in Nat
      BY <1>2 DEF BreakerType
    <3> QED BY <1>0, <1>2, <2>4, <3>1, <3>2, <3>3 DEF HistoryInv
  <2> QED BY <1>2, <2>2, <2>3, <2>4 DEF BreakerType
<1>6. ASSUME NEW r \in Reqs, HSucceed(r) \/ HUpgrade(r) PROVE HistoryInv'
  <2>1. breaker' = RecordSuccess(breaker, now) /\ probes' = probes
    BY <1>6 DEF HSucceed, Succeed, HUpgrade, Upgrade
  <2>2. breaker'.state = "closed" \/ breaker' = breaker
    BY <1>2, <2>1, SuccessEffect DEF BreakerType
  <2>3. breaker'.state = "open" => breaker.state = "open"
    BY <2>2
  <2>4. breaker'.state = "open" => openedAt' = openedAt
    BY <1>6, <2>3 DEF HSucceed, HUpgrade, Remember
  <2> QED BY <1>2, <2>1, <2>2, <2>4 DEF HistoryInv
<1>7. ASSUME NEW r \in Reqs, HFail(r) PROVE HistoryInv'
  <2>1. breaker' = RecordFailure(breaker, now) /\ probes' = probes
    BY <1>7 DEF HFail, Fail
  <2>2. openedAt' = IF breaker.state # "open" /\ breaker'.state = "open"
                    THEN now ELSE openedAt
    BY <1>7 DEF HFail, Remember
  <2>3. \/ breaker.state = "open" /\ breaker' = breaker
        \/ breaker.state = "closed" /\ breaker'.state = "closed"
        \/ breaker.state # "open" /\ breaker'.state = "open" /\ breaker'.openAt = now
    BY <1>2, <2>1, FailureEffect DEF BreakerType
  <2> QED BY <1>2, <2>1, <2>2, <2>3 DEF HistoryInv
<1> QED BY <1>3, <1>4, <1>5, <1>6, <1>7 DEF HNext

\* An episode admits at most HalfOpenRequests counted probes and the uncounted
\* request that began it.
THEOREM ProbeBoundTheorem == HSpec => []ProbeBound
<1>1. HInv => ProbeBound
  BY ConfigTyped
  DEF HInv, IInv, TypeOK, BreakerType, HistoryInv, ProbeBound, ConfigType
<1> QED BY <1>1, InitHInv, StepHInv, PTL DEF HSpec

\* A breaker closes only after its episode has admitted the whole quota.
THEOREM CloseTheorem == HSpec => CloseNeedsFullQuota
<1>1. HInv /\ [HNext]_hvars => [Closes => probes > cfg.HalfOpenRequests]_hvars
  <2> SUFFICES ASSUME HInv, HNext, Closes PROVE probes > cfg.HalfOpenRequests
    OBVIOUS
  <2>1. cfg.HalfOpenRequests \in Int
    BY ConfigTyped DEF ConfigType
  <2>2. /\ breaker \in BreakerType /\ now \in Nat
        /\ breaker.state = "half-open" /\ breaker'.state = "closed"
        /\ breaker.halfOpenFailures = 0
        /\ probes = breaker.halfOpenTotal + 1
    BY DEF HInv, IInv, TypeOK, QuotaInv, HistoryInv, Closes
  <2>3. CASE HTick
    BY <2>2, <2>3 DEF HTick, Tick
  <2>4. ASSUME NEW r \in Reqs, HAdmit(r) PROVE FALSE
    BY <2>2, <2>4, AllowEffect DEF HAdmit, Admit
  <2>5. ASSUME NEW r \in Reqs, HFail(r) PROVE FALSE
    BY <2>2, <2>5, FailureEffect DEF HFail, Fail
  <2>6. ASSUME NEW r \in Reqs, HSucceed(r) \/ HUpgrade(r)
        PROVE  probes > cfg.HalfOpenRequests
    <3>1. breaker' = RecordSuccess(breaker, now)
      BY <2>6 DEF HSucceed, Succeed, HUpgrade, Upgrade
    <3>2. breaker.halfOpenTotal - breaker.halfOpenFailures >= cfg.HalfOpenRequests
      BY <2>2, <3>1, SuccessEffect
    <3> QED BY <2>1, <2>2, <3>2 DEF BreakerType
  <2> QED BY <2>3, <2>4, <2>5, <2>6 DEF HNext
<1> QED BY <1>1, InitHInv, StepHInv, PTL DEF HSpec, CloseNeedsFullQuota

\* After it has opened, the breaker admits nobody for OpenDurationSeconds.
THEOREM CoolDownTheorem == HSpec => CoolDown
<1> DEFINE A == inflight \subseteq inflight' /\ inflight' # inflight
                  /\ breaker.state = "open"
                => now - openedAt > cfg.OpenDurationSeconds
<1>1. HInv /\ [HNext]_hvars => [A]_hvars
  <2> SUFFICES ASSUME HInv, HNext,
                      inflight \subseteq inflight', inflight' # inflight,
                      breaker.state = "open"
               PROVE  now - openedAt > cfg.OpenDurationSeconds
    OBVIOUS
  <2>1. /\ breaker \in BreakerType /\ now \in Nat
        /\ openedAt = breaker.openAt
    BY DEF HInv, IInv, TypeOK, HistoryInv
  <2>2. ~HTick
    BY DEF HTick, Tick
  <2>3. ASSUME NEW r \in Reqs, HSucceed(r) \/ HUpgrade(r) \/ HFail(r) PROVE FALSE
    <3>1. inflight' \in {inflight, inflight \ {r}} /\ r \in inflight
      BY <2>3 DEF HSucceed, HUpgrade, HFail, Succeed, Upgrade, Fail
    <3> QED BY <3>1
  <2>4. ASSUME NEW r \in Reqs, HAdmit(r) PROVE OpenPeriodOver(breaker, now)
    BY <2>1, <2>4, AllowEffect DEF HAdmit, Admit
  <2>5. OpenPeriodOver(breaker, now)
    BY <2>2, <2>3, <2>4 DEF HNext
  <2> QED BY <2>1, <2>5 DEF OpenPeriodOver
<1> QED BY <1>1, InitHInv, StepHInv, PTL DEF HSpec, CoolDown

-----------------------------------------------------------------------------
\* The rolling window

\* The window of a closed breaker is what is left of all outcomes since it closed,
\* without those that no later window can contain.
WindowInv ==
    breaker.state = "closed" =>
        /\ IsRest(breaker.window, outcomes, now - RollingWindow)
        /\ Chronicle(outcomes, now)

TripInv == HInv /\ WindowInv

LEMMA InitTripInv == HInit => TripInv
<1> SUFFICES ASSUME HInit PROVE WindowInv
  BY InitHInv DEF TripInv
<1> DEFINE e == <<>>
<1>1. e \in Seq(Observation) /\ Len(e) = 0 /\ DOMAIN e = {}
  OBVIOUS
<1>2. breaker = New /\ outcomes = e
  BY DEF HInit, Init
<1>3. New.window = e
  BY DEF New
<1> HIDE DEF e
<1> QED BY <1>1, <1>2, <1>3 DEF WindowInv, IsRest, Chronicle

\* A report that is recorded keeps the window in step with the outcomes.
LEMMA RecordStep ==
    ASSUME TypeOK, WindowInv, breaker.state = "closed", NEW ok \in BOOLEAN
    PROVE  LET o == [at |-> now, success |-> ok]
               w == Record(breaker, ok, now).window
               u == Append(outcomes, o)
           IN  /\ IsRest(w, u, now - RollingWindow)
               /\ Chronicle(u, now)
               /\ Len(w) > 0
               /\ \A i \in 1..Len(w) : ~(w[i].at < now - RollingWindow)
<1> DEFINE o == [at |-> now, success |-> ok]
<1>1. now \in Nat /\ breaker \in BreakerType
  BY DEF TypeOK
<1>2. o \in Observation /\ o.at = now
  BY <1>1 DEF Observation
<1>3. Record(breaker, ok, now).window
        = EvictBefore(Append(breaker.window, o), now - RollingWindow)
  BY <1>1 DEF Record, BreakerType
<1>4. /\ IsRest(breaker.window, outcomes, now - RollingWindow)
      /\ Chronicle(outcomes, now)
  BY DEF WindowInv
<1> HIDE DEF o
<1>5. LET e == EvictBefore(Append(breaker.window, o), now - RollingWindow)
          u == Append(outcomes, o)
      IN  /\ IsRest(e, u, now - RollingWindow)
          /\ Chronicle(u, now)
          /\ Len(e) > 0
          /\ \A i \in 1..Len(e) : ~(e[i].at < now - RollingWindow)
  BY <1>1, <1>2, <1>4, RecordExact
<1> QED BY <1>3, <1>5 DEF o

\* A failure that is recorded trips the breaker or leaves the window recorded.
LEMMA FailureStep ==
    ASSUME TypeOK, breaker.state = "closed",
           breaker' = RecordFailure(breaker, now)
    PROVE  LET rec == Record(breaker, FALSE, now) IN
           /\ breaker'.state = "open" <=> AtThreshold(rec.window)
           /\ ~AtThreshold(rec.window) => breaker' = rec
<1> DEFINE rec == Record(breaker, FALSE, now)
<1>1. now \in Nat /\ breaker \in BreakerType
  BY DEF TypeOK
<1>2. breaker' = MaybeTrip(rec, now)
  BY DEF RecordFailure
<1>3. rec \in BreakerType /\ rec.state = "closed"
  BY <1>1, RecordEffect
<1> HIDE DEF rec
<1>4. TransitionTo(rec, "open", now).state = "open"
  BY <1>1, <1>3, TransitionEffect
<1> SUFFICES /\ breaker'.state = "open" <=> AtThreshold(rec.window)
             /\ ~AtThreshold(rec.window) => breaker' = rec
  BY DEF rec
<1> QED BY <1>2, <1>3, <1>4 DEF MaybeTrip

LEMMA StepTripInv == TripInv /\ [HNext]_hvars => TripInv'
<1> SUFFICES ASSUME TripInv, [HNext]_hvars PROVE WindowInv'
  BY StepHInv DEF TripInv
<1>1. TypeOK /\ breaker \in BreakerType /\ now \in Nat /\ WindowInv
  BY DEF TripInv, HInv, IInv, TypeOK
<1>2. CASE UNCHANGED hvars
  BY <1>1, <1>2 DEF hvars, WindowInv
<1>3. CASE HTick
  <2>1. breaker' = breaker /\ outcomes' = outcomes /\ now' = now + 1
    BY <1>3 DEF HTick, Tick, historyVars
  <2> SUFFICES ASSUME breaker.state = "closed"
               PROVE  /\ IsRest(breaker.window, outcomes, now' - RollingWindow)
                      /\ Chronicle(outcomes, now')
    BY <2>1 DEF WindowInv
  <2> DEFINE w == breaker.window
             c == now - RollingWindow
  <2>2. IsRest(w, outcomes, c) /\ Chronicle(outcomes, now)
    BY <1>1 DEF WindowInv
  <2>3. c \in Int /\ now' - RollingWindow = c + 1
    BY <1>1, <2>1, BreakerAssumption
  <2> HIDE DEF w, c
  <2>4. \A i \in DOMAIN outcomes : outcomes[i] \in Observation
    BY <2>2 DEF IsRest
  <2>5. \A i \in DOMAIN outcomes : outcomes[i].at \in Nat
    BY <2>4 DEF Observation
  <2>6. /\ w \in Seq(Observation) /\ outcomes \in Seq(Observation)
        /\ Len(w) <= Len(outcomes)
        /\ \A i \in 1..Len(w) : w[i] = outcomes[Len(outcomes) - Len(w) + i]
        /\ \A i \in 1..(Len(outcomes) - Len(w)) : outcomes[i].at < c
    BY <2>2 DEF IsRest
  <2>7. \A i \in 1..(Len(outcomes) - Len(w)) : outcomes[i].at < c + 1
    <3> SUFFICES ASSUME NEW i \in 1..(Len(outcomes) - Len(w))
                 PROVE  outcomes[i].at < c + 1
      OBVIOUS
    <3>1. i \in DOMAIN outcomes
      BY <2>6
    <3>2. outcomes[i].at \in Nat /\ outcomes[i].at < c
      BY <2>5, <2>6, <3>1
    <3> QED BY <2>3, <3>2
  <2>8. IsRest(w, outcomes, c + 1)
    BY <2>6, <2>7 DEF IsRest
  <2>9. Chronicle(outcomes, now + 1)
    <3> SUFFICES ASSUME NEW i \in DOMAIN outcomes PROVE outcomes[i].at <= now + 1
      BY <2>2 DEF Chronicle
    <3>1. outcomes[i].at \in Nat /\ outcomes[i].at <= now
      BY <2>2, <2>5 DEF Chronicle
    <3> QED BY <1>1, <3>1
  <2> QED BY <2>1, <2>3, <2>8, <2>9 DEF w
<1>4. ASSUME NEW r \in Reqs, HAdmit(r) PROVE WindowInv'
  <2>1. /\ breaker' = Allow(breaker, now) /\ Admits(breaker, now)
        /\ outcomes' = outcomes /\ now' = now
    BY <1>4 DEF HAdmit, Admit
  <2>2. breaker'.state = "closed" => breaker' = breaker
    BY <1>1, <2>1, AllowEffect DEF BreakerType
  <2> QED BY <1>1, <2>1, <2>2 DEF WindowInv
<1>5. ASSUME NEW ok \in BOOLEAN, Remember(ok), now' = now,
             breaker' = IF ok THEN RecordSuccess(breaker, now)
                              ELSE RecordFailure(breaker, now)
      PROVE  WindowInv'
  <2> SUFFICES ASSUME breaker'.state = "closed"
               PROVE  /\ IsRest(breaker'.window, outcomes', now - RollingWindow)
                      /\ Chronicle(outcomes', now)
    BY <1>5 DEF WindowInv
  <2>1. CASE breaker.state = "closed"
    <3>1. outcomes' = Append(outcomes, [at |-> now, success |-> ok])
      BY <1>5, <2>1 DEF Remember
    <3>2. breaker' = Record(breaker, ok, now)
      <4>1. CASE ok
        BY <1>5, <2>1, <4>1 DEF RecordSuccess
      <4>2. CASE ~ok
        <5>1. ok = FALSE /\ breaker' = RecordFailure(breaker, now)
          BY <1>5, <4>2
        <5> QED BY <1>1, <2>1, <5>1, FailureStep
      <4> QED BY <4>1, <4>2
    <3> QED BY <1>1, <2>1, <3>1, <3>2, RecordStep
  <2>2. CASE breaker.state # "closed"
    <3> DEFINE e == <<>>
    <3>1. e \in Seq(Observation) /\ Len(e) = 0 /\ DOMAIN e = {}
      OBVIOUS
    <3>2. outcomes' = e
      BY <1>5, <2>2 DEF Remember
    <3>3. breaker.state = "half-open" /\ ok
      BY <1>1, <1>5, <2>2, SuccessEffect, FailureEffect DEF BreakerType
    <3>4. breaker' = TransitionTo(breaker, "closed", now)
      BY <1>5, <2>2, <3>3 DEF RecordSuccess
    <3>5. breaker'.window = e
      BY <1>1, <3>4, TransitionEffect
    <3> HIDE DEF e
    <3> QED BY <3>1, <3>2, <3>5 DEF IsRest, Chronicle
  <2> QED BY <2>1, <2>2
<1>6. ASSUME NEW r \in Reqs, HSucceed(r) \/ HUpgrade(r) PROVE WindowInv'
  BY <1>5, <1>6 DEF HSucceed, HUpgrade, Succeed, Upgrade
<1>7. ASSUME NEW r \in Reqs, HFail(r) PROVE WindowInv'
  BY <1>5, <1>7 DEF HFail, Fail
<1> QED BY <1>2, <1>3, <1>4, <1>6, <1>7 DEF HNext

\* A closed breaker opens on a reported failure exactly when the outcomes of the
\* last rolling window justify it.
THEOREM TripTheorem == HSpec => TripJustified
<1> DEFINE Justified(r) ==
        breaker.state = "closed" /\ HFail(r) =>
            LET seen == Recent(Append(outcomes, [at |-> now, success |-> FALSE]))
            IN  breaker'.state = "open" <=>
                  /\ seen.count >= cfg.MinRequests
                  /\ seen.failed * 100 >= cfg.FailureThreshold * seen.count
<1>1. ASSUME TripInv, NEW r \in Reqs, breaker.state = "closed", HFail(r)
      PROVE  Justified(r)
  <2> DEFINE u == Append(outcomes, [at |-> now, success |-> FALSE])
             w == Record(breaker, FALSE, now).window
             c == now - RollingWindow
             old == {i \in DOMAIN u : ~(u[i].at < c)}
             young == {i \in DOMAIN u : now - u[i].at <= RollingWindow}
             f == FailureCount(w)
             n == Len(w)
  <2>1. TypeOK /\ now \in Nat /\ WindowInv
    BY <1>1 DEF TripInv, HInv, IInv, TypeOK
  <2>2. breaker' = RecordFailure(breaker, now)
    BY <1>1 DEF HFail, Fail
  <2>3. breaker'.state = "open" <=> AtThreshold(w)
    BY <1>1, <2>1, <2>2, FailureStep
  <2>4. /\ IsRest(w, u, c) /\ n > 0
        /\ \A i \in 1..Len(w) : ~(w[i].at < c)
    BY <1>1, <2>1, RecordStep
  <2>5. RollingWindow \in Nat /\ c \in Int
    BY <2>1, BreakerAssumption
  <2>6. Recent(u).count = Cardinality(young)
        /\ Recent(u).failed = Cardinality({i \in young : ~u[i].success})
    BY DEF Recent
  <2> SUFFICES breaker'.state = "open" <=>
                  /\ Recent(u).count >= cfg.MinRequests
                  /\ Recent(u).failed * 100 >= cfg.FailureThreshold * Recent(u).count
    OBVIOUS
  <2>7. young = old
    <3> SUFFICES ASSUME NEW i \in DOMAIN u
                 PROVE  now - u[i].at <= RollingWindow <=> ~(u[i].at < c)
      OBVIOUS
    <3>1. u[i] \in Observation
      BY <2>4 DEF IsRest
    <3>2. u[i].at \in Nat
      BY <3>1 DEF Observation
    <3> QED BY <2>1, <2>5, <3>2
  <2> HIDE DEF u, w, c
  <2>8. /\ Cardinality(old) = Len(w)
        /\ Cardinality({i \in old : ~u[i].success}) = f
        /\ f \in Nat
    BY <2>4, <2>5, RestCounts
  <2>9. Recent(u).count = n /\ Recent(u).failed = f
    BY <2>6, <2>7, <2>8
  <2>10. n \in Nat /\ cfg.FailureThreshold \in Int
    BY <2>4, ConfigTyped DEF IsRest, ConfigType
  <2>11. AtThreshold(w) <=> /\ n >= cfg.MinRequests
                            /\ (f * 100) \div n >= cfg.FailureThreshold
    BY DEF AtThreshold
  <2> HIDE DEF f, n
  <2>12. (f * 100) \div n >= cfg.FailureThreshold <=> f * 100 >= cfg.FailureThreshold * n
    <3>1. f * 100 \in Nat
      BY <2>8
    <3> QED BY <2>4, <2>10, <3>1, PercentThreshold
  <2> QED BY <2>3, <2>9, <2>11, <2>12
<1>2. TripInv /\ [HNext]_hvars => [\A r \in Reqs : Justified(r)]_hvars
  BY <1>1
<1> QED BY <1>2, InitTripInv, StepTripInv, PTL DEF HSpec, TripJustified
=============================================================================
