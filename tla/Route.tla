-------------------------------- MODULE Route --------------------------------
(***************************************************************************)
(* One route of the gateway: the handler goroutines running serveProxy,    *)
(* the backends they share (Backend.alive and Backend.inflight, both       *)
(* atomics), one circuit breaker per backend, and the route's health       *)
(* checker goroutine with its concurrent probes.                           *)
(*                                                                         *)
(* Each action is one access to shared state, so that every interleaving   *)
(* of the handlers, the probes and the backends' own failures is a         *)
(* behaviour. The balancer is what the four algorithms promise: Next loads *)
(* the alive flags one by one and returns one of the backends whose flag   *)
(* it saw set. A request rejected by the rate limiter touches none of this *)
(* state and is a stuttering step.                                         *)
(***************************************************************************)
EXTENDS Breaker

CONSTANTS
    Reqs,            \* handler goroutines, each serving request after request
    Backends,        \* the backends, as a sequence of distinct URLs
    BadURLs,         \* those whose URL does not parse
    HasBreaker,      \* FALSE: no circuit_breaker: block, the breakers are nil
    ClientsCancel,   \* TRUE: clients may go away while they wait
    ClientsUpgrade,  \* TRUE: clients may ask for another protocol
    MaxFlips,        \* bound on how often backends fail or recover
    MaxTime,         \* bound on the clock
    MaxObservations  \* bound on a rolling window, counting reports to come

Backend == {Backends[i] : i \in DOMAIN Backends}

ASSUME RouteAssumption ==
    /\ IsFiniteSet(Reqs)
    /\ Backends \in Seq(Backend)
    /\ BadURLs \in SUBSET Backend
    /\ HasBreaker \in BOOLEAN
    /\ ClientsCancel \in BOOLEAN
    /\ ClientsUpgrade \in BOOLEAN
    /\ MaxFlips \in Nat
    /\ MaxTime \in Nat
    /\ MaxObservations \in Nat

VARIABLES
    up,        \* environment: backend answers below 500, on every path
    flips,     \* how often up has changed
    alive,     \* Backend.alive
    conns,     \* Backend.inflight
    breaker,   \* route.breakers
    probe,     \* the checker's probe of a backend: none, sent, or its verdict
    req,       \* the handlers: where they are in serveProxy, and its locals
    now        \* the monotonic clock

vars == <<up, flips, alive, conns, breaker, probe, req, now>>

\* Before Next has returned, the handler has no backend.
NoBackend == "none"

\* cursor and seen: how many alive flags healthy has loaded, and the backends
\* it found alive; ok: whether the upstream's answer counts as a success;
\* upgrade: the answer is a 101, a success that a failure will follow.
HandlerType ==
    [pc : {"idle", "scan", "check", "admitted", "proxy", "report", "mark", "closing"},
     cursor : 0..Len(Backends), seen : SUBSET Backend,
     backend : Backend \cup {NoBackend}, ok : BOOLEAN, upgrade : BOOLEAN]

\* The fields of a handler that waits for the next request.
Idle == [pc |-> "idle", cursor |-> 0, seen |-> {}, backend |-> NoBackend,
         ok |-> FALSE, upgrade |-> FALSE]

TypeOK ==
    /\ up \in [Backend -> BOOLEAN]
    /\ flips \in Nat
    /\ alive \in [Backend -> BOOLEAN]
    /\ conns \in [Backend -> Nat]
    /\ breaker \in [Backend -> BreakerType]
    /\ probe \in [Backend -> {"none", "sent", "up", "down"}]
    /\ req \in [Reqs -> HandlerType]
    /\ now \in Nat

\* buildRoute: every backend starts alive, every breaker closed, and the
\* checker's goroutine starts with a round of probes.
Init ==
    /\ up \in [Backend -> BOOLEAN]
    /\ flips = 0
    /\ alive = [b \in Backend |-> TRUE]
    /\ conns = [b \in Backend |-> 0]
    /\ breaker = [b \in Backend |-> New]
    /\ probe = [b \in Backend |-> "sent"]
    /\ req = [r \in Reqs |-> Idle]
    /\ now = 0

-----------------------------------------------------------------------------
\* serveProxy

UnderWay == {r \in Reqs : req[r].pc # "idle"}

WithinBounds ==
    \A b \in Backend :
        Len(breaker[b].window) + 2 * Cardinality(UnderWay) < MaxObservations

\* The limiter has let the request pass; Next starts to filter the backends.
Begin(r) ==
    /\ req[r].pc = "idle"
    /\ WithinBounds
    /\ req' = [req EXCEPT ![r].pc = "scan"]
    /\ UNCHANGED <<up, flips, alive, conns, breaker, probe, now>>

\* healthy: one IsAlive of the loop.
Scan(r) ==
    /\ req[r].pc = "scan"
    /\ req[r].cursor < Len(Backends)
    /\ LET b == Backends[req[r].cursor + 1]
       IN  req' = [req EXCEPT ![r].cursor = @ + 1,
                              ![r].seen = IF alive[b] THEN @ \cup {b} ELSE @]
    /\ UNCHANGED <<up, flips, alive, conns, breaker, probe, now>>

\* Next returns ErrNoHealthyBackend: 503.
NoHealthyBackend(r) ==
    /\ req[r].pc = "scan"
    /\ req[r].cursor = Len(Backends)
    /\ req[r].seen = {}
    /\ req' = [req EXCEPT ![r] = Idle]
    /\ UNCHANGED <<up, flips, alive, conns, breaker, probe, now>>

\* Next returns one of the backends it found alive; its own locals are gone.
Pick(r) ==
    /\ req[r].pc = "scan"
    /\ req[r].cursor = Len(Backends)
    /\ \E b \in req[r].seen :
          req' = [req EXCEPT ![r] = [Idle EXCEPT !.pc = "check", !.backend = b]]
    /\ UNCHANGED <<up, flips, alive, conns, breaker, probe, now>>

\* cb.Allow returns nil; a nil breaker allows everything.
CircuitAllows(r) ==
    /\ req[r].pc = "check"
    /\ LET b == req[r].backend
       IN  /\ HasBreaker => Admits(breaker[b], now)
           /\ breaker' = IF HasBreaker
                         THEN [breaker EXCEPT ![b] = Allow(@, now)] ELSE breaker
    /\ req' = [req EXCEPT ![r].pc = "admitted"]
    /\ UNCHANGED <<up, flips, alive, conns, probe, now>>

\* cb.Allow returns ErrCircuitOpen: 503.
CircuitOpen(r) ==
    /\ req[r].pc = "check"
    /\ HasBreaker
    /\ ~Admits(breaker[req[r].backend], now)
    /\ req' = [req EXCEPT ![r] = Idle]
    /\ UNCHANGED <<up, flips, alive, conns, breaker, probe, now>>

\* Mutant of Forward: an early return after Allow forgets the breaker.
ForwardUnreported(r) ==
    /\ req[r].pc = "admitted"
    /\ conns' = [conns EXCEPT ![req[r].backend] = @ + 1]
    /\ \E next \in {"proxy", "closing"} : req' = [req EXCEPT ![r].pc = next]
    /\ UNCHANGED <<up, flips, alive, breaker, probe, now>>

\* Inc, and url.Parse: a URL that does not parse is answered with 502 and
\* nothing is reported to the breaker.
Forward(r) ==
    /\ req[r].pc = "admitted"
    /\ conns' = [conns EXCEPT ![req[r].backend] = @ + 1]
    /\ req' = [req EXCEPT ![r].pc =
                  IF req[r].backend \in BadURLs THEN "closing" ELSE "proxy"]
    /\ UNCHANGED <<up, flips, alive, breaker, probe, now>>

\* The reverse proxy's round trip ends. A failure is a 5xx status or an error
\* from the transport: refused, timed out, or cancelled by the client.
Answer(r) ==
    /\ req[r].pc = "proxy"
    /\ \E success \in {up[req[r].backend]} \cup (IF ClientsCancel THEN {FALSE} ELSE {}) :
       \E upgrade \in {FALSE, success /\ ClientsUpgrade} :
          req' = [req EXCEPT ![r].pc = "report", ![r].ok = success, ![r].upgrade = upgrade]
    /\ UNCHANGED <<up, flips, alive, conns, breaker, probe, now>>

\* ModifyResponse and ErrorHandler report to the breaker first ...
Report(r) ==
    /\ req[r].pc = "report"
    /\ breaker' = IF ~HasBreaker THEN breaker
                  ELSE [breaker EXCEPT ![req[r].backend] =
                          IF req[r].ok THEN RecordSuccess(@, now) ELSE RecordFailure(@, now)]
    /\ req' = [req EXCEPT ![r].pc = "mark"]
    /\ UNCHANGED <<up, flips, alive, conns, probe, now>>

\* ... and then store the backend's alive flag. After ModifyResponse has passed a
\* 101, the reverse proxy finds that it cannot hijack the connection and calls
\* ErrorHandler.
Mark(r) ==
    /\ req[r].pc = "mark"
    /\ alive' = [alive EXCEPT ![req[r].backend] = req[r].ok]
    /\ req' = [req EXCEPT ![r].pc = IF req[r].ok /\ req[r].upgrade THEN "report" ELSE "closing",
                          ![r].ok = @ /\ ~req[r].upgrade]
    /\ UNCHANGED <<up, flips, conns, breaker, probe, now>>

\* Mutant of Close: the connection count is decremented only after a success.
CloseOnSuccess(r) ==
    /\ req[r].pc = "closing"
    /\ conns' = IF req[r].ok THEN [conns EXCEPT ![req[r].backend] = @ - 1] ELSE conns
    /\ req' = [req EXCEPT ![r] = Idle]
    /\ UNCHANGED <<up, flips, alive, breaker, probe, now>>

\* The body has been copied, or the copy has failed: the deferred Dec.
Close(r) ==
    /\ req[r].pc = "closing"
    /\ conns' = [conns EXCEPT ![req[r].backend] = @ - 1]
    /\ req' = [req EXCEPT ![r] = Idle]
    /\ UNCHANGED <<up, flips, alive, breaker, probe, now>>

Handle(r) ==
    \/ Begin(r) \/ Scan(r) \/ NoHealthyBackend(r) \/ Pick(r)
    \/ CircuitAllows(r) \/ CircuitOpen(r) \/ Forward(r)
    \/ Answer(r) \/ Report(r) \/ Mark(r) \/ Close(r)

-----------------------------------------------------------------------------
\* The health checker

\* checkAll: when the ticker fires and the last round has been waited for, one
\* probe is started per backend.
BeginRound ==
    /\ \A b \in Backend : probe[b] = "none"
    /\ probe' = [b \in Backend |-> "sent"]
    /\ UNCHANGED <<up, flips, alive, conns, breaker, req, now>>

\* checkOne: the backend answers the probe, the probe times out, or the URL
\* does not parse.
ProbeAnswer(b) ==
    /\ probe[b] = "sent"
    /\ probe' = [probe EXCEPT ![b] = IF up[b] /\ b \notin BadURLs THEN "up" ELSE "down"]
    /\ UNCHANGED <<up, flips, alive, conns, breaker, req, now>>

\* Mutant of ProbeApply: a probe only takes backends out, it never restores them.
ProbeApplyDownOnly(b) ==
    /\ probe[b] \in {"up", "down"}
    /\ alive' = [alive EXCEPT ![b] = @ /\ probe[b] = "up"]
    /\ probe' = [probe EXCEPT ![b] = "none"]
    /\ UNCHANGED <<up, flips, conns, breaker, req, now>>

\* Mutant of ProbeApply: a probe only restores backends, it never takes them out.
ProbeApplyUpOnly(b) ==
    /\ probe[b] \in {"up", "down"}
    /\ alive' = [alive EXCEPT ![b] = @ \/ probe[b] = "up"]
    /\ probe' = [probe EXCEPT ![b] = "none"]
    /\ UNCHANGED <<up, flips, conns, breaker, req, now>>

\* setAlive with the verdict, however old it is by now.
ProbeApply(b) ==
    /\ probe[b] \in {"up", "down"}
    /\ alive' = [alive EXCEPT ![b] = (probe[b] = "up")]
    /\ probe' = [probe EXCEPT ![b] = "none"]
    /\ UNCHANGED <<up, flips, conns, breaker, req, now>>

Check == BeginRound \/ \E b \in Backend : ProbeAnswer(b) \/ ProbeApply(b)

-----------------------------------------------------------------------------
\* The environment

\* A backend fails or recovers.
Flip(b) ==
    /\ flips < MaxFlips
    /\ flips' = flips + 1
    /\ up' = [up EXCEPT ![b] = ~@]
    /\ UNCHANGED <<alive, conns, breaker, probe, req, now>>

Tick ==
    /\ now < MaxTime
    /\ now' = now + 1
    /\ UNCHANGED <<up, flips, alive, conns, breaker, probe, req>>

Next ==
    \/ \E r \in Reqs : Handle(r)
    \/ Check
    \/ \E b \in Backend : Flip(b)
    \/ Tick

Spec == Init /\ [][Next]_vars

\* The checker's goroutine runs until it is stopped: its ticker fires again and
\* again, a probe ends (client timeout 3 s) and its verdict is stored. Handlers
\* get no fairness: a client may keep its request waiting for ever.
Fairness ==
    /\ WF_vars(BeginRound)
    /\ \A b \in Backend : WF_vars(ProbeAnswer(b)) /\ WF_vars(ProbeApply(b))

FairSpec == Spec /\ Fairness

-----------------------------------------------------------------------------
\* The requests to b that were admitted and will report to its breaker, and those
\* among them for which it will be the second time.
Reporting(b) ==
    IF ~HasBreaker \/ b \in BadURLs THEN {}
    ELSE {r \in Reqs : /\ req[r].backend = b
                       /\ \/ req[r].pc \in {"admitted", "proxy", "report"}
                          \/ req[r].pc = "mark" /\ req[r].ok /\ req[r].upgrade}

Upgrading(b) ==
    {r \in Reporting(b) : req[r].upgrade /\ (req[r].ok <=> req[r].pc = "mark")}

\* serveProxy keeps the breaker's protocol: whatever early return a request
\* takes, a half-open breaker that rejects everybody has an admitted request
\* that will still report (gateway.go lines 271-327).
NoStuckHalfOpen ==
    \A b \in Backend :
        breaker[b].state = "half-open" /\ ~Admits(breaker[b], now) => Reporting(b) # {}

\* Seen from one backend, a route is a CircuitBreaker whose requests in flight
\* are the ones that will report.
Circuit(b) == INSTANCE CircuitBreaker
                WITH breaker <- breaker[b], inflight <- Reporting(b), upgrading <- Upgrading(b)

\* Every handler uses every breaker the way CircuitBreaker prescribes: exactly
\* one report for each admission, a success and then a failure for an upgrade, at
\* any later time, and nothing else changes a breaker (gateway.go lines 271-276 and 310-327).
BreakersRefined ==
    [][\A b \in Backend : [Circuit(b)!Next]_(Circuit(b)!vars)]_vars

\* The requests that count as b's connections.
Connected(b) ==
    {r \in Reqs : req[r].pc \in {"proxy", "report", "mark", "closing"}
                    /\ req[r].backend = b}

\* Backend.inflight is the number of requests the backend is serving on every
\* path through serveProxy, the early returns and aborted copies included, so
\* that least_conn is never misled for good (gateway.go lines 279-280).
InflightExact == \A b \in Backend : conns[b] = Cardinality(Connected(b))

\* gateway.go line 314, "will be recovered by health checker": a backend that
\* stays up is in rotation again and again, whatever late failures, cancelled
\* requests and stale probes do to its flag.
RecoveredWhenUp ==
    \A b \in Backend \ BadURLs : <>[]up[b] => []<>alive[b]

\* README, "auto-removes unhealthy nodes": a backend that stays down ends up out
\* of rotation for good, though late successes may put it back for a while.
RemovedWhenDown ==
    \A b \in Backend : <>[](~up[b]) => <>[](~alive[b])
=============================================================================
