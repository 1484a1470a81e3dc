# TLA+ verification of gateway-pro

gateway-pro is an HTTP gateway: it matches a request to a route, limits its
rate, chooses a backend, asks that backend's circuit breaker, and forwards the
request with `httputil.ReverseProxy`, while health checkers probe the backends
and a watcher replaces all routes when the configuration file changes. Line
numbers below refer to the files under `src/`.

## 1. The system

| Component | State | Operations | Shared with |
|---|---|---|---|
| circuit breaker (`circuitbreaker.go`) | state, `openAt`, rolling window of observations, two half-open counters, under one mutex | `Allow`, `RecordSuccess`, `RecordFailure` | all handlers of a route that chose the backend |
| proxy core (`gateway.go`, `serveProxy`) | locals of each handler; `Backend.inflight` and `Backend.alive` (atomics) | limit, `Next`, `Allow`, `Inc`, forward, the callbacks `ModifyResponse` and `ErrorHandler`, deferred `Dec` | breakers, balancer, health checker |
| health checker (`health.go`) | ticker, one probe per backend, context | `run`, `checkAll`, `checkOne`, `Stop` | stores `Backend.alive` |
| balancers (`loadbalancer.go`) | counter (round robin), credits (weighted), none (least connections, IP hash) | `Next` | all handlers of a route; reads `alive` and `inflight` one atomic at a time |
| gateway (`gateway.go`) | `routes` under a RWMutex; one checker goroutine per route object | `ServeHTTP`, `Reload`, `buildRoutes` | main's reload goroutine, all handlers |
| configuration watcher (`config.go`, `main.go`) | debounce timer, channel of capacity 1 | fsnotify events, `load`, non-blocking send, receive and `Reload`, `Close` | file system, gateway, main |
| in-process limiters (`ratelimiter.go`) | map from key to bucket under a RWMutex, a mutex in each bucket | `getOrCreate`, `Allow` | all handlers of a route |
| Redis limiter (`ratelimiter.go`) | a sorted set of time stamps per key in Redis, with an expiry | script under a 50 ms timeout, fail-open | other gateways, whose clocks differ |
| middleware (`middleware.go`, `auth.go`) | the status each wrapper has seen | chain around `serveProxy`, `Recovery` outermost | metrics, log |
| tracing (`tracing.go`) | bounded list of spans; channel, batch and goroutine of the exporter | `Add`, `record`, `loop`, `Stop` | all handlers, collector |
| process (`main.go`) | two servers, one deadline | start, signal, graceful shutdown | watcher, clients of both servers |
| not modelled | configuration parsing, token verification, admin endpoints | | section 6 |

What is hard here is concurrency without a common lock. A breaker's admission and
its report are separated by a whole upstream call; an alive flag has three writers
(probe, success, failure), and each writes what was true some time ago; a reload
runs while requests are on the routes it replaces; a limiter's bucket is created
by whoever comes first; the weighted balancer holds a mutex that does not protect
the flags it reads, and the other balancers hold none; a limit in Redis is kept by
gateways whose clocks differ and by scripts that run after their caller has given
up; a panic skips every layer up to `Recovery`, which may find an answer half
written; and two servers share one shutdown deadline. Section 3 says, component by
component, which properties make this correct; `hazards` in PROJECT.json lists the
places.

## 2. The modules

| Module | Models | Uses |
|---|---|---|
| `Breaker` | the breaker's methods as operators on a breaker record | |
| `CircuitBreaker` | one breaker and its concurrent requests | extends `Breaker` |
| `CircuitBreakerHistory` | the same with a record of what happened | extends `CircuitBreaker` |
| `BreakerLemmas` | what each method does to a breaker record, and to its window | extends `Breaker` |
| `CircuitBreakerProofs` | theorems on `CircuitBreaker` and `CircuitBreakerHistory` | extends `BreakerLemmas` |
| `Route` | `serveProxy`, the breakers, the connection counts and flags, the health checker | extends `Breaker`, instantiates `CircuitBreaker` per backend |
| `RouteProofs` | theorems on `Route` | extends `BreakerLemmas` |
| `Gateway` | `Reload`, `buildRoutes`, dispatch, checkers of old and new routes | |
| `ConfigWatcher` | from a save of the file to the configuration in force | |
| `Process` | both servers, the signal, the shutdown, the end of the process | extends `ConfigWatcher` |
| `MainProofs` | theorems on what main sets going: `Process` and `Gateway` | extends `Gateway` and `Process` |
| `RetryHeader` | how the wait of a rejection is told in whole seconds | |
| `BucketTable` | the key table of both in-process limiters and its double-checked locking, the clock, the history of admissions | extends `RetryHeader` |
| `SlidingWindow`, `TokenBucket` | the two limiters | extend `BucketTable` |
| `LimiterProofs` | theorems on both in-process limiters | extends `SlidingWindow` and `TokenBucket` |
| `RedisLimiter` | the limiter that gateways share through Redis | extends `RetryHeader` |
| `RedisProofs` | theorems on `RedisLimiter` | extends `RedisLimiter` |
| `Pool` | the backends of a route and their alive flags | |
| `Weighted` | smooth weighted round-robin | extends `Pool` |
| `Balancer` | round robin, least connections, IP hash, and `healthy`, which all share | extends `Pool` |
| `BalancerProofs` | theorems on `Balancer` and `Weighted` | extends both |
| `Outbox` | what the span exporter promises (abstract) | |
| `SpanExporter` | channel, batch, goroutine and `Stop` of the exporter | |
| `Chain` | the middleware around `serveProxy`, the trace store, the exporter | extends `SpanExporter`, instantiates `Outbox` |
| `ChainProofs` | theorems on `Chain` | extends `Chain` |

The `MC*` modules only give constants their values. `CircuitBreaker` is also the
abstract specification of what `Route` does to each breaker (`BreakersRefined`),
and `Outbox` of what `SpanExporter` does within `Chain` (`StopDrains`);
`Conforms` in `TokenBucket` and the histories of admissions are the reference
definitions that the limiters are compared with.

**Granularity.** What runs under a mutex is one step (every breaker method, the
look and the second look of `getOrCreate`, `Allow` of a bucket). Accesses to
atomics are a step each: `healthy` loads one flag per step, a callback reports
to the breaker in one step and stores the flag in the next. `Weighted` needs its
loop's rounds as steps, as its flags change under it; in `Balancer` a comparison
of least connections is two loads.

**Breaker.** A method is a function of the record and of the time it reads.
Configured zeros take `New`'s defaults; negative values pass, as in the code. A
call of `Allow` that is rejected changes nothing. The request that moves the
breaker to half-open is admitted but not counted. `CircuitBreaker` lets an
admitted request report once, or, after `Upgrade`, a second time.

**Route.** `req[r]` holds a handler's place in `serveProxy` and its locals. The
four algorithms are reduced to their common promise: one of the backends whose
flag the scan found set. A backend's URL may fail to parse (`BadURLs`): the code
then returns between `Allow` and any report. `ClientsCancel` lets requests fail
that the backend would have answered. `ClientsUpgrade` lets a backend answer 101:
`ModifyResponse` then reports a success, and if the switch of protocols fails the
reverse proxy also calls `ErrorHandler`, which reports a failure and marks the
backend dead. Not modelled: headers and rewriting, several backends with the same
URL (they would share a breaker). The balancer's and the checker's `Update` have no
caller.

**Gateway.** A route object is an entry of `heap`; `routes` holds positions.
All backends are up and each route has one, so only the gateway itself can clear
a flag. `ServeHTTP` reads `routes` once and then considers one route per step, so
that a reload may replace them at any point of its loop; objects of the old slice
stay what they are. A reload is one step per entry built, then the swap, then one step per
old route. `ratelimiter.New` fails for an entry by its configuration
(`limiterOk`), `NewAuthMiddleware` whenever its key file cannot be read. After a
cancellation, `select` may still choose the ticker; a probe begun then fails at once,
while one whose answer has already come may still store success.

**ConfigWatcher, Process.** A configuration is the number of its save. A save is
one step: it is assumed to be shorter than the 200 ms debounce. `Replace` is a
rename over the path, which ends the watch. `Refused` saves are valid but fail in
`Reload`. `dropped` remembers that the last load found an older one in the channel.
`Process` adds main: on a signal it shuts the admin server down and then the proxy
server, which accepts requests meanwhile, both within one context of 30 s
(`Grace`); a failed server ends everything at once. `Shutdown` of `net/http` is
modelled from its use: it closes the listener and returns when no request is
active or the context is done. Requests of the admin server end within its read
and write timeouts (`AdminTimeout`), proxied requests need not end. The clock does
not move while main could go on, as `Shutdown` polls far more often than a tick.
A second signal stays in its channel.

**Limiters.** A bucket's identity is its position in `heap`, so a request that
holds a replaced bucket would show. `SlidingWindow` chooses the limit in `Init`
from `Rates`, zero included, because nothing validates it. `TokenBucket` counts
in units of 1/`Second` token, exactly; the rounding of `float64`, and negative
rates and bursts, are left out. `RetryAfter` and `Waits` are the durations that come
with a rejection, by two formulas: the sliding window counts from its oldest entry,
the token bucket divides what is missing of a token by the rate (with a rate of 0
that is +Inf, and any duration may come out). `Told` is what is left of a wait after
`fmt.Sprintf("%.0f", ...)`: the nearest whole second, halves to the even one.

**RedisLimiter.** One key, as keys do not interact; the sorted set is a set of
stamps, because the member is the stamp, whereas `admitted` lists every request
that was let pass, with as many entries of one stamp as there were. A handler
reads its gateway's clock, which may be ahead of others (`Skew`), and sends the
script; Redis runs it as one step some time later, or never. The handler gives up
after `Timeout` or when Redis is out of reach and lets the request pass; the
script may then still run (`RunLate`). The client library repeats a command whose
reply was lost, with the old stamp (`Resend`). Redis is external: eviction
includes the cutoff, an empty set is no key, a Lua table ends at nil, so that a
rejection without an oldest entry has a reply of one element, of which `res[1]`
panics. EXPIRE gets the window rounded up to seconds (`Expiry`), and `RetryHonest`
speaks of the wait both as computed and as told.

**Weighted.** Positive weights (validate replaces 0 by 1). `round` is the call of
`Next` that holds the mutex: how many backends its loop has visited, what it has
handed out and the best so far. A flag may change at any moment, between two visits
of one call too, and any number of times. `picked` and `waited` record who was
picked; `steady`, that no flag has changed yet.

**Balancer.** A handler goes through `healthy` flag by flag, then through its
algorithm, then `Inc` and the deferred `Dec` of `serveProxy`; flags change at any
moment. `seen` is the slice that `healthy` fills, so an algorithm indexes what was
true when each flag was loaded. The counter of round robin wraps at `Modulus`,
which stands for 2^64. `clientIP` yields a forwarded address without a port, or
`RemoteAddr` with one. The variables in `history` record since when flags and
counters have been as they are.

**Chain.** Layers from the outside in: `Recovery`, `RequestID`, tracing, `Logger`,
`Metrics`, `Auth`. The chain is a route's: a request that matches none gets its
404 from `ServeHTTP` (`gateway.go:104-107`), outside of it, and no layer records
that. `serveProxy` is reduced to how it answers: by itself, with the upstream's
answer, whose body may break off (the reverse proxy then panics with
`ErrAbortHandler`), or with a panic of a limiter. Three tracings are possible:
none, `Tracing` (the one that `buildRoutes` installs) and `NewTracingMiddleware`,
which samples and exports but has no caller in the repository; its owner may call
`Stop` at any moment, as nothing orders it after the last request. Of an answer
there is only its status line (`sent`), not the body. Whether a batch reaches the
collector is left open, as in the code, where `send` ignores errors.

## 3. The runs

| Run | Shows |
|---|---|
| `breaker` | `TypeOK`, `WindowOnlyWhenClosed`, `HalfOpenNotStuck`, `ProbeBound`, `CloseNeedsFullQuota`, `CoolDown`; `TripJustified`: the breaker trips exactly when a failure is reported and the outcomes of the last window justify it; `HalfOpenResolves` under fairness |
| `route_breaker` | `NoStuckHalfOpen`, `InflightExact`, and `BreakersRefined`: every handler keeps to `CircuitBreaker`'s protocol with every breaker, on every exit, failed upgrades included |
| `route_health` | `RecoveredWhenUp`, `RemovedWhenDown`: whatever stale verdicts and late answers store, the checker has the last word |
| `gateway_reload` | `ServedRoutesHealthy`, `RoutedToLongest`, `ServesOneConfig`, through reloads that succeed, fail at an entry, or fail after an entry's checker was started |
| `gateway_leak` | violation: a checker outlives its prefix |
| `process` | `DrainedOrExpired`: a request is cut off only at the deadline, and has at least `Grace - AdminTimeout` after the last accept; `SignalStops`: no client can hold up the end; `AppliedUnlessDropped`: the last good save is in force in the end, if its load was not dropped |
| `sliding_window` | `OneBucketPerKey`: all requests of a key share a bucket; `RateBound`, `RejectionsJustified`: never too many, never rejected without cause; `RetryHonest`: the wait of a rejection is one instant short, and the header by at most half a second more |
| `token_bucket` | `TokenRateBound`, `TokenRejectionsJustified`: the same of the promise in `Conforms`; `TokenRetryHonest`: the wait of a rejection ends when the promise allows a request again, and the header at most half a second earlier |
| `redis` | `MillisecondBound`: in how many distinct milliseconds of a window gateways let requests pass together, up to what clocks differ and stamps age (how many in each is not limited, section 4); `KeysExpire`: no key stays for ever; `RetryHonest`: the wait of a rejection is exact to the millisecond if nobody else passes, and the header at most half a second below it |
| `weighted` | `LedgerBalanced`: the credits add up to what the call under way has handed out; `CreditsBounded`: no credit drifts, however often backends die and return; `SmoothShare`: in steady state nobody is a whole request ahead of its share, and a full cycle is exact; `NotStarved`: a live backend's turn comes |
| `balancer` | `FailsOnlyIfNoneStayed`: a call fails only if no backend was alive throughout; `TurnTaking`: nobody is passed over while flags stand still, across the wrap; `LeastUpToDrift`: least connections is wrong by at most the number of counter changes since it began to compare; `StickyForwarded` |
| `chain` | `FinalStatusRecorded`: metrics, log and trace tell the status the client got; `RecentSpans`: the store is the last spans in order; `StopDrains`: the exporter implements `Outbox`, liveness included |

**Bounds.**
- `breaker`: three requests that may report twice, so that a quota of two and the
  uncounted probe can be in flight with a second report left over from an earlier
  state; five observations for a minimum of three, clock to 5 with a window of 2 and
  an open period of 1, which allows a trip, a failed and a successful half-open stay,
  and eviction. No symmetry, because the fairness names single requests.
- `route_breaker`: two handlers, a good backend and one whose URL does not parse,
  a breaker that trips on one failure with a quota of one, one change of a
  backend; `WithinBounds` keeps the window to `MaxObservations`, which is 4.
- `route_health`: two handlers that may be cancelled or upgraded, two backends, two
  changes; the breakers are absent, because only the flags matter.
- Gateway runs: three loads and two entries each, nested prefixes with the longer
  one last, a prefix listed twice; paths that match both prefixes and only the
  shorter one, which is not served by every configuration, so that some request
  finds no route; one handler, since handlers share nothing but
  `routes` and flags.
- `process`: four saves, one of which `Reload` refuses, enough for one in force, one
  being applied, one in the channel and one dropped; two clients of each server;
  `Grace` 4 and `AdminTimeout` 2, so that either part of the deadline can be used up.
- In-process limiters: three requests, two keys, so that two race for one bucket while
  another key is served; the clock passes several windows, limits 0 to 2.
  `sliding_window` has a window of two ticks, which are a second, so that waits are
  nothing, half a second (told as 0) or a second. `token_bucket` has five ticks to
  the second and rate 2, so refills are fractions of a token and waits are rounded to
  ticks; they are below half a second, told as 0. Headers that are rounded up are in
  `redis`, and in the theorems.
- `redis`: two handlers of gateways one tick apart, limits 0 to 2, a window of 4
  and a timeout of 1, so that `Lag` is 2 and the bound is not void; one
  command without a handler; clock to 7, which passes window and expiry. The clock
  cannot move past a waiting handler's timeout; handlers go on at the last tick.
  EXPIRE counts whole seconds, rounded up, so `Expiry` is at least the window; the
  run takes the tightest case, where they are equal: four ticks are both the window
  and a second. Waits are from one tick to a second and a half, told as 0, 1 and 2.
  The history holds four requests (`MaxPassed`), so that a limit of 2 can be exceeded
  by two; a reply that finds it full is lost.
- `weighted`: weights 1, 1, 3. The state space is finite without any bound on how
  often flags change, because the credits are bounded: `Reach` is 8 there.
- `balancer`: two handlers that serve request after request, three backends, so that
  two comparisons can both be stale; a counter below 16, which three does not
  divide, so that the wrap shows; up to one older connection per backend; two
  clients, one behind a proxy, two ports. No bound on changes of flags.
- `chain`: three requests and a store of two, so that it overflows; a channel of one
  and batches of two, so that a span can be refused, and flushed by the ticker, by
  a full batch or by `Stop`.

Deadlock is checked except in `breaker`, `process` and `chain`, where everything
rests once the bound on the clock or the window is reached, the process has ended,
or all requests are served.

**Fairness.** `breaker`: an admitted request reports (the transport has dial and
response-header timeouts, and a client that leaves cancels the request; the second of
these timeouts starts only when the request has been written, so that a backend which
stops reading its body delays the report for as long as the client stays), and
requests keep coming. `route_health`: the checker's goroutine loops until it is
stopped, its ticker fires, a probe ends within the client's 3 s timeout; handlers
get none, as a client can wait for ever. `process`: time passes, admin requests end
at their timeouts, main and the watcher's two goroutines block on nothing but their
channels and timers, and `Reload` waits for no lock but `gw.mu`; no client has to
finish a request, no signal has to come. `chain`: the exporter's goroutine runs
until the channel is closed, its ticker fires, a send ends within 3 s; handlers and
the call of `Stop` get none.

## 4. Where text and code disagree

`gateway_leak` (`gateway.go:81`): `Reload` compares prefixes, so a route object
replaced under the same prefix keeps its checker, and after the swap nothing refers
to it. When the prefix goes in a later reload, only the newest object's checker is
stopped. The checkers of a configuration that failed halfway leak the same way.

The models contain other disagreements. The modules state the first six, with a
comment that says that they do not hold; TLC shows it when they are checked.

- `NoDowntime` in `Gateway` (`gateway.go:82`, `health.go:98-116`): `Stop` cancels the
  probe under way, `checkOne` takes that for a failure of the backend and clears its
  flag, and a request dispatched before the swap gets 503 ("without downtime",
  `gateway.go:62`).
- `AlwaysAnswers` in `SlidingWindow` (`ratelimiter.go:194`): with `rate` 0 or missing,
  `timestamps[0]` of an empty list panics, and the client gets 500 where 429 is
  documented. Through Redis the same limit panics at `res[1]` (`Panic` in
  `RedisLimiter`).
- `StickyForAll` in `Balancer` (`loadbalancer.go:295`): without a forwarded address,
  IP hash is of `RemoteAddr` with its port, so a client that connects anew may change
  its backend (`README.md:23`). The in-process and Redis limits by address use
  `RemoteAddr` in the same way (`ratelimiter.go:99`).
- `PanicsAnswered500` in `Chain` (`middleware.go:84`): when a body breaks off, or a
  span is recorded after `Stop` (`tracing.go:103`), the status has been sent. `Recovery`
  then writes its text behind the part of the body there is and returns, so that the
  server does not learn that the answer is cut (of this the model has only the
  status). `Logger`, `Metrics` and the tracings record nothing of a request that
  panics below them, nor of one that matches no route.
- `RateBound` in `RedisLimiter` (`ratelimiter.go:238`): `ZADD key now now` makes the
  millisecond the member of the set, so a request adds nothing if another has come in
  the same one. With a limit of 2 or more, and at least two places left, the script
  lets any number of requests pass in one millisecond, where `ratelimiter.go:224` says
  that "Each request adds current timestamp" and `README.md:24` offers the limits
  through Redis. (A limit of 1 is kept: the first stamp fills the set.)
  `MillisecondBound` is what is left of the other limits.
- `ToldSuffices` in `RedisLimiter` (`gateway.go:256`): a wait below half a second is
  told as `Retry-After: 0`, and up to half a second is missing from any other, so
  that a client which does as it is told is rejected again. In the sliding window the
  wait itself is one instant short, because line 195 of `ratelimiter.go` counts to the
  moment at which the oldest entry is as old as the window and line 188 evicts only
  what is older. In the token bucket no wait helps where the burst is 0, and with rate
  0 the wait is +Inf converted to a duration. `RetryHonest` and `TokenRetryHonest`
  say how far off the wait and the header are otherwise. `X-RateLimit-Reset`
  (`gateway.go:257`, not modelled) drops the fraction of its second as well.
- The newest configuration can be dropped (`config.go:189`): while `Reload` works on
  one and a second waits in the channel, a third is not sent, and nothing loads the
  file again (`README.md:28`). Hence `~dropped` in `AppliedUnlessDropped`. A file
  replaced by a rename is no longer watched at all (`Replace`).
- Draining (`README.md:29`) is limited to 30 s, and slow clients of the admin server
  use up a part of them (`DrainedOrExpired`).
- An upgrade that fails reports a success and a failure for one request and takes
  its backend out of rotation (`Mark` in `Route`).
- An episode admits `half_open_requests` + 1 probes (`ProbeBound`; `config.go:113`);
  the breaker closes on the first success after the quota has been admitted, not when
  "all probes succeeded" (`CloseNeedsFullQuota`; `circuitbreaker.go:119`); successes
  never evaluate the threshold (`TripJustified`; `docs/architecture.md:74`).
- A client that goes away marks its backend unhealthy until the next probe (`Answer`
  in `Route`; `docs/architecture.md:54`); a reload preserves no checker
  (`BuildRoute` in `Gateway`; `gateway.go:63`).

## 5. What is proved

Every theorem holds for all values of the constants that satisfy the named
assumptions. Each component has an inductive invariant, checked by TLC on the
instance of its run before it was proved, and one lemma per action.

### The circuit breaker (`CircuitBreakerProofs`)

From `BreakerAssumption` (integer fields, a natural window) and
`CircuitBreakerAssumption` (a finite set of requests):

| Theorem | States |
|---|---|
| `TypeCorrect` | `Spec => []TypeOK` |
| `WindowTheorem` | `Spec => []WindowOnlyWhenClosed` |
| `NotStuckTheorem` | `Spec => []HalfOpenNotStuck` |
| `ProbeBoundTheorem` | `HSpec => []ProbeBound` |
| `CloseTheorem` | `HSpec => CloseNeedsFullQuota` |
| `CoolDownTheorem` | `HSpec => CoolDown` |
| `TripTheorem` | `HSpec => TripJustified` |

The lemmas of `BreakerLemmas` (`TransitionEffect`, `RecordEffect`, `AllowEffect`,
`SuccessEffect`, `FailureEffect`) say once what each method does in each state; this
module and `RouteProofs` cite them. `HalfOpenNotStuck` is not inductive. `IInv` adds
`QuotaInv`: in half-open no failure has been counted (the first one reopens), and a
used-up quota leaves a request in flight. That is inductive because the last report
of such an episode finds the quota full and closes the breaker, or fails and opens
it; a quota below one is covered because the uncounted probe is in flight from the
start. The history theorems use `HInv`, which adds that `probes` is
`halfOpenTotal` + 1 in half-open and that `openedAt` is `openAt` while open;
`HistoryRefines` gives `IInv` for the extended specification.

`TripTheorem` compares two counts: `maybeTrip` counts in the window that eviction has
left, the property in the list of all outcomes since the breaker closed. `WindowInv`
says that the window is what is left of that list without leading outcomes, each
older than the cutoff (`IsRest`), and that the list is in order of time
(`Chronicle`). Right after `record` the window's first entry is young, hence all are
(`RecordExact`), so that shifting the indices maps the window onto the young outcomes
and its failures onto theirs (`RestCounts`), and the percentage, rounded down,
reaches the threshold exactly when the products do (`PercentThreshold`). Between two
reports the window may still hold old entries; that is why the invariant claims
nothing about those.

### The route (`RouteProofs`)

From `RouteAssumption`: any finite set of handlers, any backends, URLs that do not
parse among them, any breaker configuration, cancelled and upgraded requests or not.

| Theorem | States |
|---|---|
| `TypeCorrect` | `Spec => []TypeOK` |
| `InflightTheorem` | `Spec => []InflightExact` |
| `NoStuckTheorem` | `Spec => []NoStuckHalfOpen` |
| `BreakersTheorem` | `Spec => BreakersRefined` |
| `CircuitRefinement` | `Spec => Circuit(b)!Spec`, for every backend `b` |
| `ReturnsTheorem` | `Spec => ReturnsOnLateAnswers` |

`IInv` adds to the properties what `serveProxy` knows at each of its steps (`Shape`),
that a breaker nobody reports to stays closed (`SilentClosed`, which is what makes
the early return for an unparsable URL harmless), `QuotaInv` for every breaker, and
`Accounted`: the guard on new requests leaves room in the window for both reports of
every request, without which `RecordSuccess` would not be a step of
`CircuitBreaker`. The refinement maps the handlers between `Allow` and their report
to the requests in flight.

`ReturnsOnLateAnswers` is the safety beneath `RemovedWhenDown`: late successes do put
a backend that is down back into rotation, but each only once, and while the backend
stays down there are no new ones.

### The in-process limiters (`LimiterProofs`)

The sliding window for every set of requests and keys, every integer limit and every
window, from `SlidingWindowAssumption`; the token bucket for every natural rate and
burst and every number of ticks to the second, from `TokenBucketAssumption`.

| Theorem | States |
|---|---|
| `TypeCorrect` | `Spec => []TypeOK` |
| `OneBucketTheorem` | `Spec => []OneBucketPerKey` |
| `RateBoundTheorem` | `Spec => []RateBound` |
| `RejectionsTheorem` | `Spec => RejectionsJustified` |
| `RetryTheorem` | `Spec => RetryHonest` |
| `TokenTableTheorem` | `TokenSpec => [](TokenTypeOK /\ OneBucketPerKey)` |
| `TokenRateTheorem` | `TokenSpec => []TokenRateBound` |
| `TokenRejectionsTheorem` | `TokenSpec => TokenRejectionsJustified` |
| `TokenRetryTheorem` | `TokenSpec => TokenRetryHonest` |

The lemmas on the key table (`LookupTable`, `CreateTable`, `LeaveTable`) do not
depend on what a bucket is and serve both.

`RateBound` speaks of the history of admissions, the code only of what is in a
bucket, and the invariants relate the two. In the sliding window a bucket is its
key's admissions without leading ones, all older than the window (`IsRest`), and
admissions are in order of time. When a request is admitted, the admissions `rate`
or more back are not in the bucket any more, hence older than the window; when it is
rejected, the bucket's first entry is young, and so are all later ones.

In the token bucket, `Level` says that the tokens are exactly what the strictest
stretch of admissions leaves: never more than any of them allows (`Bounded`), and
equal to what one of them does, or the burst (`Reached`). The first half gives
`TokenRateBound`; the second half gives `TokenRejectionsJustified`, as the stretch that is
reached is the one that one more request would break. Both halves survive a refill,
which adds what the elapsed time yields up to the burst, and an admission, which
subtracts one token and begins a new stretch.

The retry theorems follow from the same invariants. After a rejection by the sliding
window (`LimitFinds`) the entries that still count at a later time are a suffix of the
admissions (`CountFrom`): at the end of the wait it holds the whole bucket, an instant
later all but its first entry. In the token bucket the stretch that is reached breaks
as long as time has not yielded the missing part of a token (`ShortBreaks`), and once
it has, no stretch does (`LaterConforms`). `Rounding` says that a wait as told is at
most `Slack` below the wait; it needs `RetryHeaderAssumption`, a positive number of
ticks to the second.

### Redis (`RedisProofs`)

From `RedisAssumption` and `RetryHeaderAssumption`: any gateways with any clocks, any
limit, zero and negative ones included, any window; `Expiry` is then not shorter.

| Theorem | States |
|---|---|
| `KeysExpireTheorem` | `Spec => []KeysExpire` |
| `MillisecondTheorem` | `Spec => []MillisecondBound` |
| `RetryTheorem` | `Spec => RetryHonest` |

The difficulty is that a stamp may leave the set in two ways, by eviction with
another gateway's clock and with the whole key, and that scripts run in an order that
is not that of their stamps. `GoneInv` covers both: a stamp that passed and is no
longer in the set has left the window of the fastest clock. `KeyInv` has what it needs
(the key outlives its stamps by the expiry), `WaitInv` and `LateInv` bound the age of
a stamp that is still under way. `PassedInv` is the bound itself, but of all stamps
that passed, also of those whose handler does not know yet. It counts stamps, not
requests: of requests with equal stamps there is no bound to prove.

### The balancers (`BalancerProofs`)

From `PoolAssumption` (any number of backends, listed once each) and
`BalancerAssumption` (any number of callers, any hash function, a counter that can
count the backends), and for the weighted balancer `WeightedAssumption` (any positive
weights):

| Theorem | States |
|---|---|
| `FailsTheorem` | `Spec => FailsOnlyIfNoneStayed` |
| `TurnTheorem` | `Spec => []TurnTaking` |
| `LeastTheorem` | `Spec => []LeastUpToDrift` |
| `StickyTheorem` | `Spec => StickyForwarded` |
| `WeightedInvariant` | `WeightedSpec => []WeightedInv` |
| `LedgerTheorem` | `WeightedSpec => []LedgerBalanced` |
| `CreditsTheorem` | `WeightedSpec => []CreditsBounded` |
| `ShareTheorem` | `WeightedSpec => []SmoothShare` |
| `StarvedTheorem` | `WeightedSpec => []NotStarved` |

`ScanInv` says that a backend which has been alive since a call began is alive, and
is in what the call has seen if the loop has passed it. While no flag changes, the
slice has each live backend at its rank (`FreshInv`). `TurnInv` is a potential: how
often a backend has been passed over and how many picks are left before its turn,
across the wrap of the counter, do not exceed the bound of `TurnTaking` together; a
pick moves one from the second part to the first. `LeastInv` bounds the error of each
comparison by the drift; while a loaded count waits for its comparison, only the sum
of it and of the best so far is bounded, because the best may have grown in between
(`Loaded`). `HomeInv` ties a client's backend to the rank of its hash.

The weighted balancer has `n` backends whose weights add up to `W`. That no credit
exceeds its bound is not inductive: a winner pays for the whole round, also for backends
that die next, and the next round may be among others. `WeightedInv` bounds all sets
at once: twice what any `k` backends have together is at most `k(n - k)(W - n + 2)`
(`Spread`); one backend and all but one give the two sides of `CreditsBounded`.
In the middle of a call it speaks of the credits before the call, and knows which
backends have earned since. When the winner pays, consider `k` others, `j` of which have
earned. The winner is at least as rich as each of these, so the credit of the `k` is at
most a weighted mean of two sets: the `k` with the winner, and the `k` without the
`j`. The bounds of these two leave enough room for what has been earned (`Dilute`,
`SpreadStep`).

`Reach` grows with the number of backends for a reason. For few backends credits
stay below `W`, but not in general: an exhaustive search finds a credit of 8 for weights
1, 1, 1, 5 when flags change, and one of 15, a whole request behind, for weights 1, 1,
1, 6, 6 with all backends alive. `SmoothShare` says what does hold: the winner was the
richest, so nobody gets a whole request ahead; and after `W` picks each credit is a
multiple of `W` above `-W`, so none is negative, and as they add up to zero all are zero
(`CycleExact`). `NotStarved` follows from the credits: who is passed over has earned its
weight.

`SumOver` is a fold. Its laws (`AddsDef`) are proved by induction over the subsets
of `Backend`, with a smallest counterexample (`SetInduction`) in place of the
library's induction theorems.

### The gateway and the process (`MainProofs`)

`DrainTheorem` from `ProcessAssumption` (the admin server's timeouts fit into the
deadline), for any clients and times; `SettledTheorem` for any number of saves and any
refused configurations; the others from `GatewayAssumption`,
for any handlers, paths, configurations and number of reloads.

| Theorem | States |
|---|---|
| `DrainTheorem` | `ProcessSpec => []DrainedOrExpired` |
| `SettledTheorem` | `ProcessSpec => []AppliedWhenSettled` |
| `ServedHealthyTheorem` | `Spec => []ServedRoutesHealthy` |
| `LongestTheorem` | `Spec => []RoutedToLongest` |
| `OneConfigTheorem` | `Spec => []ServesOneConfig` |

The shutdown's invariant follows the deadline through the phases of main: while the
admin server drains, each of its requests has at most `AdminTimeout` less what has
elapsed (`AdminInv`), so that the proxy server begins to drain by then and counts
every tick since (`DrainInv`).

`AppliedWhenSettled` is the safety beneath `AppliedUnlessDropped`: while main serves
and no event, timer or configuration is pending, a good configuration in the watched
file is in force, or its load was dropped. `WatcherInv` says where it is before that
(`OnItsWay`): an event or the timer will have the file read, or it was the last one
read, behind at most one older one that main still applies.

`GatewayInv` says that every slice anybody holds is a whole configuration that gets
no more objects (`Whole`, `Sealed`): it lists all objects of one configuration, in
order. This holds of `routes` and of what every handler has read, hence the best
route a loop has found (`Best`) is, at the end of the loop, the longest match of the
whole configuration (`Longest`), whatever has been built or replaced meanwhile;
`Grows` is what every step does to the objects, and `HandlerKept` that nothing a
handler knows depends on more. While a configuration is built, `next` and `todo` make
it up (`BuildInv`), so that the swap installs all of it. `StopInv` is why the loop
that stops old checkers cannot stop one in service: what it goes through is of an
older configuration. `ObjectOK` is the reason why a backend in service stays alive:
only a probe under a cancelled context clears a flag, and such a checker does not run
again.

### The middleware chain (`ChainProofs`)

For any requests, store size, channel capacity and batch size, from `ChainAssumption`
and `ExporterAssumption`:

| Theorem | States |
|---|---|
| `FinalStatusTheorem` | `Spec => []FinalStatusRecorded` |
| `RecentTheorem` | `Spec => []RecentSpans` |
| `ExporterImplements` | `Spec => Box!Safety`: the exporter implements `Outbox` without its fairness |

`Good` says what holds of a request at each place in the chain; a status line, once
sent, is never changed (`Served`), which is why a span added earlier stays true.
`IsTail` relates the store to all spans ever added. `BoxInv` is the ledger of the
exporter: accepted is handed over, then the batch, then the channel.

### Only model-checked

- Liveness (`HalfOpenResolves`, `RecoveredWhenUp`, `RemovedWhenDown`, `SignalStops`,
  `AppliedUnlessDropped`, the fairness in `StopDrains`): TLAPS does not reason about
  fairness and `ENABLED` here.
- `RemovedRoutesNotProbed`, which is violated.

## 6. Not modelled

- Parsing, defaults and environment expansion of the configuration: a library's
  work and a pass over a record; what matters of it elsewhere (missing rates, zero
  weights, entries that fail to build) is in the inputs of the other modules.
- Verification of tokens: a pure function of the token, the key and the time.
  Only its outcome is in `Chain`, and that it may fail to be built in `Gateway`.
- The admin endpoints, which read and format; contents of log lines, labels, spans
  and headers other than Retry-After; the bodies of answers, hence what `Recovery`
  writes into one that is under way.
- Code without a caller: `Update` of the balancers and of the health checker,
  `mergeBackends`.
- The transports, one per request, whose idle connections outlive it: there is no
  state of the gateway in them.

## 7. Plan

Done: all components with state of their own, and the proofs of section 5, which state
every safety property of the passing runs. What is left to TLC is liveness;
`NoStuckTheorem`, `ReturnsTheorem` and `SettledTheorem` prove the safety beneath
three of its properties.
