------------------------------- MODULE Balancer -------------------------------
(***************************************************************************)
(* The balancers without a lock around their choice: round robin, least    *)
(* connections and IP hash (the weighted one is in Weighted). Concurrent   *)
(* calls of Next load the alive flags one atomic at a time, then choose;   *)
(* least connections loads two counters per comparison, and the counter of *)
(* the backend it returns is incremented only later, by serveProxy.        *)
(***************************************************************************)
EXTENDS Pool, SequencesExt

CONSTANTS
    Reqs,        \* handler goroutines, each serving request after request
    Clients,     \* client addresses
    Ports,       \* the ports from which they connect
    Forwarded,   \* clients whose requests carry X-Forwarded-For or X-Real-IP
    Algorithms,  \* values of lb_algorithm
    Hash,        \* fnv1a of what clientIP yields
    Standing,    \* bound on connections to a backend that stay open throughout
    Modulus      \* the counter is an unsigned integer below it (2^64)

ASSUME BalancerAssumption ==
    /\ IsFiniteSet(Reqs)
    /\ Forwarded \subseteq Clients
    /\ Ports \subseteq Nat \ {0}
    /\ Hash \in [Clients \X (Ports \cup {0}) -> Nat]
    /\ Standing \in Nat
    /\ Modulus \in Nat \ {0} /\ Len(Backends) <= Modulus

VARIABLES
    algorithm,  \* the balancer that New has made
    conns,      \* Backend.inflight
    counter,    \* roundRobin.counter
    call,       \* the handlers: where they are in Next and serveProxy
    through,    \* history: backends alive since the call began
    fresh,      \* history: no flag has changed since the call began
    drift,      \* history: changes of counters since the comparisons began
    passed,     \* history: picks of others since a backend's last pick
    home        \* history: the backend a client was sent to

history == <<through, fresh, drift, passed, home>>
vars == <<algorithm, alive, conns, counter, call, history>>

\* seen: the slice that healthy returns; cursor: how far the loop over the flags, and
\* then over the counters, has come; load: the counter just loaded.
CallType ==
    [pc : {"idle", "scan", "least", "compare", "picked", "serving"},
     client : Clients \cup {None}, port : Ports \cup {0}, cursor : 0..Len(Backends),
     seen : Seq(Backend), best : Backend \cup {None}, load : Nat]

Idle == [pc |-> "idle", client |-> None, port |-> 0, cursor |-> 0,
         seen |-> <<>>, best |-> None, load |-> 0]

\* drift stops counting where it proves nothing any more.
MaxDrift == Cardinality(Reqs) + Standing

TypeOK ==
    /\ algorithm \in Algorithms
    /\ alive \in [Backend -> BOOLEAN]
    /\ conns \in [Backend -> Nat]
    /\ counter \in 0..(Modulus - 1)
    /\ call \in [Reqs -> CallType]
    /\ through \in [Reqs -> SUBSET Backend]
    /\ fresh \in [Reqs -> BOOLEAN]
    /\ drift \in [Reqs -> 0..MaxDrift]
    /\ passed \in [Backend -> Nat]
    /\ home \in [Clients -> Backend \cup {None}]

\* New and buildBackends, and then requests of long ago that are still served.
Init ==
    /\ algorithm \in Algorithms
    /\ alive = AllAlive
    /\ conns \in [Backend -> IF algorithm = "least_conn" THEN 0..Standing ELSE {0}]
    /\ counter = 0
    /\ call = [r \in Reqs |-> Idle]
    /\ through = [r \in Reqs |-> {}]
    /\ fresh = [r \in Reqs |-> TRUE]
    /\ drift = [r \in Reqs |-> 0]
    /\ passed = [b \in Backend |-> 0]
    /\ home = [c \in Clients |-> None]

-----------------------------------------------------------------------------
\* Next

\* A request comes over a connection of client c from port p, which only IP hash
\* looks at.
Begin(r, c, p) ==
    /\ call[r].pc = "idle"
    /\ call' = [call EXCEPT ![r] = IF algorithm = "ip_hash"
                  THEN [Idle EXCEPT !.pc = "scan", !.client = c, !.port = p]
                  ELSE [Idle EXCEPT !.pc = "scan"]]
    /\ through' = [through EXCEPT ![r] = {b \in Backend : alive[b]}]
    /\ fresh' = [fresh EXCEPT ![r] = TRUE]
    /\ UNCHANGED <<algorithm, alive, conns, counter, drift, passed, home>>

Scanned(r) == call[r].pc = "scan" /\ call[r].cursor = Len(Backends)

\* Mutant of Scan: the last backend is taken for dead.
ScanAllButLast(r) ==
    /\ call[r].pc = "scan"
    /\ call[r].cursor < Len(Backends)
    /\ LET b == Backends[call[r].cursor + 1]
       IN  call' = [call EXCEPT ![r].cursor = @ + 1,
                                ![r].seen = IF alive[b] /\ b # Last(Backends)
                                            THEN Append(@, b) ELSE @]
    /\ UNCHANGED <<algorithm, alive, conns, counter, history>>

\* healthy: one IsAlive of its loop.
Scan(r) ==
    /\ call[r].pc = "scan"
    /\ call[r].cursor < Len(Backends)
    /\ LET b == Backends[call[r].cursor + 1]
       IN  call' = [call EXCEPT ![r].cursor = @ + 1,
                                ![r].seen = IF alive[b] THEN Append(@, b) ELSE @]
    /\ UNCHANGED <<algorithm, alive, conns, counter, history>>

\* The call is over for the history: nothing is recorded of an idle handler.
Forget(r) ==
    /\ through' = [through EXCEPT ![r] = {}]
    /\ fresh' = [fresh EXCEPT ![r] = TRUE]
    /\ drift' = [drift EXCEPT ![r] = 0]

\* ErrNoHealthyBackend.
NoHealthyBackend(r) ==
    /\ Scanned(r)
    /\ call[r].seen = <<>>
    /\ call' = [call EXCEPT ![r] = Idle]
    /\ Forget(r)
    /\ UNCHANGED <<algorithm, alive, conns, counter, passed, home>>

\* Next returns b. What was seen is kept for the properties.
Return(r, b) ==
    call' = [call EXCEPT ![r] = [@ EXCEPT !.pc = "picked", !.best = b, !.cursor = 0, !.load = 0]]

\* The turns of the others, while b has one. A pick from a list that is out of
\* date starts the count again.
TakeTurn(r, b) ==
    passed' = [c \in Backend |-> IF c = b \/ ~fresh[r] \/ ~alive[c] THEN 0 ELSE passed[c] + 1]

\* Mutant of PickRoundRobin: one Add for the test and one for the index.
PickEverySecond(r) ==
    /\ algorithm \notin {"least_conn", "ip_hash"}
    /\ Scanned(r)
    /\ call[r].seen # <<>>
    /\ counter' = (counter + 2) % Modulus
    /\ LET b == call[r].seen[(counter % Len(call[r].seen)) + 1]
       IN  Return(r, b) /\ TakeTurn(r, b)
    /\ UNCHANGED <<algorithm, alive, conns, through, fresh, drift, home>>

\* counter.Add(1) - 1, modulo the number of backends found alive.
PickRoundRobin(r) ==
    /\ algorithm \notin {"least_conn", "ip_hash"}
    /\ Scanned(r)
    /\ call[r].seen # <<>>
    /\ counter' = (counter + 1) % Modulus
    /\ LET b == call[r].seen[(counter % Len(call[r].seen)) + 1]
       IN  Return(r, b) /\ TakeTurn(r, b)
    /\ UNCHANGED <<algorithm, alive, conns, through, fresh, drift, home>>

\* Mutant of ClientIP: the headers are not looked at.
ClientIPOfPeer(c, p) == <<c, p>>

\* clientIP: the forwarded address, which has no port, or else RemoteAddr, which
\* has one.
ClientIP(c, p) == <<c, IF c \in Forwarded THEN 0 ELSE p>>

\* The place in the list is the client's hash modulo its length.
PickHash(r) ==
    /\ algorithm = "ip_hash"
    /\ Scanned(r)
    /\ call[r].seen # <<>>
    /\ LET h == Hash[ClientIP(call[r].client, call[r].port)]
           b == call[r].seen[(h % Len(call[r].seen)) + 1]
       IN  /\ Return(r, b)
           /\ home' = IF fresh[r] THEN [home EXCEPT ![call[r].client] = b] ELSE home
    /\ UNCHANGED <<algorithm, alive, conns, counter, through, fresh, drift, passed>>

\* best := alive[0]
BeginLeast(r) ==
    /\ algorithm = "least_conn"
    /\ Scanned(r)
    /\ call[r].seen # <<>>
    /\ call' = [call EXCEPT ![r].pc = "least", ![r].cursor = 1,
                            ![r].best = Head(call[r].seen)]
    /\ UNCHANGED <<algorithm, alive, conns, counter, history>>

\* b.Inflight() ...
LoadOther(r) ==
    /\ call[r].pc = "least"
    /\ call[r].cursor < Len(call[r].seen)
    /\ call' = [call EXCEPT ![r].pc = "compare",
                            ![r].load = conns[call[r].seen[call[r].cursor + 1]]]
    /\ UNCHANGED <<algorithm, alive, conns, counter, history>>

\* Mutant of Compare: the comparison is the wrong way round.
CompareMost(r) ==
    /\ call[r].pc = "compare"
    /\ call' = [call EXCEPT ![r].pc = "least", ![r].cursor = @ + 1, ![r].load = 0,
                   ![r].best = IF call[r].load > conns[@]
                               THEN call[r].seen[call[r].cursor + 1] ELSE @]
    /\ UNCHANGED <<algorithm, alive, conns, counter, history>>

\* ... < best.Inflight()
Compare(r) ==
    /\ call[r].pc = "compare"
    /\ call' = [call EXCEPT ![r].pc = "least", ![r].cursor = @ + 1, ![r].load = 0,
                   ![r].best = IF call[r].load < conns[@]
                               THEN call[r].seen[call[r].cursor + 1] ELSE @]
    /\ UNCHANGED <<algorithm, alive, conns, counter, history>>

PickLeast(r) ==
    /\ call[r].pc = "least"
    /\ call[r].cursor = Len(call[r].seen)
    /\ Return(r, call[r].best)
    /\ UNCHANGED <<algorithm, alive, conns, counter, history>>

-----------------------------------------------------------------------------
\* serveProxy, as far as it touches the connection counts

\* The circuit is open: 503, and nothing is counted.
CircuitOpen(r) ==
    /\ call[r].pc = "picked"
    /\ call' = [call EXCEPT ![r] = Idle]
    /\ Forget(r)
    /\ UNCHANGED <<algorithm, alive, conns, counter, passed, home>>

\* A counter has changed under the handlers that are choosing by it.
Drifted(S) ==
    [q \in Reqs |-> IF q \in S /\ drift[q] < MaxDrift THEN drift[q] + 1 ELSE drift[q]]

Choosing == {r \in Reqs : call[r].pc \in {"least", "compare", "picked"}}

CountsMatter(S) == IF algorithm = "least_conn" THEN S ELSE {}

\* Inc: only now do other calls see this request.
Inc(r) ==
    /\ call[r].pc = "picked"
    /\ conns' = [conns EXCEPT ![call[r].best] = @ + 1]
    /\ call' = [call EXCEPT ![r] = [Idle EXCEPT !.pc = "serving", !.best = call[r].best]]
    /\ through' = [through EXCEPT ![r] = {}]
    /\ fresh' = [fresh EXCEPT ![r] = TRUE]
    /\ drift' = [Drifted(CountsMatter(Choosing \ {r})) EXCEPT ![r] = 0]
    /\ UNCHANGED <<algorithm, alive, counter, passed, home>>

\* The deferred Dec.
Dec(r) ==
    /\ call[r].pc = "serving"
    /\ conns' = [conns EXCEPT ![call[r].best] = @ - 1]
    /\ call' = [call EXCEPT ![r] = Idle]
    /\ drift' = Drifted(CountsMatter(Choosing))
    /\ UNCHANGED <<algorithm, alive, counter, through, fresh, passed, home>>

\* A health check or a handler changes a flag.
Flip(b) ==
    /\ alive' = [alive EXCEPT ![b] = ~@]
    /\ through' = [r \in Reqs |-> IF alive[b] THEN through[r] \ {b} ELSE through[r]]
    /\ fresh' = [r \in Reqs |-> call[r].pc \in {"idle", "serving"}]
    /\ passed' = [c \in Backend |-> 0]
    /\ home' = [c \in Clients |-> None]
    /\ UNCHANGED <<algorithm, conns, counter, call, drift>>

Handle(r) ==
    \/ \E c \in Clients, p \in Ports : Begin(r, c, p)
    \/ Scan(r) \/ NoHealthyBackend(r) \/ PickRoundRobin(r) \/ PickHash(r)
    \/ BeginLeast(r) \/ LoadOther(r) \/ Compare(r) \/ PickLeast(r)
    \/ CircuitOpen(r) \/ Inc(r) \/ Dec(r)

Next == (\E r \in Reqs : Handle(r)) \/ (\E b \in Backend : Flip(b))

Spec == Init /\ [][Next]_vars

-----------------------------------------------------------------------------
\* loadbalancer.go line 14, "returned when every backend is unhealthy", as far as
\* it is true of flags that are loaded one by one: a call fails only if no
\* backend was alive from its beginning to its end (lines 249-257).
FailsOnlyIfNoneStayed ==
    [][\A r \in Reqs : NoHealthyBackend(r) => through[r] = {}]_vars

\* While no flag changes, round robin gives every live backend its turn, however
\* calls overlap; where the counter wraps, the remainder of its range counts as
\* turns of others (lines 89-90).
TurnTaking ==
    LET n == Cardinality({b \in Backend : alive[b]})
    IN  \A b \in Backend : alive[b] => passed[b] <= (n - 1) + (Modulus % n)

\* Least connections returns a backend that has at most as many more requests
\* than any other it found alive as counters have changed under it: stale loads
\* do not add up over the comparisons, and a quiet call finds a minimum
\* (lines 123-128, and Inc in serveProxy).
LeastUpToDrift ==
    algorithm = "least_conn" =>
        \A r \in Reqs : call[r].pc = "picked" =>
            \A i \in DOMAIN call[r].seen :
                conns[call[r].best] <= conns[call[r].seen[i]] + drift[r]

\* Next sends client c where it sent it before, unless a flag has changed since.
StaysHome(c) ==
    \A r \in Reqs : PickHash(r) /\ fresh[r] /\ call[r].client = c =>
        home[c] \in {None, home'[c]}

\* README line 23, "IP-hash sticky sessions", for clients behind a proxy that names
\* them: however often they connect anew (lines 228-230 and 288-296).
StickyForwarded == [][\A c \in Forwarded : StaysHome(c)]_vars

\* README line 23, "IP-hash sticky sessions", for every client. It does not hold:
\* without X-Forwarded-For the hash is of RemoteAddr, with its port (line 295).
StickyForAll == [][\A c \in Clients : StaysHome(c)]_vars
=============================================================================
