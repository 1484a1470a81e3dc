------------------------------- MODULE Gateway -------------------------------
(***************************************************************************)
(* Hot reload: the goroutine of main that applies new configurations with  *)
(* Gateway.Reload, the handler goroutines that dispatch requests in        *)
(* ServeHTTP meanwhile, and the health-checker goroutine that buildRoute   *)
(* starts for every route object.                                          *)
(*                                                                         *)
(* A prefix or path is a sequence of characters. Every backend is up all   *)
(* the time and a route has one of them, so that whatever clears an alive  *)
(* flag here is the gateway's own doing. What happens to a request on its  *)
(* route is modelled in Route.                                             *)
(***************************************************************************)
EXTENDS Integers, Sequences, SequencesExt, FiniteSets

CONSTANTS
    Reqs,        \* handler goroutines, each serving request after request
    Paths,       \* request paths
    Configs,     \* configurations, sequences of [prefix, limiterOk] records
    AuthEnabled, \* TRUE: buildRoute reads a key file, which may fail
    MaxLoads     \* bound on the number of configurations loaded

RouteConfig == [prefix : Seq(Nat), limiterOk : BOOLEAN]

ASSUME GatewayAssumption ==
    /\ Paths \subseteq Seq(Nat)
    /\ Configs \subseteq Seq(RouteConfig)
    /\ AuthEnabled \in BOOLEAN
    /\ MaxLoads \in Nat

VARIABLES
    heap,     \* every route object ever built, in the order of construction
    routes,   \* gw.routes: positions in heap
    reload,   \* the reload goroutine
    loaded,   \* history: the configurations handed over, the initial one first
    req       \* the handlers

vars == <<heap, routes, reload, loaded, req>>

\* generation: the position in loaded of the configuration that the route was
\* built for; checker: running, its context cancelled, or gone; probe: none, sent
\* or its verdict.
RouteType ==
    [prefix : Seq(Nat), generation : Nat, alive : BOOLEAN,
     checker : {"running", "cancelled", "gone"},
     probe : {"none", "sent", "up", "down"}]

\* old and next: what is left to stop and the routes that replace them.
ReloadType ==
    [pc : {"idle", "build", "stop"}, todo : Seq(RouteConfig),
     next : Seq(Nat), old : Seq(Nat)]

\* snapshot and cursor: the routes that ServeHTTP has read and how many of them its
\* loop has passed; route: matched, 0 for nil.
HandlerType ==
    [pc : {"idle", "match", "matched", "proxy"}, path : Paths \cup {<<>>},
     snapshot : Seq(Nat), cursor : Nat, route : Nat]

TypeOK ==
    /\ heap \in Seq(RouteType)
    /\ routes \in Seq(DOMAIN heap)
    /\ reload \in ReloadType
    /\ ToSet(reload.next) \cup ToSet(reload.old) \subseteq DOMAIN heap
    /\ loaded \in Seq(Configs)
    /\ req \in [Reqs -> HandlerType]
    /\ \A r \in Reqs : ToSet(req[r].snapshot) \subseteq DOMAIN heap
    /\ \A r \in Reqs : req[r].pc \in {"matched", "proxy"} => req[r].route \in DOMAIN heap

Quiet == [pc |-> "idle", todo |-> <<>>, next |-> <<>>, old |-> <<>>]
Waiting == [pc |-> "idle", path |-> <<>>, snapshot |-> <<>>, cursor |-> 0, route |-> 0]

\* health.New starts the goroutine, whose first act is a round of probes.
NewRoute(c, g) == [prefix |-> c.prefix, generation |-> g, alive |-> TRUE,
                   checker |-> "running", probe |-> "sent"]

\* NewGateway has built the initial configuration; had it failed, main would
\* have exited before serving anything.
Init ==
    \E c \in Configs :
        /\ \A i \in DOMAIN c : c[i].limiterOk
        /\ heap = [i \in DOMAIN c |-> NewRoute(c[i], 1)]
        /\ routes = [i \in DOMAIN c |-> i]
        /\ reload = Quiet
        /\ loaded = <<c>>
        /\ req = [r \in Reqs |-> Waiting]

-----------------------------------------------------------------------------
\* Reload

\* The loop over watcher.Updates in main: one configuration at a time.
BeginReload(c) ==
    /\ reload.pc = "idle"
    /\ Len(loaded) < MaxLoads
    /\ loaded' = Append(loaded, c)
    /\ reload' = [Quiet EXCEPT !.pc = "build", !.todo = c]
    /\ UNCHANGED <<heap, routes, req>>

Build(c) == NewRoute(c, Len(loaded))

\* Mutant of BuildRoute: the new route is put in service at once.
BuildRouteInPlace ==
    /\ reload.pc = "build"
    /\ reload.todo # <<>>
    /\ Head(reload.todo).limiterOk
    /\ heap' = Append(heap, Build(Head(reload.todo)))
    /\ routes' = Append(routes, Len(heap) + 1)
    /\ reload' = [reload EXCEPT !.todo = Tail(@), !.next = Append(@, Len(heap) + 1)]
    /\ UNCHANGED <<loaded, req>>

\* buildRoute succeeds for the next entry of the configuration.
BuildRoute ==
    /\ reload.pc = "build"
    /\ reload.todo # <<>>
    /\ Head(reload.todo).limiterOk
    /\ heap' = Append(heap, Build(Head(reload.todo)))
    /\ reload' = [reload EXCEPT !.todo = Tail(@), !.next = Append(@, Len(heap) + 1)]
    /\ UNCHANGED <<routes, loaded, req>>

\* ratelimiter.New fails: Reload returns the error and keeps the old routes. The
\* checkers of the entries before this one keep running.
LimiterFails ==
    /\ reload.pc = "build"
    /\ reload.todo # <<>>
    /\ ~Head(reload.todo).limiterOk
    /\ reload' = Quiet
    /\ UNCHANGED <<heap, routes, loaded, req>>

\* NewAuthMiddleware fails, after this route's checker has been started.
AuthFails ==
    /\ AuthEnabled
    /\ reload.pc = "build"
    /\ reload.todo # <<>>
    /\ Head(reload.todo).limiterOk
    /\ heap' = Append(heap, Build(Head(reload.todo)))
    /\ reload' = Quiet
    /\ UNCHANGED <<routes, loaded, req>>

\* The swap under gw.mu.
Swap ==
    /\ reload.pc = "build"
    /\ reload.todo = <<>>
    /\ routes' = reload.next
    /\ reload' = [reload EXCEPT !.pc = "stop", !.old = routes]
    /\ UNCHANGED <<heap, loaded, req>>

NewPrefixes == {heap[id].prefix : id \in ToSet(reload.next)}

Cancelled(route) == [route EXCEPT !.checker = IF @ = "gone" THEN @ ELSE "cancelled"]

\* Mutant of StopOld: the checkers of the new routes are looked up by prefix.
StopOldByPrefix ==
    /\ reload.pc = "stop"
    /\ reload.old # <<>>
    /\ heap' = [id \in DOMAIN heap |->
                  IF heap[id].prefix = heap[Head(reload.old)].prefix
                  THEN Cancelled(heap[id]) ELSE heap[id]]
    /\ reload' = [reload EXCEPT !.old = Tail(@)]
    /\ UNCHANGED <<routes, loaded, req>>

\* The loop over the old routes: stop the checker if the prefix is gone.
StopOld ==
    /\ reload.pc = "stop"
    /\ reload.old # <<>>
    /\ LET id == Head(reload.old)
       IN  heap' = IF heap[id].prefix \in NewPrefixes THEN heap
                   ELSE [heap EXCEPT ![id] = Cancelled(@)]
    /\ reload' = [reload EXCEPT !.old = Tail(@)]
    /\ UNCHANGED <<routes, loaded, req>>

EndReload ==
    /\ reload.pc = "stop"
    /\ reload.old = <<>>
    /\ reload' = Quiet
    /\ UNCHANGED <<heap, routes, loaded, req>>

Reload ==
    \/ BuildRoute \/ LimiterFails \/ AuthFails \/ Swap \/ StopOld \/ EndReload

-----------------------------------------------------------------------------
\* ServeHTTP

\* The snapshot under gw.mu.
Snapshot(r, path) ==
    /\ req[r].pc = "idle"
    /\ req' = [req EXCEPT ![r] =
                 [pc |-> "match", path |-> path, snapshot |-> routes, cursor |-> 0, route |-> 0]]
    /\ UNCHANGED <<heap, routes, reload, loaded>>

\* Mutant of Better: the first prefix that matches wins.
BetterFirst(id, matched) == matched = 0

\* Prefers route id to the one matched so far.
Better(id, matched) == matched = 0 \/ Len(heap[id].prefix) > Len(heap[matched].prefix)

\* The loop over the routes that were read, which may have been replaced by now.
Consider(r) ==
    /\ req[r].pc = "match"
    /\ req[r].cursor < Len(req[r].snapshot)
    /\ LET id == req[r].snapshot[req[r].cursor + 1]
       IN  req' = [req EXCEPT ![r].cursor = @ + 1,
                              ![r].route = IF /\ IsPrefix(heap[id].prefix, req[r].path)
                                              /\ Better(id, @)
                                           THEN id ELSE @]
    /\ UNCHANGED <<heap, routes, reload, loaded>>

\* 404.
NoRoute(r) ==
    /\ req[r].pc = "match"
    /\ req[r].cursor = Len(req[r].snapshot)
    /\ req[r].route = 0
    /\ req' = [req EXCEPT ![r] = Waiting]
    /\ UNCHANGED <<heap, routes, reload, loaded>>

\* The handler of the route takes over.
Dispatch(r) ==
    /\ req[r].pc = "match"
    /\ req[r].cursor = Len(req[r].snapshot)
    /\ req[r].route # 0
    /\ req' = [req EXCEPT ![r].pc = "matched", ![r].snapshot = <<>>, ![r].cursor = 0]
    /\ UNCHANGED <<heap, routes, reload, loaded>>

\* lb.Next finds no healthy backend: 503.
Reject(r) ==
    /\ req[r].pc = "matched"
    /\ ~heap[req[r].route].alive
    /\ req' = [req EXCEPT ![r] = Waiting]
    /\ UNCHANGED <<heap, routes, reload, loaded>>

Forward(r) ==
    /\ req[r].pc = "matched"
    /\ heap[req[r].route].alive
    /\ req' = [req EXCEPT ![r].pc = "proxy"]
    /\ UNCHANGED <<heap, routes, reload, loaded>>

\* ModifyResponse: the backend has answered.
Complete(r) ==
    /\ req[r].pc = "proxy"
    /\ heap' = [heap EXCEPT ![req[r].route].alive = TRUE]
    /\ req' = [req EXCEPT ![r] = Waiting]
    /\ UNCHANGED <<routes, reload, loaded>>

Handle(r) ==
    \/ \E p \in Paths : Snapshot(r, p)
    \/ Consider(r) \/ NoRoute(r) \/ Dispatch(r)
    \/ Reject(r) \/ Forward(r) \/ Complete(r)

-----------------------------------------------------------------------------
\* Checker.run, one goroutine per route object

\* checkAll. When the context has been cancelled and the ticker has fired too,
\* select takes either case; client.Do then fails at once.
BeginProbe(id) ==
    /\ heap[id].checker # "gone"
    /\ heap[id].probe = "none"
    /\ heap' = [heap EXCEPT ![id].probe =
                   IF heap[id].checker = "running" THEN "sent" ELSE "down"]
    /\ UNCHANGED <<routes, reload, loaded, req>>

\* client.Do returns: the backend's answer, or the error of a context that has been
\* cancelled meanwhile, unless the answer was there first.
ProbeAnswer(id) ==
    /\ heap[id].probe = "sent"
    /\ \E v \in IF heap[id].checker = "running" THEN {"up"} ELSE {"up", "down"} :
          heap' = [heap EXCEPT ![id].probe = v]
    /\ UNCHANGED <<routes, reload, loaded, req>>

ProbeApply(id) ==
    /\ heap[id].probe \in {"up", "down"}
    /\ heap' = [heap EXCEPT ![id].alive = (heap[id].probe = "up"), ![id].probe = "none"]
    /\ UNCHANGED <<routes, reload, loaded, req>>

\* ctx.Done.
Exit(id) ==
    /\ heap[id].checker = "cancelled"
    /\ heap[id].probe = "none"
    /\ heap' = [heap EXCEPT ![id].checker = "gone"]
    /\ UNCHANGED <<routes, reload, loaded, req>>

Check(id) == BeginProbe(id) \/ ProbeAnswer(id) \/ ProbeApply(id) \/ Exit(id)

Next ==
    \/ \E c \in Configs : BeginReload(c)
    \/ Reload
    \/ \E r \in Reqs : Handle(r)
    \/ \E id \in DOMAIN heap : Check(id)

Spec == Init /\ [][Next]_vars

-----------------------------------------------------------------------------
\* Every route in service has a running checker and a live backend, whatever
\* loaded and the cancelled checkers of replaced routes do (Reload, lines 64-86:
\* it swaps before it stops, and stops objects of the old slice only). Requests
\* that arrive during or after a reload are therefore not turned away by it.
ServedRoutesHealthy ==
    \A id \in ToSet(routes) : heap[id].checker = "running" /\ heap[id].alive

\* Among the routes of the configuration the request has seen, it is on the one
\* with the longest matching prefix, the first of these if there are several,
\* even while another configuration is being put in place (lines 89-102).
RoutedToLongest ==
    \A r \in Reqs : req[r].pc \in {"matched", "proxy"} =>
        LET mine == req[r].route
            rivals == {id \in DOMAIN heap : /\ heap[id].generation = heap[mine].generation
                                            /\ IsPrefix(heap[id].prefix, req[r].path)}
        IN  /\ mine \in rivals
            /\ \A id \in rivals \ {mine} :
                  \/ Len(heap[id].prefix) < Len(heap[mine].prefix)
                  \/ Len(heap[id].prefix) = Len(heap[mine].prefix) /\ mine < id

\* What is served is one whole configuration, entry by entry, at every moment of
\* a reload: never a mixture of two, and never a part of one that failed halfway
\* (buildRoutes, lines 174-184, and the swap, lines 70-73).
ServesOneConfig ==
    routes # <<>> =>
        LET g == heap[routes[1]].generation
        IN  /\ Len(routes) = Len(loaded[g])
            /\ \A i \in DOMAIN routes :
                  /\ heap[routes[i]].generation = g
                  /\ heap[routes[i]].prefix = loaded[g][i].prefix

\* gateway.go line 75, "Stop health-checkers for routes that were removed": once
\* a reload is over, nothing probes the backends of a prefix that is not served.
RemovedRoutesNotProbed ==
    reload.pc = "idle" =>
        \A id \in DOMAIN heap :
            heap[id].checker = "running" =>
                \E s \in ToSet(routes) : heap[s].prefix = heap[id].prefix

\* gateway.go line 62, "swaps in a new set of routes without downtime": no
\* request that has been dispatched finds the backend of its route dead. It does
\* not hold: Stop cancels the probe under way and checkOne takes the context's
\* error for the backend's (health.go lines 106-112).
NoDowntime == \A r \in Reqs : req[r].pc = "matched" => heap[req[r].route].alive
=============================================================================
