------------------------------ MODULE MainProofs ------------------------------
(***************************************************************************)
(* Proofs about what main sets going: the graceful shutdown of Process,    *)
(* which drains as long as its deadline allows, for any clients, deadline  *)
(* and timeouts of the admin server up to it; and the hot reload of        *)
(* Gateway, for any configurations, any number of reloads and of handlers  *)
(* that serve requests meanwhile.                                          *)
(***************************************************************************)
EXTENDS Gateway, Process, SequenceTheorems, TLAPS

-----------------------------------------------------------------------------
\* The graceful shutdown

\* How much of the deadline has passed.
Elapsed == Grace - left

Typed ==
    /\ main \in Phases
    /\ left \in 0..Grace
    /\ draining \in Nat
    /\ \A a \in DOMAIN admin : admin[a] \in Nat

\* While the admin server drains, the requests that it still serves were accepted
\* before the signal, and have what their timeouts leave.
AdminInv ==
    /\ main = "serving" => Elapsed = 0
    /\ ProxyListens =>
          /\ Elapsed <= AdminTimeout
          /\ \A a \in DOMAIN admin : admin[a] + Elapsed <= AdminTimeout

\* From then on, the proxy server has had all time but that of the admin server,
\* and main goes on only when it is done or the time is over.
DrainInv ==
    /\ main \in {"proxy", "close", "return"} => draining + AdminTimeout >= Elapsed
    /\ main \in {"close", "return"} => active = {} \/ left = 0
    /\ Running => cut = {}

ProcessInv == Typed /\ AdminInv /\ DrainInv /\ DrainedOrExpired

LEMMA InitProcessInv == ProcessInit => ProcessInv
BY ProcessAssumption
DEF ProcessInit, ProcessInv, Typed, Phases, AdminInv, DrainInv, DrainedOrExpired, Elapsed, ProxyListens, Running

LEMMA StepProcessInv == ProcessInv /\ [ProcessNext]_allVars => ProcessInv'
<1> SUFFICES ASSUME ProcessInv, [ProcessNext]_allVars PROVE ProcessInv'
  OBVIOUS
<1> USE ProcessAssumption
    DEF ProcessInv, Typed, Phases, AdminInv, DrainInv, DrainedOrExpired, Elapsed, ProxyListens, Running
<1>1. ASSUME UNCHANGED processVars PROVE ProcessInv'
  BY <1>1 DEF processVars
<1>2. ASSUME NEW r \in ProxyReqs, Accept(r) \/ Finish(r) PROVE ProcessInv'
  BY <1>2 DEF Accept, Finish
<1>3. ASSUME NEW a \in AdminReqs, AdminAccept(a) PROVE ProcessInv'
  <2>1. \A b \in DOMAIN admin' : admin'[b] = AdminTimeout \/ (b \in DOMAIN admin /\ admin'[b] = admin[b])
    BY <1>3 DEF AdminAccept
  <2> QED BY <1>3, <2>1 DEF AdminAccept, AdminListens
<1>4. ASSUME NEW a \in AdminReqs, AdminFinish(a) PROVE ProcessInv'
  <2>1. \A b \in DOMAIN admin' : b \in DOMAIN admin /\ admin'[b] = admin[b]
    BY <1>4 DEF AdminFinish
  <2> QED BY <1>4, <2>1 DEF AdminFinish
<1>5. CASE ServerFails
  BY <1>5 DEF ServerFails
<1>6. CASE Signal
  BY <1>6 DEF Signal
<1>7. CASE AdminDown
  BY <1>7 DEF AdminDown
<1>8. CASE ProxyDown
  BY <1>8 DEF ProxyDown
<1>9. CASE Close
  BY <1>9 DEF Close
<1>10. CASE MainReturns
  BY <1>10 DEF MainReturns
<1>11. CASE Tick
  <2>1. \A a \in DOMAIN admin' :
            a \in DOMAIN admin /\ admin[a] > 0 /\ admin'[a] = admin[a] - 1
    BY <1>11 DEF Tick
  <2>2. main' = main /\ active' = active /\ failed' = failed /\ cut' = cut /\ left > 0
    BY <1>11 DEF Tick
  <2>3. CASE main = "serving"
    <3>1. left' = left /\ draining' = 0
      BY <1>11, <2>3 DEF Tick
    <3> QED BY <2>1, <2>2, <2>3, <3>1
  <2>4. CASE main = "admin"
    <3>1. left' = left - 1 /\ draining' = 0
      BY <1>11, <2>4 DEF Tick
    <3>2. PICK a \in DOMAIN admin : admin[a] > 0
      BY <1>11, <2>4 DEF Tick
    <3> QED BY <2>1, <2>2, <2>4, <3>1, <3>2
  <2>5. CASE main \notin {"serving", "admin"}
    <3>1. left' = left - 1 /\ draining' = draining + 1
      BY <1>11, <2>5 DEF Tick
    <3> QED BY <1>11, <2>1, <2>2, <2>5, <3>1 DEF Tick
  <2> QED BY <2>3, <2>4, <2>5
<1> QED
  BY <1>1, <1>2, <1>3, <1>4, <1>5, <1>6, <1>7, <1>8, <1>9, <1>10, <1>11
  DEF ProcessNext, Shutdown, Watching, allVars, processVars

\* Short of a server's failure, no request is cut off before the deadline, nor
\* without the time that the admin server leaves after the last one was accepted.
THEOREM DrainTheorem == ProcessSpec => []DrainedOrExpired
<1>1. ProcessInv => DrainedOrExpired
  BY DEF ProcessInv
<1> QED BY <1>1, InitProcessInv, StepProcessInv, PTL DEF ProcessSpec

-----------------------------------------------------------------------------
\* The way of a configuration from the file into force

\* What the file holds can be loaded and applied.
Loadable == disk \notin Refused \cup {Broken}

NothingPending == events = 0 /\ ~debounce /\ updates = <<>> /\ reloading = None

\* What AppliedUnlessDropped rests on: whenever nothing is on its way any more, the
\* watched file's configuration is in force, unless the last load was dropped because
\* an older one was still in the channel (LoadAndWatch, lines 160-193; main.go lines
\* 72-80). No save is lost for another reason.
AppliedWhenSettled ==
    main = "serving" /\ watched /\ ~dropped /\ Loadable /\ NothingPending => applied = disk

\* Where the file's configuration is: an event or the timer will have the file read,
\* or it is the last one that was read, behind at most one older one that main applies.
OnItsWay ==
    \/ events > 0
    \/ debounce
    \/ updates = <<disk>>
    \/ updates = <<>> /\ reloading = disk
    \/ updates = <<>> /\ reloading = None /\ applied = disk

WatcherInv ==
    /\ saves \in Nat
    /\ events \in Nat
    /\ disk \in Nat \cup {Broken}
    /\ updates = <<>> \/ \E c \in Nat : updates = <<c>>
    /\ main = "serving" => ~done
    /\ main = "serving" /\ watched /\ ~dropped /\ Loadable => OnItsWay

LEMMA InitWatcherInv == ProcessInit => WatcherInv
BY DEF ProcessInit, WatcherInit, WatcherInv, OnItsWay

LEMMA StepWatch == WatcherInv /\ Watch /\ UNCHANGED main => WatcherInv'
<1> SUFFICES ASSUME WatcherInv, Watch, UNCHANGED main PROVE WatcherInv'
  OBVIOUS
<1> USE DEF WatcherInv, OnItsWay, Loadable, Broken, None, Capacity
<1>1. CASE Save
  BY <1>1 DEF Save
<1>2. CASE Replace
  BY <1>2 DEF Replace
<1>3. CASE Notice
  BY <1>3 DEF Notice
<1>4. CASE Fire
  <2>1. CASE updates = <<>>
    <3>1. updates' = IF disk # Broken THEN <<disk>> ELSE <<>>
      BY <1>4, <2>1 DEF Fire
    <3> QED BY <1>4, <3>1 DEF Fire
  <2>2. ASSUME NEW c \in Nat, updates = <<c>> PROVE WatcherInv'
    <3>1. Len(updates) = 1 /\ Head(updates) = c
      BY <2>2
    <3>2. updates' = updates
      BY <1>4, <3>1 DEF Fire
    <3>3. ~dropped' /\ Loadable => c = disk
      BY <1>4, <3>1 DEF Fire
    <3>4. UNCHANGED <<saves, disk, watched, events, done, reloading, applied>>
      BY <1>4 DEF Fire
    <3> QED BY <2>2, <3>2, <3>3, <3>4
  <2> QED BY <2>1, <2>2
<1>5. CASE Return
  BY <1>5 DEF Return
<1>6. CASE Receive
  <2>1. PICK c \in Nat : updates = <<c>>
    BY <1>6 DEF Receive
  <2>2. reloading' = c /\ updates' = <<>>
    BY <1>6, <2>1 DEF Receive
  <2>3. updates = <<disk>> => c = disk
    BY <2>1
  <2>4. ~ (updates = <<>>)
    BY <2>1
  <2> QED BY <1>6, <2>2, <2>3, <2>4 DEF Receive
<1>7. CASE Apply
  BY <1>7 DEF Apply
<1> QED BY <1>1, <1>2, <1>3, <1>4, <1>5, <1>6, <1>7 DEF Watch

LEMMA StepWatcherInv == WatcherInv /\ [ProcessNext]_allVars => WatcherInv'
<1> SUFFICES ASSUME WatcherInv, [ProcessNext]_allVars PROVE WatcherInv'
  OBVIOUS
<1> USE DEF WatcherInv, OnItsWay, Loadable
<1>1. CASE Watching
  BY <1>1, StepWatch DEF Watching, processVars
<1>2. CASE Close
  BY <1>2 DEF Close, CloseWatcher
<1>3. CASE UNCHANGED watcherVars /\ (main' = main \/ main' # "serving")
  BY <1>3 DEF watcherVars
<1>4. CASE ~Watching /\ ~Close
  <2>1. UNCHANGED watcherVars /\ (main' = main \/ main' # "serving")
    BY <1>4 DEF ProcessNext, Shutdown, Accept, Finish, AdminAccept, AdminFinish,
       ServerFails, Signal, AdminDown, ProxyDown, MainReturns, Tick, allVars, processVars
  <2> QED BY <1>3, <2>1
<1> QED BY <1>1, <1>2, <1>4

\* Saves are coalesced, delayed and overtaken by each other, but a good one that is
\* still in the watched file when everything has settled is the one in force, unless
\* its load was dropped.
THEOREM SettledTheorem == ProcessSpec => []AppliedWhenSettled
<1>1. WatcherInv => AppliedWhenSettled
  <2>1. Len(<<disk>>) = 1 /\ Len(<<>>) = 0
    OBVIOUS
  <2> QED
    BY <2>1 DEF WatcherInv, OnItsWay, AppliedWhenSettled, NothingPending, Broken, None
<1> QED BY <1>1, InitWatcherInv, StepWatcherInv, PTL DEF ProcessSpec

-----------------------------------------------------------------------------
\* Hot reload: the inductive invariant

\* S lists the objects that were built for the configuration g, of the objects h and
\* the configurations l, in order.
Lists(S, g, h, l) ==
    /\ S \in Seq(1..Len(h))
    /\ \A i, j \in 1..Len(S) : i < j => S[i] < S[j]
    /\ \A i \in 1..Len(S) : h[S[i]].generation = g /\ h[S[i]].prefix = l[g][i].prefix
    /\ \A id \in 1..Len(h) : h[id].generation = g => \E i \in 1..Len(S) : S[i] = id

\* The configuration g has been built or has failed: it gets no more objects.
Sealed(g, l, pc) == g < Len(l) \/ pc # "build"

\* S is a whole configuration.
Whole(S, h, l, pc) ==
    \E g \in 1..Len(l) : Lists(S, g, h, l) /\ Len(S) = Len(l[g]) /\ Sealed(g, l, pc)

\* Of equal matches the first one wins, otherwise the longer one.
Ahead(i, j, h) ==
    \/ Len(h[j].prefix) < Len(h[i].prefix)
    \/ Len(h[j].prefix) = Len(h[i].prefix) /\ i < j

\* Of the routes that the loop of handler q has passed, it holds the one with the
\* longest prefix that matches.
Best(q, h) ==
    /\ q.cursor \in 0..Len(q.snapshot)
    /\ q.route = 0 =>
          \A i \in 1..q.cursor : ~IsPrefix(h[q.snapshot[i]].prefix, q.path)
    /\ q.route # 0 =>
          /\ \E i \in 1..q.cursor : q.snapshot[i] = q.route
          /\ IsPrefix(h[q.route].prefix, q.path)
          /\ \A i \in 1..q.cursor :
                q.snapshot[i] # q.route /\ IsPrefix(h[q.snapshot[i]].prefix, q.path)
                    => Ahead(q.route, q.snapshot[i], h)

\* Of all routes of its configuration, q is on the one with the longest such prefix.
Longest(q, h) ==
    /\ IsPrefix(h[q.route].prefix, q.path)
    /\ \A id \in 1..Len(h) :
          /\ id # q.route
          /\ h[id].generation = h[q.route].generation
          /\ IsPrefix(h[id].prefix, q.path)
          => Ahead(q.route, id, h)

\* What holds of a handler q.
HandlerOK(q, h, l, pc) ==
    /\ q.snapshot \in Seq(1..Len(h))
    /\ q.pc = "match" => Whole(q.snapshot, h, l, pc) /\ Best(q, h)
    /\ q.pc \in {"matched", "proxy"} =>
          q.route \in 1..Len(h) /\ Longest(q, h) /\ Sealed(h[q.route].generation, l, pc)

\* What holds of a route object x: it belongs to a configuration, and a running
\* checker has seen its backend up.
ObjectOK(x, l) ==
    /\ x.generation \in 1..Len(l)
    /\ x.checker = "running" => x.alive = TRUE /\ x.probe # "down"

GatewayTyped ==
    /\ heap \in Seq(RouteType)
    /\ loaded \in Seq(Configs)
    /\ routes \in Seq(1..Len(heap))
    /\ reload \in ReloadType
    /\ reload.next \in Seq(1..Len(heap))
    /\ reload.old \in Seq(1..Len(heap))
    /\ req \in [Reqs -> HandlerType]

ObjectsInv == \A id \in 1..Len(heap) : ObjectOK(heap[id], loaded)

HandlersInv == \A r \in Reqs : HandlerOK(req[r], heap, loaded, reload.pc)

\* What is served is whole and its checkers have not been stopped.
ServedInv ==
    /\ Whole(routes, heap, loaded, reload.pc)
    /\ \A i \in 1..Len(routes) : heap[routes[i]].checker = "running"

\* While a configuration is built, next and todo make it up.
BuildInv ==
    reload.pc = "build" =>
        /\ Len(loaded) # 0
        /\ Lists(reload.next, Len(loaded), heap, loaded)
        /\ \A i \in 1..Len(reload.next) : heap[reload.next[i]].checker = "running"
        /\ Len(reload.next) + Len(reload.todo) = Len(loaded[Len(loaded)])
        /\ \A i \in 1..Len(reload.todo) :
              reload.todo[i] = loaded[Len(loaded)][Len(reload.next) + i]

\* What is being stopped is older than what is served.
StopInv ==
    reload.pc = "stop" =>
        /\ \A i \in 1..Len(routes) : heap[routes[i]].generation = Len(loaded)
        /\ \A i \in 1..Len(reload.old) : heap[reload.old[i]].generation < Len(loaded)

GatewayInv ==
    /\ GatewayTyped
    /\ ObjectsInv
    /\ HandlersInv
    /\ ServedInv
    /\ BuildInv
    /\ StopInv

-----------------------------------------------------------------------------
\* What every step keeps

\* From the objects h and configurations l to h2 and l2, objects keep their prefix
\* and configuration, and new ones belong to the configuration that is being built.
Grows(h, l, pc, h2, l2, pc2) ==
    /\ Len(h) \in Nat /\ Len(h2) \in Nat /\ Len(h) <= Len(h2)
    /\ \A id \in 1..Len(h) :
          h2[id].prefix = h[id].prefix /\ h2[id].generation = h[id].generation
    /\ \A id \in 1..Len(h2) :
          id \in 1..Len(h) \/ (h2[id].generation = Len(l) /\ pc = "build")
    /\ Len(l) \in Nat /\ Len(l2) \in Nat /\ Len(l) <= Len(l2)
    /\ \A g \in 1..Len(l) : l2[g] = l[g]
    /\ pc2 = "build" => pc = "build" \/ Len(l) < Len(l2)

\* A list of objects stays one.
LEMMA ListKept ==
    ASSUME NEW m \in Nat, NEW n \in Nat, m <= n, NEW S \in Seq(1..m)
    PROVE  /\ S \in Seq(1..n) /\ Len(S) \in Nat /\ DOMAIN S = 1..Len(S)
           /\ \A i \in 1..Len(S) : S[i] \in 1..m
<1>1. Len(S) \in Nat /\ DOMAIN S = 1..Len(S) /\ \A i \in 1..Len(S) : S[i] \in 1..m
  OBVIOUS
<1>2. \A i \in 1..m : i \in 1..n
  OBVIOUS
<1>3. \A i \in 1..Len(S) : S[i] \in 1..n
  BY <1>1, <1>2
<1>4. S = [i \in 1..Len(S) |-> S[i]]
  BY <1>1
<1>5. S \in [1..Len(S) -> 1..n]
  BY <1>3, <1>4
<1> QED BY <1>1, <1>5, SeqDef

LEMMA SealedKept ==
    ASSUME NEW h, NEW l, NEW pc, NEW h2, NEW l2, NEW pc2, Grows(h, l, pc, h2, l2, pc2),
           NEW g \in 1..Len(l), Sealed(g, l, pc)
    PROVE  Sealed(g, l2, pc2)
BY DEF Sealed, Grows

LEMMA WholeKept ==
    ASSUME NEW h, NEW l, NEW pc, NEW h2, NEW l2, NEW pc2, Grows(h, l, pc, h2, l2, pc2),
           NEW S, Whole(S, h, l, pc)
    PROVE  Whole(S, h2, l2, pc2)
<1>1. PICK g \in 1..Len(l) : Lists(S, g, h, l) /\ Len(S) = Len(l[g]) /\ Sealed(g, l, pc)
  BY DEF Whole
<1>2. g \in 1..Len(l2) /\ l2[g] = l[g] /\ Sealed(g, l2, pc2)
  BY <1>1, SealedKept DEF Grows
<1>3. /\ S \in Seq(1..Len(h)) /\ Len(h) \in Nat /\ Len(h2) \in Nat /\ Len(h) <= Len(h2)
  BY <1>1 DEF Lists, Grows
<1>4. S \in Seq(1..Len(h2)) /\ \A i \in 1..Len(S) : S[i] \in 1..Len(h)
  BY <1>3, ListKept
<1>5. \A i \in 1..Len(S) : h2[S[i]].generation = g /\ h2[S[i]].prefix = l2[g][i].prefix
  BY <1>1, <1>2, <1>4 DEF Lists, Grows
<1>6. ASSUME NEW id \in 1..Len(h2), h2[id].generation = g
      PROVE  \E i \in 1..Len(S) : S[i] = id
  <2>1. id \in 1..Len(h)
    BY <1>1, <1>6 DEF Sealed, Grows
  <2>2. h[id].generation = g
    BY <1>6, <2>1 DEF Grows
  <2> QED BY <1>1, <2>1, <2>2 DEF Lists
<1>7. Lists(S, g, h2, l2)
  BY <1>1, <1>4, <1>5, <1>6 DEF Lists
<1> QED BY <1>1, <1>2, <1>7 DEF Whole

LEMMA HandlerKept ==
    ASSUME NEW h, NEW l, NEW pc, NEW h2, NEW l2, NEW pc2, Grows(h, l, pc, h2, l2, pc2),
           NEW q, HandlerOK(q, h, l, pc), \A id \in 1..Len(h) : h[id].generation \in 1..Len(l)
    PROVE  HandlerOK(q, h2, l2, pc2)
<1>1. /\ q.snapshot \in Seq(1..Len(h)) /\ Len(h) \in Nat /\ Len(h2) \in Nat /\ Len(h) <= Len(h2)
      /\ \A id \in 1..Len(h) : id \in 1..Len(h2) /\ h2[id].prefix = h[id].prefix
                               /\ h2[id].generation = h[id].generation
  BY DEF HandlerOK, Grows
<1>2. /\ q.snapshot \in Seq(1..Len(h2)) /\ Len(q.snapshot) \in Nat
      /\ \A i \in 1..Len(q.snapshot) : q.snapshot[i] \in 1..Len(h)
  BY <1>1, ListKept
<1>3. ASSUME q.pc = "match" PROVE Whole(q.snapshot, h2, l2, pc2) /\ Best(q, h2)
  <2>1. Whole(q.snapshot, h2, l2, pc2) /\ Best(q, h)
    BY <1>3, WholeKept DEF HandlerOK
  <2>2. \A i \in 1..q.cursor : q.snapshot[i] \in 1..Len(h)
    BY <1>2, <2>1 DEF Best
  <2>3. q.route # 0 => q.route \in 1..Len(h)
    BY <2>1, <2>2 DEF Best
  <2>4. Best(q, h2)
    BY <1>1, <2>1, <2>2, <2>3 DEF Best, Ahead
  <2> QED BY <2>1, <2>4
<1>4. ASSUME q.pc \in {"matched", "proxy"}
      PROVE  q.route \in 1..Len(h2) /\ Longest(q, h2) /\ Sealed(h2[q.route].generation, l2, pc2)
  <2> DEFINE g == h[q.route].generation
  <2>1. q.route \in 1..Len(h) /\ Longest(q, h) /\ Sealed(g, l, pc) /\ g \in 1..Len(l)
    BY <1>4 DEF HandlerOK
  <2>2. Sealed(h2[q.route].generation, l2, pc2)
    BY <1>1, <2>1, SealedKept
  <2>3. ASSUME NEW id \in 1..Len(h2), h2[id].generation = g PROVE id \in 1..Len(h)
    BY <2>1, <2>3 DEF Sealed, Grows
  <2>4. Longest(q, h2)
    BY <1>1, <2>1, <2>3 DEF Longest, Ahead
  <2> QED BY <1>1, <2>1, <2>2, <2>4
<1> QED BY <1>2, <1>3, <1>4 DEF HandlerOK

-----------------------------------------------------------------------------
\* Steps of handlers

\* The types of what the lemmas below read.
LEMMA GatewayFacts ==
    ASSUME GatewayTyped
    PROVE  /\ Len(heap) \in Nat /\ Len(loaded) \in Nat
           /\ DOMAIN heap = 1..Len(heap)
           /\ \A id \in 1..Len(heap) : heap[id] \in RouteType
           /\ \A g \in 1..Len(loaded) : loaded[g] \in Seq(RouteConfig)
           /\ Len(routes) \in Nat /\ \A i \in 1..Len(routes) : routes[i] \in 1..Len(heap)
<1>1. Len(heap) \in Nat /\ DOMAIN heap = 1..Len(heap)
      /\ \A id \in 1..Len(heap) : heap[id] \in RouteType
  BY DEF GatewayTyped
<1>2. Len(loaded) \in Nat /\ \A g \in 1..Len(loaded) : loaded[g] \in Configs
  BY DEF GatewayTyped
<1>3. Len(routes) \in Nat /\ \A i \in 1..Len(routes) : routes[i] \in 1..Len(heap)
  BY DEF GatewayTyped
<1> QED BY <1>1, <1>2, <1>3, GatewayAssumption

\* A step of handler r that changes nothing else.
LEMMA HandlerStep ==
    ASSUME GatewayInv, NEW r \in Reqs, NEW q \in HandlerType,
           req' = [req EXCEPT ![r] = q],
           UNCHANGED <<heap, routes, reload, loaded>>,
           HandlerOK(q, heap, loaded, reload.pc)
    PROVE  GatewayInv'
<1>1. req' \in [Reqs -> HandlerType] /\ \A s \in Reqs : req'[s] = IF s = r THEN q ELSE req[s]
  BY DEF GatewayInv, GatewayTyped
<1>2. GatewayTyped'
  BY <1>1 DEF GatewayInv, GatewayTyped
<1>3. HandlersInv'
  BY <1>1 DEF GatewayInv, HandlersInv
<1>4. ObjectsInv' /\ ServedInv' /\ BuildInv' /\ StopInv'
  BY DEF GatewayInv, ObjectsInv, ServedInv, BuildInv, StopInv
<1> QED BY <1>2, <1>3, <1>4 DEF GatewayInv

LEMMA WaitingOK ==
    /\ Waiting \in HandlerType
    /\ Waiting.pc = "idle"
    /\ \A h, l, pc : HandlerOK(Waiting, h, l, pc)
<1>1. Waiting.pc = "idle" /\ Waiting.snapshot = <<>>
  BY DEF Waiting
<1>2. Waiting \in HandlerType
  BY DEF Waiting, HandlerType
<1>3. \A h : <<>> \in Seq(1..Len(h))
  OBVIOUS
<1> QED BY <1>1, <1>2, <1>3 DEF HandlerOK

LEMMA SnapshotStep ==
    ASSUME GatewayInv, NEW r \in Reqs, NEW p \in Paths, Snapshot(r, p)
    PROVE  GatewayInv'
<1> DEFINE q == [pc |-> "match", path |-> p, snapshot |-> routes, cursor |-> 0, route |-> 0]
<1>1. req' = [req EXCEPT ![r] = q] /\ UNCHANGED <<heap, routes, reload, loaded>>
  BY DEF Snapshot
<1>2. p \in Paths \cup {<<>>}
  OBVIOUS
<1>3. routes \in Seq(1..Len(heap)) /\ routes \in Seq(Nat) /\ Len(routes) \in Nat
  <2>1. routes \in Seq(1..Len(heap)) /\ Len(routes) \in Nat
        /\ \A i \in 1..Len(routes) : routes[i] \in Nat
    BY DEF GatewayInv, GatewayTyped
  <2>2. routes \in [1..Len(routes) -> Nat]
    BY <2>1
  <2> QED BY <2>1, <2>2, SeqDef
<1>4. q \in HandlerType
  BY <1>2, <1>3 DEF HandlerType
<1>5. q.pc = "match" /\ q.snapshot = routes /\ q.cursor = 0 /\ q.route = 0
  OBVIOUS
<1> HIDE DEF q
<1>6. Whole(routes, heap, loaded, reload.pc)
  BY DEF GatewayInv, ServedInv
<1>7. Best(q, heap)
  BY <1>3, <1>5 DEF Best
<1>8. HandlerOK(q, heap, loaded, reload.pc)
  BY <1>3, <1>5, <1>6, <1>7 DEF HandlerOK
<1> QED BY <1>1, <1>4, <1>8, HandlerStep

\* A round of the loop: the next route is taken, or what is held stays ahead of it.
LEMMA ConsiderStep ==
    ASSUME GatewayInv, NEW r \in Reqs, Consider(r)
    PROVE  GatewayInv'
<1> DEFINE o == req[r]
           id == o.snapshot[o.cursor + 1]
           take == IsPrefix(heap[id].prefix, o.path) /\ Better(id, o.route)
           q == [o EXCEPT !.cursor = @ + 1, !.route = IF take THEN id ELSE @]
<1>1. /\ o.pc = "match" /\ o.cursor < Len(o.snapshot)
      /\ UNCHANGED <<heap, routes, reload, loaded>>
  BY DEF Consider
<1>2. o \in HandlerType /\ HandlerOK(o, heap, loaded, reload.pc)
  BY DEF GatewayInv, GatewayTyped, HandlersInv
<1>3. req' = [req EXCEPT ![r] = q]
  BY <1>2 DEF Consider, GatewayInv, GatewayTyped, HandlerType
<1>4. /\ o.snapshot \in Seq(1..Len(heap)) /\ Whole(o.snapshot, heap, loaded, reload.pc)
      /\ Best(o, heap)
  BY <1>1, <1>2 DEF HandlerOK
<1>5. /\ Len(o.snapshot) \in Nat /\ o.cursor \in Nat /\ o.cursor + 1 \in 1..Len(o.snapshot)
      /\ \A i \in 1..Len(o.snapshot) : o.snapshot[i] \in 1..Len(heap)
      /\ id \in 1..Len(heap)
  <2>1. Len(o.snapshot) \in Nat /\ \A i \in 1..Len(o.snapshot) : o.snapshot[i] \in 1..Len(heap)
    BY <1>4
  <2>2. o.cursor \in Nat /\ o.cursor + 1 \in 1..Len(o.snapshot)
    BY <1>1, <1>4, <2>1 DEF Best
  <2> QED BY <2>1, <2>2
<1>6. \A i \in 1..o.cursor : o.snapshot[i] < id
  <2>1. \A i, j \in 1..Len(o.snapshot) : i < j => o.snapshot[i] < o.snapshot[j]
    BY <1>4 DEF Whole, Lists
  <2> SUFFICES ASSUME NEW i \in 1..o.cursor PROVE o.snapshot[i] < id
    OBVIOUS
  <2> DEFINE s == o.snapshot
             n == Len(s)
             j == o.cursor + 1
  <2>2. n \in Nat /\ o.cursor \in Nat /\ j \in 1..n /\ id = s[j]
    BY <1>5
  <2>3. \A a, b \in 1..n : a < b => s[a] < s[b]
    BY <2>1
  <2>4. i \in 1..n /\ i < j
    BY <2>2
  <2> HIDE DEF s, n, j
  <2>5. s[i] < s[j]
    BY <2>2, <2>3, <2>4
  <2> QED BY <2>2, <2>5 DEF s
<1>7. /\ q.pc = "match" /\ q.path = o.path /\ q.snapshot = o.snapshot
      /\ q.cursor = o.cursor + 1 /\ q.route = IF take THEN id ELSE o.route
  BY <1>1, <1>2 DEF HandlerType
<1>8. q \in HandlerType
  <2>1. id \in Nat /\ o.cursor + 1 \in Nat
    BY <1>5
  <2> HIDE DEF id, take
  <2> QED BY <1>2, <2>1 DEF HandlerType
<1>9. \A i \in 1..(o.cursor + 1) : i \in 1..o.cursor \/ i = o.cursor + 1
  BY <1>5
<1>10. \A i \in 1..o.cursor : i \in 1..(o.cursor + 1) /\ o.snapshot[i] \in 1..Len(heap)
  BY <1>5
<1>11. o.cursor + 1 \in 1..(o.cursor + 1) /\ o.cursor + 1 \in 0..Len(o.snapshot)
  BY <1>5
<1>12. \A i \in 1..Len(heap) : Len(heap[i].prefix) \in Nat
  <2>1. \A i \in 1..Len(heap) : heap[i] \in RouteType
    BY GatewayFacts DEF GatewayInv
  <2> QED BY <2>1 DEF RouteType
<1>13. o.route # 0 => o.route \in 1..Len(heap)
  BY <1>4, <1>10 DEF Best
<1>14. id # 0
  BY <1>5
<1> DEFINE P(i) == IsPrefix(heap[i].prefix, o.path)
<1>15. CASE take
  <2>1. q.route = id /\ P(id)
    BY <1>7, <1>15
  <2>2. ASSUME NEW i \in 1..o.cursor, P(o.snapshot[i]) PROVE Ahead(id, o.snapshot[i], heap)
    <3>1. o.route # 0
      BY <1>4, <2>2 DEF Best
    <3>2. Len(heap[o.route].prefix) < Len(heap[id].prefix)
      BY <1>5, <1>12, <1>13, <1>15, <3>1 DEF Better
    <3>3. o.snapshot[i] = o.route \/ Ahead(o.route, o.snapshot[i], heap)
      BY <1>4, <2>2, <3>1 DEF Best
    <3>4. o.snapshot[i] \in 1..Len(heap) /\ o.route \in 1..Len(heap)
      BY <1>10, <1>13, <3>1
    <3>5. Len(heap[o.snapshot[i]].prefix) < Len(heap[id].prefix)
      <4> DEFINE x == o.snapshot[i]
      <4>1. /\ x \in 1..Len(heap) /\ Len(heap[x].prefix) \in Nat
            /\ Len(heap[id].prefix) \in Nat /\ Len(heap[o.route].prefix) \in Nat
        BY <1>5, <1>12, <3>4
      <4>2. x = o.route \/ Ahead(o.route, x, heap)
        BY <3>3
      <4> HIDE DEF x, id, o
      <4>3. Len(heap[x].prefix) < Len(heap[o.route].prefix)
            \/ Len(heap[x].prefix) = Len(heap[o.route].prefix)
        BY <4>2 DEF Ahead
      <4> DEFINE a == Len(heap[x].prefix)
                 b == Len(heap[o.route].prefix)
                 d == Len(heap[id].prefix)
      <4>4. a \in Nat /\ b \in Nat /\ d \in Nat /\ b < d /\ (a < b \/ a = b)
        BY <3>2, <4>1, <4>3
      <4> HIDE DEF a, b, d
      <4>5. a < d
        BY <4>4
      <4> QED BY <4>5 DEF a, d, x
    <3> QED BY <3>5 DEF Ahead
  <2>3. Best(q, heap)
    <3> HIDE DEF id, q, take
    <3>1. \E i \in 1..q.cursor : q.snapshot[i] = q.route
      BY <1>7, <1>11, <2>1 DEF id
    <3>2. ASSUME NEW i \in 1..q.cursor, q.snapshot[i] # q.route,
                 IsPrefix(heap[q.snapshot[i]].prefix, q.path)
          PROVE  Ahead(q.route, q.snapshot[i], heap)
      BY <1>7, <1>9, <2>1, <2>2, <3>2 DEF id
    <3> QED BY <1>7, <1>11, <1>14, <2>1, <3>1, <3>2 DEF Best
  <2> QED BY <1>1, <1>3, <1>4, <1>7, <1>8, <2>3, HandlerStep DEF HandlerOK
<1>16. CASE ~take
  <2>1. q.route = o.route
    BY <1>7, <1>16
  <2>2. CASE o.route = 0
    <3>1. ~P(id)
      BY <1>16, <2>2 DEF Better
    <3>2. \A i \in 1..o.cursor : ~P(o.snapshot[i])
      BY <1>4, <2>2 DEF Best
    <3>3. Best(q, heap)
      <4> HIDE DEF q, take
      <4> QED BY <1>7, <1>9, <1>11, <2>1, <2>2, <3>1, <3>2 DEF Best
    <3> QED BY <1>1, <1>3, <1>4, <1>7, <1>8, <3>3, HandlerStep DEF HandlerOK
  <2>3. CASE o.route # 0
    <3>1. PICK k \in 1..o.cursor : o.snapshot[k] = o.route
      BY <1>4, <2>3 DEF Best
    <3>2. o.route < id
      BY <1>6, <3>1
    <3>3. P(id) => Ahead(o.route, id, heap)
      <4>1. P(id) => ~(Len(heap[id].prefix) > Len(heap[o.route].prefix))
        BY <1>16, <2>3 DEF Better
      <4>2. Len(heap[id].prefix) \in Nat /\ Len(heap[o.route].prefix) \in Nat
        BY <1>5, <1>12, <1>13, <2>3
      <4> HIDE DEF id
      <4> QED BY <3>2, <4>1, <4>2 DEF Ahead
    <3>4. /\ P(o.route)
          /\ \A i \in 1..o.cursor : o.snapshot[i] # o.route /\ P(o.snapshot[i])
                                       => Ahead(o.route, o.snapshot[i], heap)
      BY <1>4, <2>3 DEF Best
    <3>5. Best(q, heap)
      <4> HIDE DEF q, take
      <4>1. \E i \in 1..q.cursor : q.snapshot[i] = q.route
        BY <1>7, <1>10, <2>1, <3>1
      <4>2. ASSUME NEW i \in 1..q.cursor, q.snapshot[i] # q.route,
                   IsPrefix(heap[q.snapshot[i]].prefix, q.path)
            PROVE  Ahead(q.route, q.snapshot[i], heap)
        BY <1>7, <1>9, <2>1, <3>3, <3>4, <4>2
      <4> QED BY <1>7, <1>11, <2>1, <2>3, <3>4, <4>1, <4>2 DEF Best
    <3> QED BY <1>1, <1>3, <1>4, <1>7, <1>8, <3>5, HandlerStep DEF HandlerOK
  <2> QED BY <2>2, <2>3
<1> QED BY <1>15, <1>16

\* The loop is over: what is best of the routes read is the longest match of their
\* configuration, as they are all of it.
LEMMA DispatchStep ==
    ASSUME GatewayInv, NEW r \in Reqs, Dispatch(r)
    PROVE  GatewayInv'
<1> DEFINE o == req[r]
           q == [o EXCEPT !.pc = "matched", !.snapshot = <<>>, !.cursor = 0]
<1>1. /\ o.pc = "match" /\ o.cursor = Len(o.snapshot) /\ o.route # 0
      /\ UNCHANGED <<heap, routes, reload, loaded>>
  BY DEF Dispatch
<1>2. o \in HandlerType /\ HandlerOK(o, heap, loaded, reload.pc)
  BY DEF GatewayInv, GatewayTyped, HandlersInv
<1>3. req' = [req EXCEPT ![r] = q]
  BY <1>2 DEF Dispatch, GatewayInv, GatewayTyped, HandlerType
<1>4. /\ q.pc = "matched" /\ q.path = o.path /\ q.snapshot = <<>> /\ q.route = o.route
      /\ q \in HandlerType
  <2>1. <<>> \in Seq(Nat) /\ 0 \in Nat
    OBVIOUS
  <2> DEFINE e == <<>>
  <2>2. q = [o EXCEPT !.pc = "matched", !.snapshot = e, !.cursor = 0] /\ e \in Seq(Nat)
    BY <2>1
  <2> HIDE DEF e, q, o
  <2>3. /\ q.pc = "matched" /\ q.path = o.path /\ q.snapshot = e /\ q.route = o.route
        /\ q \in HandlerType
    BY <1>2, <2>2 DEF HandlerType
  <2> QED BY <2>3 DEF e
<1>5. Best(o, heap) /\ o.snapshot \in Seq(1..Len(heap))
  BY <1>1, <1>2 DEF HandlerOK
<1>6. PICK g \in 1..Len(loaded) : Lists(o.snapshot, g, heap, loaded) /\ Sealed(g, loaded, reload.pc)
  BY <1>1, <1>2 DEF HandlerOK, Whole
<1>7. PICK k \in 1..Len(o.snapshot) : o.snapshot[k] = o.route
  BY <1>1, <1>5 DEF Best
<1>8. o.route \in 1..Len(heap) /\ heap[o.route].generation = g
  <2>1. o.snapshot[k] \in 1..Len(heap)
    BY <1>5
  <2>2. heap[o.snapshot[k]].generation = g
    BY <1>6 DEF Lists
  <2> QED BY <1>7, <2>1, <2>2
<1>9. Longest(q, heap)
  <2>1. IsPrefix(heap[o.route].prefix, o.path)
    BY <1>1, <1>5 DEF Best
  <2>2. ASSUME NEW id \in 1..Len(heap), id # o.route, heap[id].generation = g,
               IsPrefix(heap[id].prefix, o.path)
        PROVE  Ahead(o.route, id, heap)
    <3>1. PICK i \in 1..Len(o.snapshot) : o.snapshot[i] = id
      BY <1>6, <2>2 DEF Lists
    <3> QED BY <1>1, <1>5, <2>2, <3>1 DEF Best
  <2> HIDE DEF q
  <2> QED BY <1>4, <1>8, <2>1, <2>2 DEF Longest
<1>10. <<>> \in Seq(1..Len(heap))
  OBVIOUS
<1> HIDE DEF q
<1>11. HandlerOK(q, heap, loaded, reload.pc)
  BY <1>4, <1>6, <1>8, <1>9, <1>10 DEF HandlerOK
<1> QED BY <1>1, <1>3, <1>4, <1>11, HandlerStep

\* The other steps of handlers that leave the objects alone.
LEMMA OtherHandlerSteps ==
    ASSUME GatewayInv, NEW r \in Reqs, NoRoute(r) \/ Reject(r) \/ Forward(r)
    PROVE  GatewayInv'
<1>1. CASE NoRoute(r) \/ Reject(r)
  <2>1. req' = [req EXCEPT ![r] = Waiting] /\ UNCHANGED <<heap, routes, reload, loaded>>
    BY <1>1 DEF NoRoute, Reject
  <2> QED BY <2>1, WaitingOK, HandlerStep
<1>2. CASE Forward(r)
  <2> DEFINE o == req[r]
             q == [o EXCEPT !.pc = "proxy"]
  <2>1. o.pc = "matched" /\ UNCHANGED <<heap, routes, reload, loaded>>
    BY <1>2 DEF Forward
  <2>2. o \in HandlerType /\ HandlerOK(o, heap, loaded, reload.pc)
    BY DEF GatewayInv, GatewayTyped, HandlersInv
  <2>3. req' = [req EXCEPT ![r] = q]
    BY <1>2, <2>2 DEF Forward, GatewayInv, GatewayTyped, HandlerType
  <2>4. /\ q.pc = "proxy" /\ q.path = o.path /\ q.snapshot = o.snapshot /\ q.route = o.route
        /\ q \in HandlerType
    BY <2>2 DEF HandlerType
  <2> HIDE DEF q
  <2>5. HandlerOK(q, heap, loaded, reload.pc)
    BY <2>1, <2>2, <2>4 DEF HandlerOK, Longest
  <2> QED BY <2>1, <2>3, <2>4, <2>5, HandlerStep
<1> QED BY <1>1, <1>2

-----------------------------------------------------------------------------
\* Steps on the objects

\* Handlers keep what they have when objects and configurations are only added to.
LEMMA HandlersKept ==
    ASSUME GatewayInv, Grows(heap, loaded, reload.pc, heap', loaded', reload'.pc),
           \A s \in Reqs : req'[s] = req[s] \/ req'[s] = Waiting
    PROVE  HandlersInv'
<1> SUFFICES ASSUME NEW s \in Reqs
             PROVE  HandlerOK(req'[s], heap', loaded', reload'.pc)
  BY DEF HandlersInv
<1>1. CASE req'[s] = Waiting
  BY <1>1, WaitingOK
<1>2. CASE req'[s] = req[s]
  <2>1. HandlerOK(req[s], heap, loaded, reload.pc)
    BY DEF GatewayInv, HandlersInv
  <2>2. \A id \in 1..Len(heap) : heap[id].generation \in 1..Len(loaded)
    BY DEF GatewayInv, ObjectsInv, ObjectOK
  <2>3. HandlerOK(req[s], heap', loaded', reload'.pc)
    BY <2>1, <2>2, HandlerKept
  <2> QED BY <1>2, <2>3
<1> QED BY <1>1, <1>2

\* The object id becomes x. A checker is stopped only when its route has been
\* replaced.
LEMMA TouchStep ==
    ASSUME GatewayInv, NEW id \in 1..Len(heap), NEW x \in RouteType,
           heap' = [heap EXCEPT ![id] = x],
           x.prefix = heap[id].prefix, x.generation = heap[id].generation,
           x.checker = "running" => x.alive = TRUE /\ x.probe # "down",
           \/ heap[id].checker = "running" => x.checker = "running"
           \/ reload.pc = "stop" /\ \A i \in 1..Len(routes) : routes[i] # id,
           UNCHANGED <<routes, loaded>>,
           reload' \in ReloadType, reload'.pc = reload.pc,
           reload'.next = reload.next, reload'.todo = reload.todo,
           reload'.old \in Seq(1..Len(heap)),
           reload.pc = "stop" =>
               \A i \in 1..Len(reload'.old) : heap[reload'.old[i]].generation < Len(loaded),
           req' \in [Reqs -> HandlerType],
           \A s \in Reqs : req'[s] = req[s] \/ req'[s] = Waiting
    PROVE  GatewayInv'
<1>1. heap' \in Seq(RouteType) /\ Len(heap') = Len(heap) /\ Len(heap) \in Nat
  <2>1. heap \in Seq(RouteType)
    BY DEF GatewayInv, GatewayTyped
  <2> QED BY <2>1, ExceptSeq
<1>2. \A i \in 1..Len(heap) : heap'[i] = IF i = id THEN x ELSE heap[i]
  BY DEF GatewayInv, GatewayTyped
<1>3. \A i \in 1..Len(heap) :
         heap'[i].prefix = heap[i].prefix /\ heap'[i].generation = heap[i].generation
  BY <1>2
<1>4. Len(loaded) \in Nat
  BY DEF GatewayInv, GatewayTyped
<1>5. Grows(heap, loaded, reload.pc, heap', loaded', reload'.pc)
  BY <1>1, <1>3, <1>4 DEF Grows
<1>6. HandlersInv'
  BY <1>5, HandlersKept
<1>7. GatewayTyped'
  BY <1>1 DEF GatewayInv, GatewayTyped
<1>8. ObjectsInv'
  <2> SUFFICES ASSUME NEW i \in 1..Len(heap) PROVE ObjectOK(heap'[i], loaded)
    BY <1>1 DEF ObjectsInv
  <2>1. ObjectOK(heap[i], loaded) /\ ObjectOK(heap[id], loaded)
    BY DEF GatewayInv, ObjectsInv
  <2> QED BY <1>2, <2>1 DEF ObjectOK
<1>9. ServedInv'
  <2>1. Whole(routes, heap', loaded', reload'.pc)
    BY <1>5, WholeKept DEF GatewayInv, ServedInv
  <2>2. \A i \in 1..Len(routes) : routes[i] \in 1..Len(heap) /\ heap[routes[i]].checker = "running"
    BY GatewayFacts DEF GatewayInv, ServedInv
  <2>3. \A i \in 1..Len(routes) : heap'[routes[i]].checker = "running"
    BY <1>2, <2>2
  <2> QED BY <2>1, <2>3 DEF ServedInv
<1>10. BuildInv'
  <2> SUFFICES ASSUME reload.pc = "build" PROVE BuildInv'
    BY DEF BuildInv
  <2> DEFINE n == reload.next
             g == Len(loaded)
  <2>1. /\ g # 0 /\ Lists(n, g, heap, loaded)
        /\ \A i \in 1..Len(n) : heap[n[i]].checker = "running"
        /\ Len(n) + Len(reload.todo) = Len(loaded[g])
        /\ \A i \in 1..Len(reload.todo) : reload.todo[i] = loaded[g][Len(n) + i]
    BY DEF GatewayInv, BuildInv
  <2>2. \A i \in 1..Len(n) : n[i] \in 1..Len(heap)
    BY <2>1 DEF Lists
  <2>3. Lists(n, g, heap', loaded)
    <3>1. \A i \in 1..Len(n) : heap'[n[i]].generation = g /\ heap'[n[i]].prefix = loaded[g][i].prefix
      BY <1>3, <2>1, <2>2 DEF Lists
    <3>2. \A i \in 1..Len(heap') : heap'[i].generation = g => \E j \in 1..Len(n) : n[j] = i
      BY <1>1, <1>3, <2>1 DEF Lists
    <3>3. n \in Seq(1..Len(heap')) /\ \A i, j \in 1..Len(n) : i < j => n[i] < n[j]
      BY <1>1, <2>1 DEF Lists
    <3> QED BY <3>1, <3>2, <3>3 DEF Lists
  <2>4. \A i \in 1..Len(n) : heap'[n[i]].checker = "running"
    BY <1>2, <2>1, <2>2
  <2> QED BY <2>1, <2>3, <2>4 DEF BuildInv
<1>11. StopInv'
  <2> SUFFICES ASSUME reload.pc = "stop"
               PROVE  /\ \A i \in 1..Len(routes) : heap'[routes[i]].generation = Len(loaded)
                      /\ \A i \in 1..Len(reload'.old) :
                            heap'[reload'.old[i]].generation < Len(loaded)
    BY DEF StopInv
  <2>1. \A i \in 1..Len(routes) : routes[i] \in 1..Len(heap)
    BY GatewayFacts DEF GatewayInv
  <2>2. \A i \in 1..Len(reload'.old) : reload'.old[i] \in 1..Len(heap)
    OBVIOUS
  <2>3. \A i \in 1..Len(routes) : heap[routes[i]].generation = Len(loaded)
    BY DEF GatewayInv, StopInv
  <2> QED BY <1>3, <2>1, <2>2, <2>3
<1> QED BY <1>6, <1>7, <1>8, <1>9, <1>10, <1>11 DEF GatewayInv

\* The steps of checkers, none of which stops one.
LEMMA CheckStep ==
    ASSUME GatewayInv, NEW id \in 1..Len(heap), Check(id)
    PROVE  GatewayInv'
<1> DEFINE o == heap[id]
<1>1. o \in RouteType /\ ObjectOK(o, loaded) /\ DOMAIN heap = 1..Len(heap)
  BY GatewayFacts DEF GatewayInv, ObjectsInv
<1>2. /\ UNCHANGED <<routes, reload, loaded, req>>
      /\ reload \in ReloadType /\ reload.old \in Seq(1..Len(heap))
      /\ req \in [Reqs -> HandlerType]
      /\ reload.pc = "stop" =>
            \A i \in 1..Len(reload.old) : heap[reload.old[i]].generation < Len(loaded)
  BY DEF Check, BeginProbe, ProbeAnswer, ProbeApply, Exit,
         GatewayInv, GatewayTyped, StopInv
<1>3. ASSUME NEW x \in RouteType, heap' = [heap EXCEPT ![id] = x],
             x.prefix = o.prefix, x.generation = o.generation,
             x.checker = "running" => x.alive = TRUE /\ x.probe # "down",
             o.checker = "running" => x.checker = "running"
      PROVE  GatewayInv'
  BY <1>2, <1>3, TouchStep
<1>4. CASE BeginProbe(id)
  <2> DEFINE v == IF o.checker = "running" THEN "sent" ELSE "down"
             x == [o EXCEPT !.probe = v]
  <2>1. heap' = [heap EXCEPT ![id] = x]
    BY <1>1, <1>4 DEF BeginProbe
  <2>2. v \in {"sent", "down"} /\ (o.checker = "running" => v = "sent")
    OBVIOUS
  <2> HIDE DEF v
  <2>3. /\ x \in RouteType /\ x.prefix = o.prefix /\ x.generation = o.generation
        /\ x.checker = o.checker /\ x.alive = o.alive /\ x.probe = v
    BY <1>1, <2>2 DEF RouteType
  <2> HIDE DEF x
  <2> QED BY <1>1, <1>3, <2>1, <2>2, <2>3 DEF ObjectOK
<1>5. CASE ProbeAnswer(id)
  <2>1. PICK v \in IF o.checker = "running" THEN {"up"} ELSE {"up", "down"} :
              heap' = [heap EXCEPT ![id].probe = v]
    BY <1>5 DEF ProbeAnswer
  <2> DEFINE x == [o EXCEPT !.probe = v]
  <2>2. /\ heap' = [heap EXCEPT ![id] = x]
        /\ v \in {"up", "down"} /\ (o.checker = "running" => v = "up")
    BY <1>1, <2>1
  <2>3. /\ x \in RouteType /\ x.prefix = o.prefix /\ x.generation = o.generation
        /\ x.checker = o.checker /\ x.alive = o.alive /\ x.probe = v
    BY <1>1, <2>2 DEF RouteType
  <2> HIDE DEF x
  <2>4. x.checker = "running" => x.alive = TRUE /\ x.probe # "down"
    BY <1>1, <2>2, <2>3 DEF ObjectOK
  <2> QED BY <1>3, <2>2, <2>3, <2>4
<1>6. CASE ProbeApply(id)
  <2> DEFINE v == (o.probe = "up")
             x == [o EXCEPT !.alive = v, !.probe = "none"]
  <2>1. heap' = [heap EXCEPT ![id] = x] /\ o.probe \in {"up", "down"}
    BY <1>1, <1>6 DEF ProbeApply
  <2>2. v \in BOOLEAN /\ (o.probe = "up" => v = TRUE)
    OBVIOUS
  <2> HIDE DEF v
  <2>3. /\ x \in RouteType /\ x.prefix = o.prefix /\ x.generation = o.generation
        /\ x.checker = o.checker /\ x.alive = v /\ x.probe = "none"
    BY <1>1, <2>2 DEF RouteType
  <2>4. x.checker = "running" => x.alive = TRUE /\ x.probe # "down"
    BY <1>1, <2>1, <2>2, <2>3 DEF ObjectOK
  <2> HIDE DEF x
  <2> QED BY <1>3, <2>1, <2>3, <2>4
<1>7. CASE Exit(id)
  <2> DEFINE x == [o EXCEPT !.checker = "gone"]
  <2>1. heap' = [heap EXCEPT ![id] = x] /\ o.checker = "cancelled"
    BY <1>1, <1>7 DEF Exit
  <2>2. /\ x \in RouteType /\ x.prefix = o.prefix /\ x.generation = o.generation
        /\ x.checker = "gone"
    BY <1>1 DEF RouteType
  <2> HIDE DEF x
  <2> QED BY <1>3, <2>1, <2>2
<1> QED BY <1>4, <1>5, <1>6, <1>7 DEF Check

\* ModifyResponse of a handler, whose route may have been replaced.
LEMMA CompleteStep ==
    ASSUME GatewayInv, NEW r \in Reqs, Complete(r)
    PROVE  GatewayInv'
<1> DEFINE id == req[r].route
           o == heap[id]
           x == [o EXCEPT !.alive = TRUE]
<1>1. /\ req[r].pc = "proxy" /\ heap' = [heap EXCEPT ![id].alive = TRUE]
      /\ req' = [req EXCEPT ![r] = Waiting] /\ UNCHANGED <<routes, reload, loaded>>
  BY DEF Complete
<1>2. id \in 1..Len(heap)
  BY <1>1 DEF GatewayInv, HandlersInv, HandlerOK
<1>3. o \in RouteType /\ ObjectOK(o, loaded) /\ DOMAIN heap = 1..Len(heap)
  BY <1>2, GatewayFacts DEF GatewayInv, ObjectsInv
<1>4. heap' = [heap EXCEPT ![id] = x]
  BY <1>1, <1>2, <1>3
<1>5. /\ x \in RouteType /\ x.prefix = o.prefix /\ x.generation = o.generation
      /\ x.checker = o.checker /\ x.alive = TRUE /\ x.probe = o.probe
  BY <1>3 DEF RouteType
<1>6. /\ reload \in ReloadType /\ reload.old \in Seq(1..Len(heap))
      /\ req' \in [Reqs -> HandlerType]
      /\ \A s \in Reqs : req'[s] = req[s] \/ req'[s] = Waiting
      /\ reload.pc = "stop" =>
            \A i \in 1..Len(reload.old) : heap[reload.old[i]].generation < Len(loaded)
  BY <1>1, WaitingOK DEF GatewayInv, GatewayTyped, StopInv
<1> HIDE DEF x, id
<1>7. x.checker = "running" => x.alive = TRUE /\ x.probe # "down"
  BY <1>3, <1>5 DEF ObjectOK
<1>8. /\ reload' \in ReloadType /\ reload'.pc = reload.pc
      /\ reload'.next = reload.next /\ reload'.todo = reload.todo
      /\ reload'.old \in Seq(1..Len(heap))
      /\ reload.pc = "stop" =>
            \A i \in 1..Len(reload'.old) : heap[reload'.old[i]].generation < Len(loaded)
  BY <1>1, <1>6
<1>9. /\ x \in RouteType /\ x.prefix = heap[id].prefix
      /\ x.generation = heap[id].generation
      /\ heap[id].checker = "running" => x.checker = "running"
  BY <1>5
<1>10. UNCHANGED <<routes, loaded>>
  BY <1>1
<1> QED BY <1>2, <1>4, <1>6, <1>7, <1>8, <1>9, <1>10, TouchStep

-----------------------------------------------------------------------------
\* Steps of Reload

\* A new object x is built for the configuration in hand; whatever becomes of the
\* reload, handlers, old objects and served routes are not disturbed.
LEMMA BuildKeeps ==
    ASSUME GatewayInv, NEW x \in RouteType,
           heap' = Append(heap, x), x.generation = Len(loaded),
           x.alive = TRUE, x.probe = "sent",
           reload.pc = "build", UNCHANGED <<routes, loaded, req>>
    PROVE  /\ heap' \in Seq(RouteType) /\ Len(heap') = Len(heap) + 1 /\ Len(heap) \in Nat
           /\ heap'[Len(heap) + 1] = x /\ \A i \in 1..Len(heap) : heap'[i] = heap[i]
           /\ routes' \in Seq(1..Len(heap'))
           /\ ObjectsInv' /\ HandlersInv' /\ ServedInv'
<1>1. /\ heap' \in Seq(RouteType) /\ Len(heap') = Len(heap) + 1 /\ Len(heap) \in Nat
      /\ heap'[Len(heap) + 1] = x /\ \A i \in 1..Len(heap) : heap'[i] = heap[i]
  BY DEF GatewayInv, GatewayTyped
<1>2. \A i \in 1..Len(heap') : i \in 1..Len(heap) \/ i = Len(heap) + 1
  BY <1>1
<1>3. Len(loaded) \in Nat /\ Len(heap) <= Len(heap')
  BY <1>1 DEF GatewayInv, GatewayTyped
<1>4. Grows(heap, loaded, reload.pc, heap', loaded', reload'.pc)
  BY <1>1, <1>2, <1>3 DEF Grows
<1>5. Len(loaded) \in 1..Len(loaded)
  BY <1>3 DEF GatewayInv, BuildInv
<1>6. ObjectsInv'
  <2> SUFFICES ASSUME NEW i \in 1..Len(heap') PROVE ObjectOK(heap'[i], loaded)
    BY DEF ObjectsInv
  <2>1. CASE i \in 1..Len(heap)
    BY <1>1, <2>1 DEF GatewayInv, ObjectsInv
  <2>2. CASE i = Len(heap) + 1
    BY <1>1, <1>5, <2>2 DEF ObjectOK
  <2> QED BY <1>2, <2>1, <2>2
<1>7. HandlersInv'
  BY <1>4, HandlersKept
<1>8. ServedInv'
  <2>1. Whole(routes, heap', loaded', reload'.pc)
    BY <1>4, WholeKept DEF GatewayInv, ServedInv
  <2>2. \A i \in 1..Len(routes) : routes[i] \in 1..Len(heap) /\ heap[routes[i]].checker = "running"
    BY GatewayFacts DEF GatewayInv, ServedInv
  <2> QED BY <1>1, <2>1, <2>2 DEF ServedInv
<1>9. routes' \in Seq(1..Len(heap'))
  <2>1. routes \in Seq(1..Len(heap))
    BY DEF GatewayInv, GatewayTyped
  <2> QED BY <1>1, <1>3, <2>1, ListKept
<1> QED BY <1>1, <1>6, <1>7, <1>8, <1>9

\* What NewRoute makes.
LEMMA NewRouteOK ==
    ASSUME NEW c \in RouteConfig, NEW g \in Nat
    PROVE  LET x == NewRoute(c, g) IN
           /\ x \in RouteType /\ x.prefix = c.prefix /\ x.generation = g
           /\ x.alive = TRUE /\ x.checker = "running" /\ x.probe = "sent"
BY DEF NewRoute, RouteType, RouteConfig

\* A reload that rests, or has been given up.
LEMMA QuietOK ==
    /\ Quiet \in ReloadType /\ Quiet.pc = "idle"
    /\ Quiet.todo = <<>> /\ Quiet.next = <<>> /\ Quiet.old = <<>>
BY DEF Quiet, ReloadType

\* The next entry of the configuration, if it is to be built.
LEMMA HeadFacts ==
    ASSUME GatewayInv, reload.pc = "build", reload.todo # <<>>
    PROVE  /\ Head(reload.todo) \in RouteConfig
           /\ Len(loaded) \in Nat \ {0}
           /\ Len(reload.todo) \in Nat \ {0} /\ Len(reload.next) \in Nat
           /\ Head(reload.todo) = loaded[Len(loaded)][Len(reload.next) + 1]
           /\ Tail(reload.todo) \in Seq(RouteConfig)
           /\ Len(Tail(reload.todo)) = Len(reload.todo) - 1
           /\ \A i \in 1..(Len(reload.todo) - 1) :
                 Tail(reload.todo)[i] = loaded[Len(loaded)][Len(reload.next) + 1 + i]
<1> DEFINE t == reload.todo
           n == reload.next
           c == loaded[Len(loaded)]
<1>1. t \in Seq(RouteConfig) /\ n \in Seq(1..Len(heap)) /\ Len(loaded) \in Nat
  BY DEF GatewayInv, GatewayTyped, ReloadType
<1>2. Len(loaded) # 0 /\ \A i \in 1..Len(t) : t[i] = c[Len(n) + i]
  BY DEF GatewayInv, BuildInv
<1> HIDE DEF c
<1>3. t # <<>>
  OBVIOUS
<1> HIDE DEF t, n
<1>4. /\ Len(t) \in Nat \ {0} /\ Head(t) = t[1] /\ Head(t) \in RouteConfig
      /\ Tail(t) \in Seq(RouteConfig) /\ Len(Tail(t)) = Len(t) - 1
      /\ \A i \in 1..(Len(t) - 1) : Tail(t)[i] = t[i + 1]
  BY <1>1, <1>3
<1>5. Len(n) \in Nat
  BY <1>1
<1>6. 1 \in 1..Len(t) /\ \A i \in 1..(Len(t) - 1) : i + 1 \in 1..Len(t) /\ Len(n) + (i + 1) = Len(n) + 1 + i
  BY <1>4, <1>5
<1>7. \A i \in 1..(Len(t) - 1) : Tail(t)[i] = c[Len(n) + 1 + i]
  BY <1>2, <1>4, <1>6
<1>8. Head(t) = c[Len(n) + 1]
  BY <1>2, <1>4, <1>6
<1> QED BY <1>1, <1>2, <1>4, <1>5, <1>7, <1>8 DEF t, n, c

LEMMA BuildRouteStep ==
    ASSUME GatewayInv, BuildRoute
    PROVE  GatewayInv'
<1> DEFINE t == reload.todo
           n == reload.next
           g == Len(loaded)
           k == Len(heap) + 1
           x == NewRoute(Head(t), g)
           u == [reload EXCEPT !.todo = Tail(@), !.next = Append(@, k)]
           m == Append(n, k)
<1>1. /\ reload.pc = "build" /\ t # <<>> /\ heap' = Append(heap, x)
      /\ reload' = u /\ UNCHANGED <<routes, loaded, req>>
  BY DEF BuildRoute, Build
<1>2. /\ Head(t) \in RouteConfig /\ g \in Nat \ {0}
      /\ Len(t) \in Nat \ {0} /\ Len(n) \in Nat
      /\ Head(t) = loaded[g][Len(n) + 1]
      /\ Tail(t) \in Seq(RouteConfig) /\ Len(Tail(t)) = Len(t) - 1
      /\ \A i \in 1..(Len(t) - 1) : Tail(t)[i] = loaded[g][Len(n) + 1 + i]
  BY <1>1, HeadFacts
<1>3. /\ x \in RouteType /\ x.prefix = Head(t).prefix /\ x.generation = g
      /\ x.alive = TRUE /\ x.checker = "running" /\ x.probe = "sent"
  <2> DEFINE c == Head(t)
  <2>1. c \in RouteConfig /\ g \in Nat
    BY <1>2
  <2> HIDE DEF c, g
  <2>2. LET y == NewRoute(c, g) IN
        /\ y \in RouteType /\ y.prefix = c.prefix /\ y.generation = g
        /\ y.alive = TRUE /\ y.checker = "running" /\ y.probe = "sent"
    BY <2>1, NewRouteOK
  <2> QED BY <2>2 DEF c
<1> HIDE DEF x
<1>4. /\ heap' \in Seq(RouteType) /\ Len(heap') = k /\ Len(heap) \in Nat
      /\ heap'[k] = x /\ \A i \in 1..Len(heap) : heap'[i] = heap[i]
      /\ routes' \in Seq(1..Len(heap'))
      /\ ObjectsInv' /\ HandlersInv' /\ ServedInv'
  BY <1>1, <1>3, BuildKeeps
<1>5. /\ reload \in ReloadType /\ n \in Seq(1..Len(heap)) /\ reload.old \in Seq(1..Len(heap))
      /\ loaded \in Seq(Configs) /\ req \in [Reqs -> HandlerType]
  BY DEF GatewayInv, GatewayTyped
<1>6. /\ k \in Nat /\ k \in 1..Len(heap') /\ Len(heap) <= Len(heap')
      /\ \A i \in 1..Len(heap) : i \in 1..Len(heap') /\ i < k
      /\ \A i \in 1..Len(heap') : i \in 1..Len(heap) \/ i = k
  BY <1>4
<1>7. /\ n \in Seq(1..Len(heap')) /\ reload.old \in Seq(1..Len(heap'))
      /\ \A i \in 1..Len(n) : n[i] \in 1..Len(heap)
  BY <1>4, <1>5, <1>6, ListKept
<1>8. /\ m \in Seq(1..Len(heap')) /\ Len(m) = Len(n) + 1
      /\ m[Len(n) + 1] = k /\ \A i \in 1..Len(n) : m[i] = n[i]
  <2> HIDE DEF k, n
  <2> QED BY <1>2, <1>6, <1>7
<1>9. n \in Seq(Nat) /\ m \in Seq(Nat)
  <2>1. n \in Seq(Nat)
    BY <1>5 DEF ReloadType
  <2> QED BY <1>6, <2>1
<1> HIDE DEF m
<1>10. u.pc = "build" /\ u.todo = Tail(t) /\ u.next = m /\ u.old = reload.old /\ u \in ReloadType
  BY <1>1, <1>2, <1>5, <1>9 DEF ReloadType, m
<1> HIDE DEF u
<1>11. GatewayTyped'
  BY <1>1, <1>4, <1>5, <1>7, <1>8, <1>10 DEF GatewayTyped
<1>12. BuildInv'
  <2>1. /\ Lists(n, g, heap, loaded)
        /\ \A i \in 1..Len(n) : heap[n[i]].checker = "running"
        /\ Len(n) + Len(t) = Len(loaded[g])
    BY <1>1 DEF GatewayInv, BuildInv
  <2>2. \A i \in 1..Len(m) : i \in 1..Len(n) \/ i = Len(n) + 1
    BY <1>2, <1>8
  <2>3. \A i \in 1..Len(n) : i \in 1..Len(m) /\ m[i] = n[i] /\ heap'[m[i]] = heap[n[i]]
    <3>1. \A i \in 1..Len(n) : i \in 1..Len(m)
      BY <1>2, <1>8
    <3> QED BY <1>4, <1>7, <1>8, <3>1
  <2>4. Len(n) + 1 \in 1..Len(m) /\ heap'[m[Len(n) + 1]] = x /\ m[Len(n) + 1] = k
    <3>1. Len(n) + 1 \in 1..Len(m)
      BY <1>2, <1>8
    <3> QED BY <1>4, <1>8, <3>1
  <2>5. \A i \in 1..Len(m) : /\ heap'[m[i]].generation = g
                             /\ heap'[m[i]].prefix = loaded[g][i].prefix
                             /\ heap'[m[i]].checker = "running"
    <3> SUFFICES ASSUME NEW i \in 1..Len(m)
                 PROVE  /\ heap'[m[i]].generation = g
                        /\ heap'[m[i]].prefix = loaded[g][i].prefix
                        /\ heap'[m[i]].checker = "running"
      OBVIOUS
    <3>1. CASE i \in 1..Len(n)
      BY <2>1, <2>3, <3>1 DEF Lists
    <3>2. CASE i = Len(n) + 1
      BY <1>2, <1>3, <2>4, <3>2
    <3> QED BY <2>2, <3>1, <3>2
  <2>6. \A i, j \in 1..Len(m) : i < j => m[i] < m[j]
    <3> SUFFICES ASSUME NEW i \in 1..Len(m), NEW j \in 1..Len(m), i < j PROVE m[i] < m[j]
      OBVIOUS
    <3>1. i \in 1..Len(n)
      BY <1>2, <1>8
    <3>2. CASE j \in 1..Len(n)
      BY <2>1, <2>3, <3>1, <3>2 DEF Lists
    <3>3. CASE j = Len(n) + 1
      BY <1>6, <1>7, <2>3, <2>4, <3>1, <3>3
    <3> QED BY <2>2, <3>2, <3>3
  <2>7. \A i \in 1..Len(heap') : heap'[i].generation = g => \E j \in 1..Len(m) : m[j] = i
    <3> SUFFICES ASSUME NEW i \in 1..Len(heap'), heap'[i].generation = g
                 PROVE  \E j \in 1..Len(m) : m[j] = i
      OBVIOUS
    <3>1. CASE i = k
      BY <2>4, <3>1
    <3>2. CASE i \in 1..Len(heap)
      <4>1. heap[i].generation = g
        BY <1>4, <3>2
      <4>2. PICK j \in 1..Len(n) : n[j] = i
        BY <2>1, <3>2, <4>1 DEF Lists
      <4> QED BY <2>3, <4>2
    <3> QED BY <1>6, <3>1, <3>2
  <2>8. Lists(m, g, heap', loaded)
    BY <1>8, <2>5, <2>6, <2>7 DEF Lists
  <2>9. Len(m) + Len(Tail(t)) = Len(loaded[g])
    <3> DEFINE a == Len(n)
               b == Len(t)
               d == Len(m)
               f == Len(Tail(t))
    <3>1. a \in Nat /\ b \in Nat /\ d = a + 1 /\ f = b - 1
      BY <1>2, <1>8
    <3>2. a + b = Len(loaded[g])
      BY <2>1
    <3> HIDE DEF a, b, d, f
    <3>3. d + f = a + b
      BY <3>1
    <3>4. d + f = Len(loaded[g])
      BY <3>2, <3>3
    <3> QED BY <3>4 DEF d, f
  <2>10. \A i \in 1..Len(Tail(t)) : Tail(t)[i] = loaded[g][Len(m) + i]
    BY <1>2, <1>8
  <2> HIDE DEF t
  <2> QED BY <1>1, <1>2, <1>10, <2>5, <2>8, <2>9, <2>10 DEF BuildInv
<1>13. StopInv'
  BY <1>1, <1>10 DEF StopInv
<1> QED BY <1>4, <1>11, <1>12, <1>13 DEF GatewayInv

LEMMA AuthFailsStep ==
    ASSUME GatewayInv, AuthFails
    PROVE  GatewayInv'
<1> DEFINE x == NewRoute(Head(reload.todo), Len(loaded))
<1>1. /\ reload.pc = "build" /\ reload.todo # <<>> /\ heap' = Append(heap, x)
      /\ reload' = Quiet /\ UNCHANGED <<routes, loaded, req>>
  BY DEF AuthFails, Build
<1>2. Head(reload.todo) \in RouteConfig /\ Len(loaded) \in Nat
  BY <1>1, HeadFacts
<1>3. /\ x \in RouteType /\ x.generation = Len(loaded) /\ x.alive = TRUE /\ x.probe = "sent"
  BY <1>2, NewRouteOK
<1> HIDE DEF x
<1>4. /\ heap' \in Seq(RouteType) /\ routes' \in Seq(1..Len(heap'))
      /\ ObjectsInv' /\ HandlersInv' /\ ServedInv'
  BY <1>1, <1>3, BuildKeeps
<1>5. GatewayTyped'
  <2>1. <<>> \in Seq(1..Len(heap'))
    OBVIOUS
  <2> QED BY <1>1, <1>4, <2>1, QuietOK DEF GatewayInv, GatewayTyped
<1>6. BuildInv' /\ StopInv'
  BY <1>1, QuietOK DEF BuildInv, StopInv
<1> QED BY <1>4, <1>5, <1>6 DEF GatewayInv

\* A reload that is given up, or over.
LEMMA RestStep ==
    ASSUME GatewayInv, LimiterFails \/ EndReload
    PROVE  GatewayInv'
<1>1. reload' = Quiet /\ UNCHANGED <<heap, routes, loaded, req>>
  BY DEF LimiterFails, EndReload
<1>2. Len(heap) \in Nat /\ Len(loaded) \in Nat
  BY GatewayFacts DEF GatewayInv
<1>3. Grows(heap, loaded, reload.pc, heap', loaded', reload'.pc)
  BY <1>1, <1>2, QuietOK DEF Grows
<1>4. HandlersInv'
  BY <1>1, <1>3, HandlersKept
<1>5. ServedInv'
  BY <1>1, <1>3, WholeKept DEF GatewayInv, ServedInv
<1>6. GatewayTyped'
  <2>1. <<>> \in Seq(1..Len(heap))
    OBVIOUS
  <2> QED BY <1>1, <2>1, QuietOK DEF GatewayInv, GatewayTyped
<1>7. ObjectsInv' /\ BuildInv' /\ StopInv'
  BY <1>1, QuietOK DEF GatewayInv, ObjectsInv, BuildInv, StopInv
<1> QED BY <1>4, <1>5, <1>6, <1>7 DEF GatewayInv

\* A new configuration, of which nothing has been built.
LEMMA BeginReloadStep ==
    ASSUME GatewayInv, NEW c \in Configs, BeginReload(c)
    PROVE  GatewayInv'
<1> DEFINE u == [Quiet EXCEPT !.pc = "build", !.todo = c]
           g == Len(loaded) + 1
<1>1. /\ reload.pc = "idle" /\ loaded' = Append(loaded, c) /\ reload' = u
      /\ UNCHANGED <<heap, routes, req>>
  BY DEF BeginReload
<1>2. c \in Seq(RouteConfig) /\ Len(c) \in Nat
  BY GatewayAssumption
<1>3. /\ u.pc = "build" /\ u.todo = c /\ u.next = <<>> /\ u.old = <<>> /\ u \in ReloadType
  <2> DEFINE z == Quiet
  <2>1. z \in ReloadType /\ z.next = <<>> /\ z.old = <<>>
    BY QuietOK
  <2>2. u = [z EXCEPT !.pc = "build", !.todo = c]
    OBVIOUS
  <2> HIDE DEF z, u
  <2>3. /\ u.pc = "build" /\ u.todo = c /\ u.next = z.next /\ u.old = z.old
        /\ u \in ReloadType
    BY <1>2, <2>1, <2>2 DEF ReloadType
  <2> QED BY <2>1, <2>3
<1> HIDE DEF u
<1>4. /\ loaded' \in Seq(Configs) /\ Len(loaded') = g /\ Len(loaded) \in Nat
      /\ loaded'[g] = c /\ \A i \in 1..Len(loaded) : loaded'[i] = loaded[i]
  BY <1>1 DEF GatewayInv, GatewayTyped
<1>5. g \in Nat /\ g # 0 /\ Len(loaded) < g /\ \A i \in 1..Len(loaded) : i \in 1..g /\ i < g
  BY <1>4
<1>6. Len(heap) \in Nat
  BY GatewayFacts DEF GatewayInv
<1>7. Grows(heap, loaded, reload.pc, heap', loaded', reload'.pc)
  BY <1>1, <1>4, <1>5, <1>6 DEF Grows
<1>8. HandlersInv'
  BY <1>1, <1>7, HandlersKept
<1>9. ServedInv'
  BY <1>1, <1>7, WholeKept DEF GatewayInv, ServedInv
<1>10. <<>> \in Seq(1..Len(heap)) /\ Len(<<>>) = 0
  OBVIOUS
<1>11. GatewayTyped'
  BY <1>1, <1>3, <1>4, <1>10 DEF GatewayInv, GatewayTyped
<1>12. ASSUME NEW id \in 1..Len(heap)
       PROVE  /\ ObjectOK(heap[id], loaded)
              /\ heap[id].generation \in 1..g /\ heap[id].generation # g
  BY <1>5 DEF GatewayInv, ObjectsInv, ObjectOK
<1>13. ObjectsInv'
  BY <1>1, <1>4, <1>12 DEF ObjectsInv, ObjectOK
<1>14. BuildInv'
  <2> DEFINE e == <<>>
  <2>1. e \in Seq(1..Len(heap)) /\ Len(e) = 0
    BY <1>10
  <2>2. u.next = e
    BY <1>3
  <2> HIDE DEF e
  <2>3. \A i \in 1..Len(e) : FALSE
    BY <2>1
  <2>4. Lists(e, g, heap, loaded')
    BY <1>12, <2>1, <2>3 DEF Lists
  <2>5. Len(e) + Len(c) = Len(c) /\ \A i \in 1..Len(c) : Len(e) + i = i
    BY <1>2, <2>1
  <2> HIDE DEF g
  <2> QED BY <1>1, <1>3, <1>4, <1>5, <2>2, <2>3, <2>4, <2>5 DEF BuildInv
<1>15. StopInv'
  BY <1>1, <1>3 DEF StopInv
<1> QED BY <1>8, <1>9, <1>11, <1>13, <1>14, <1>15 DEF GatewayInv

\* The swap: next has become a whole configuration, newer than the one it replaces.
LEMMA SwapStep ==
    ASSUME GatewayInv, Swap
    PROVE  GatewayInv'
<1> DEFINE u == [reload EXCEPT !.pc = "stop", !.old = routes]
           g == Len(loaded)
           n == reload.next
<1>1. /\ reload.pc = "build" /\ reload.todo = <<>> /\ routes' = n /\ reload' = u
      /\ UNCHANGED <<heap, loaded, req>>
  BY DEF Swap
<1>2. /\ reload \in ReloadType /\ n \in Seq(1..Len(heap)) /\ routes \in Seq(1..Len(heap))
      /\ heap \in Seq(RouteType) /\ loaded \in Seq(Configs) /\ req \in [Reqs -> HandlerType]
  BY DEF GatewayInv, GatewayTyped
<1>3. Len(heap) \in Nat /\ g \in Nat
  BY <1>2
<1>4. routes \in Seq(Nat)
  <2>1. Len(routes) \in Nat /\ \A i \in 1..Len(routes) : routes[i] \in Nat
    BY <1>2
  <2>2. routes \in [1..Len(routes) -> Nat]
    BY <1>2, <2>1
  <2> QED BY <2>1, <2>2, SeqDef
<1>5. u.pc = "stop" /\ u.next = n /\ u.old = routes /\ u \in ReloadType
  BY <1>2, <1>4 DEF ReloadType
<1> HIDE DEF u
<1>6. /\ g # 0 /\ Lists(n, g, heap, loaded)
      /\ \A i \in 1..Len(n) : heap[n[i]].checker = "running"
      /\ Len(n) + Len(reload.todo) = Len(loaded[g])
  BY <1>1 DEF GatewayInv, BuildInv
<1>7. g \in 1..Len(loaded) /\ Len(n) = Len(loaded[g])
  <2>1. Len(n) \in Nat /\ Len(reload.todo) = 0
    BY <1>1, <1>2
  <2> QED BY <1>3, <1>6, <2>1
<1>8. Grows(heap, loaded, reload.pc, heap', loaded', reload'.pc)
  BY <1>1, <1>3, <1>5 DEF Grows
<1>9. HandlersInv'
  BY <1>1, <1>8, HandlersKept
<1>10. Sealed(g, loaded, "stop")
  BY DEF Sealed
<1>11. Whole(n, heap, loaded, "stop")
  BY <1>6, <1>7, <1>10 DEF Whole
<1> HIDE DEF g, n
<1>12. ServedInv'
  BY <1>1, <1>5, <1>6, <1>11 DEF ServedInv
<1>13. GatewayTyped'
  BY <1>1, <1>2, <1>5 DEF GatewayTyped
<1>14. ObjectsInv'
  BY <1>1 DEF GatewayInv, ObjectsInv
<1>15. BuildInv'
  BY <1>1, <1>5 DEF BuildInv
<1>16. StopInv'
  <2>1. \A i \in 1..Len(n) : heap[n[i]].generation = g
    BY <1>6 DEF Lists
  <2>2. PICK o \in 1..Len(loaded) :
            Lists(routes, o, heap, loaded) /\ Sealed(o, loaded, reload.pc)
    BY DEF GatewayInv, ServedInv, Whole
  <2>3. o < Len(loaded)
    BY <1>1, <2>2 DEF Sealed
  <2>4. \A i \in 1..Len(routes) : heap[routes[i]].generation < Len(loaded)
    BY <2>2, <2>3 DEF Lists
  <2> QED BY <1>1, <1>5, <2>1, <2>4 DEF StopInv, g
<1> QED BY <1>9, <1>12, <1>13, <1>14, <1>15, <1>16 DEF GatewayInv

\* The loop over the replaced routes stops no checker of a route that is served.
LEMMA StopOldStep ==
    ASSUME GatewayInv, StopOld
    PROVE  GatewayInv'
<1> DEFINE b == reload.old
           id == Head(b)
           o == heap[id]
           keep == o.prefix \in NewPrefixes
           x == IF keep THEN o ELSE Cancelled(o)
           u == [reload EXCEPT !.old = Tail(@)]
<1>1. /\ reload.pc = "stop" /\ b # <<>> /\ reload' = u /\ UNCHANGED <<routes, loaded, req>>
      /\ heap' = IF keep THEN heap ELSE [heap EXCEPT ![id] = Cancelled(@)]
  BY DEF StopOld
<1>2. /\ reload \in ReloadType /\ b \in Seq(1..Len(heap)) /\ b \in Seq(Nat)
      /\ heap \in Seq(RouteType) /\ req \in [Reqs -> HandlerType]
  BY DEF GatewayInv, GatewayTyped, ReloadType
<1>3. /\ \A i \in 1..Len(routes) : heap[routes[i]].generation = Len(loaded)
      /\ \A i \in 1..Len(b) : heap[b[i]].generation < Len(loaded)
  BY <1>1 DEF GatewayInv, StopInv
<1> HIDE DEF keep
<1>4. /\ Len(b) \in Nat \ {0} /\ id = b[1] /\ id \in 1..Len(heap)
      /\ Tail(b) \in Seq(1..Len(heap)) /\ Tail(b) \in Seq(Nat) /\ Len(Tail(b)) = Len(b) - 1
      /\ \A i \in 1..(Len(b) - 1) : Tail(b)[i] = b[i + 1]
  <2> HIDE DEF b
  <2> QED BY <1>1, <1>2
<1>5. u.pc = "stop" /\ u.next = reload.next /\ u.todo = reload.todo /\ u.old = Tail(b)
      /\ u \in ReloadType
  BY <1>1, <1>2, <1>4 DEF ReloadType
<1> HIDE DEF u
<1>6. \A i \in 1..Len(Tail(b)) : heap[Tail(b)[i]].generation < Len(loaded)
  <2>1. \A i \in 1..(Len(b) - 1) : i + 1 \in 1..Len(b)
    BY <1>4
  <2> QED BY <1>3, <1>4, <2>1
<1>7. o \in RouteType /\ ObjectOK(o, loaded)
  BY <1>2, <1>4 DEF GatewayInv, ObjectsInv
<1>8. \A i \in 1..Len(routes) : routes[i] # id
  <2>1. o.generation < Len(loaded) /\ o.generation \in Nat /\ Len(loaded) \in Nat
    <3>1. 1 \in 1..Len(b)
      BY <1>4
    <3>2. o.generation \in Nat
      BY <1>7 DEF RouteType
    <3>3. Len(loaded) \in Nat
      BY GatewayFacts DEF GatewayInv
    <3> QED BY <1>3, <1>4, <3>1, <3>2, <3>3
  <2>2. o.generation # Len(loaded)
    <3> HIDE DEF o
    <3> QED BY <2>1
  <2> QED BY <1>3, <2>2
<1> HIDE DEF b, id, o
<1>9. heap' = [heap EXCEPT ![id] = x]
  <2>1. CASE keep
    BY <1>1, <1>2, <1>4, <2>1 DEF o
  <2>2. CASE ~keep
    BY <1>1, <1>2, <1>4, <2>2 DEF o
  <2> QED BY <2>1, <2>2
<1>10. /\ x \in RouteType /\ x.prefix = o.prefix /\ x.generation = o.generation
       /\ x.checker = "running" => x.alive = TRUE /\ x.probe # "down"
  <2>1. CASE keep
    BY <1>7, <2>1 DEF ObjectOK
  <2>2. CASE ~keep
    <3> DEFINE v == IF o.checker = "gone" THEN o.checker ELSE "cancelled"
    <3>1. x = [o EXCEPT !.checker = v] /\ v \in {"cancelled", "gone"}
      BY <1>7, <2>2 DEF Cancelled, RouteType
    <3> HIDE DEF v, x
    <3>2. /\ x \in RouteType /\ x.prefix = o.prefix /\ x.generation = o.generation
          /\ x.checker = v
      BY <1>7, <3>1 DEF RouteType
    <3> QED BY <3>1, <3>2
  <2> QED BY <2>1, <2>2
<1>11. /\ reload' \in ReloadType /\ reload'.pc = reload.pc
       /\ reload'.next = reload.next /\ reload'.todo = reload.todo
       /\ reload'.old \in Seq(1..Len(heap))
       /\ \A i \in 1..Len(reload'.old) : heap[reload'.old[i]].generation < Len(loaded)
  BY <1>1, <1>4, <1>5, <1>6
<1>12. req' \in [Reqs -> HandlerType] /\ \A s \in Reqs : req'[s] = req[s]
  BY <1>1, <1>2
<1>13. x.prefix = heap[id].prefix /\ x.generation = heap[id].generation
  BY <1>10 DEF o
<1> HIDE DEF x
<1> QED BY <1>1, <1>4, <1>8, <1>9, <1>10, <1>11, <1>12, <1>13, TouchStep

-----------------------------------------------------------------------------
\* Hot reload: the theorems

LEMMA GatewayInit ==
    ASSUME Init
    PROVE  GatewayInv
<1>1. PICK c \in Configs :
         /\ \A i \in DOMAIN c : c[i].limiterOk
         /\ heap = [i \in DOMAIN c |-> NewRoute(c[i], 1)]
         /\ routes = [i \in DOMAIN c |-> i]
         /\ reload = Quiet
         /\ loaded = <<c>>
         /\ req = [r \in Reqs |-> Waiting]
  BY DEF Init
<1>2. /\ c \in Seq(RouteConfig) /\ Len(c) \in Nat /\ DOMAIN c = 1..Len(c)
      /\ \A i \in 1..Len(c) : c[i] \in RouteConfig
  BY GatewayAssumption
<1>3. loaded \in Seq(Configs) /\ Len(loaded) = 1 /\ loaded[1] = c
  BY <1>1
<1>4. \A i \in 1..Len(c) :
         /\ heap[i] \in RouteType /\ heap[i].prefix = c[i].prefix /\ heap[i].generation = 1
         /\ heap[i].alive = TRUE /\ heap[i].checker = "running" /\ heap[i].probe = "sent"
  <2> SUFFICES ASSUME NEW i \in 1..Len(c)
               PROVE  /\ heap[i] \in RouteType /\ heap[i].prefix = c[i].prefix
                      /\ heap[i].generation = 1 /\ heap[i].alive = TRUE
                      /\ heap[i].checker = "running" /\ heap[i].probe = "sent"
    OBVIOUS
  <2>1. heap[i] = NewRoute(c[i], 1)
    BY <1>1, <1>2
  <2>2. c[i] \in RouteConfig /\ 1 \in Nat
    BY <1>2
  <2>3. LET x == NewRoute(c[i], 1) IN
        /\ x \in RouteType /\ x.prefix = c[i].prefix /\ x.generation = 1
        /\ x.alive = TRUE /\ x.checker = "running" /\ x.probe = "sent"
    BY <2>2, NewRouteOK
  <2> QED BY <2>1, <2>3
<1>5. heap \in Seq(RouteType) /\ Len(heap) = Len(c)
  <2>1. heap \in [1..Len(c) -> RouteType]
    BY <1>1, <1>2, <1>4
  <2>2. heap \in Seq(RouteType)
    BY <1>2, <2>1, SeqDef
  <2> QED BY <1>2, <2>1, <2>2, LenProperties
<1>6. /\ routes \in Seq(1..Len(heap)) /\ Len(routes) = Len(c)
      /\ \A i \in 1..Len(c) : routes[i] = i
  <2>1. routes \in [1..Len(c) -> 1..Len(heap)] /\ \A i \in 1..Len(c) : routes[i] = i
    BY <1>1, <1>2, <1>5
  <2>2. routes \in Seq(1..Len(heap))
    BY <1>2, <2>1, SeqDef
  <2> QED BY <1>2, <2>1, <2>2, LenProperties
<1>7. GatewayTyped
  <2>1. <<>> \in Seq(1..Len(heap))
    OBVIOUS
  <2>2. req \in [Reqs -> HandlerType]
    BY <1>1, WaitingOK
  <2> QED BY <1>1, <1>3, <1>5, <1>6, <2>1, <2>2, QuietOK DEF GatewayTyped
<1>8. ObjectsInv
  BY <1>3, <1>4, <1>5 DEF ObjectsInv, ObjectOK
<1>9. HandlersInv
  BY <1>1, WaitingOK DEF HandlersInv
<1>10. ServedInv
  <2>1. Lists(routes, 1, heap, loaded)
    <3>1. \A i \in 1..Len(c) : /\ heap[routes[i]].generation = 1
                               /\ heap[routes[i]].prefix = loaded[1][i].prefix
      BY <1>3, <1>4, <1>6
    <3>2. \A i, j \in 1..Len(c) : i < j => routes[i] < routes[j]
      BY <1>6
    <3> QED BY <1>5, <1>6, <3>1, <3>2 DEF Lists
  <2>2. Sealed(1, loaded, reload.pc)
    BY <1>1, QuietOK DEF Sealed
  <2>3. 1 \in 1..Len(loaded) /\ Len(routes) = Len(loaded[1])
    BY <1>3, <1>6
  <2>4. Whole(routes, heap, loaded, reload.pc)
    BY <2>1, <2>2, <2>3 DEF Whole
  <2> QED BY <1>4, <1>6, <2>4 DEF ServedInv
<1>11. BuildInv /\ StopInv
  BY <1>1, QuietOK DEF BuildInv, StopInv
<1> QED BY <1>7, <1>8, <1>9, <1>10, <1>11 DEF GatewayInv

LEMMA GatewayNext ==
    ASSUME GatewayInv, [Next]_vars
    PROVE  GatewayInv'
<1>1. ASSUME NEW c \in Configs, BeginReload(c) PROVE GatewayInv'
  BY <1>1, BeginReloadStep
<1>2. CASE Reload
  BY <1>2, BuildRouteStep, AuthFailsStep, RestStep, SwapStep, StopOldStep DEF Reload
<1>3. ASSUME NEW r \in Reqs, Handle(r) PROVE GatewayInv'
  BY <1>3, SnapshotStep, ConsiderStep, DispatchStep, OtherHandlerSteps, CompleteStep DEF Handle
<1>4. ASSUME NEW id \in DOMAIN heap, Check(id) PROVE GatewayInv'
  <2>1. id \in 1..Len(heap)
    BY GatewayFacts DEF GatewayInv
  <2> QED BY <1>4, <2>1, CheckStep
<1>5. CASE UNCHANGED vars
  BY <1>5 DEF vars, GatewayInv, GatewayTyped, ObjectsInv, HandlersInv, ServedInv, BuildInv, StopInv
<1> QED BY <1>1, <1>2, <1>3, <1>4, <1>5 DEF Next

\* The inductive invariant of hot reload holds throughout.
LEMMA GatewayInvariant == Spec => []GatewayInv
<1>1. Init => GatewayInv
  BY GatewayInit
<1>2. GatewayInv /\ [Next]_vars => GatewayInv'
  BY GatewayNext
<1> QED BY <1>1, <1>2, PTL DEF Spec

\* Whatever is loaded, and however probes, requests and reloads interleave, every
\* route in service has a running checker and a live backend (Reload, lines 64-86).
THEOREM ServedHealthyTheorem == Spec => []ServedRoutesHealthy
<1>1. GatewayInv => ServedRoutesHealthy
  <2> SUFFICES ASSUME GatewayInv, NEW id \in ToSet(routes)
               PROVE  heap[id].checker = "running" /\ heap[id].alive
    BY DEF ServedRoutesHealthy
  <2>1. DOMAIN routes = 1..Len(routes) /\ \A i \in 1..Len(routes) : routes[i] \in 1..Len(heap)
    BY DEF GatewayInv, GatewayTyped
  <2>2. PICK i \in 1..Len(routes) : routes[i] = id
    BY <2>1 DEF ToSet
  <2>3. heap[id].checker = "running" /\ ObjectOK(heap[id], loaded)
    BY <2>1, <2>2 DEF GatewayInv, ServedInv, ObjectsInv
  <2> QED BY <2>3 DEF ObjectOK
<1> QED BY <1>1, GatewayInvariant, PTL

\* A request is on the first of the longest matching routes of the configuration it
\* has seen, for every set of configurations and paths, although the routes it loops
\* over may be replaced and stopped meanwhile (ServeHTTP, lines 88-110).
THEOREM LongestTheorem == Spec => []RoutedToLongest
<1>1. GatewayInv => RoutedToLongest
  <2> SUFFICES ASSUME GatewayInv, NEW r \in Reqs, req[r].pc \in {"matched", "proxy"}
               PROVE  LET mine == req[r].route
                          rivals == {id \in DOMAIN heap :
                                       /\ heap[id].generation = heap[mine].generation
                                       /\ IsPrefix(heap[id].prefix, req[r].path)}
                      IN  /\ mine \in rivals
                          /\ \A id \in rivals \ {mine} :
                                \/ Len(heap[id].prefix) < Len(heap[mine].prefix)
                                \/ Len(heap[id].prefix) = Len(heap[mine].prefix) /\ mine < id
    BY DEF RoutedToLongest
  <2>1. req[r].route \in 1..Len(heap) /\ Longest(req[r], heap)
    BY DEF GatewayInv, HandlersInv, HandlerOK
  <2>2. DOMAIN heap = 1..Len(heap)
    BY DEF GatewayInv, GatewayTyped
  <2> QED BY <2>1, <2>2 DEF Longest, Ahead
<1> QED BY <1>1, GatewayInvariant, PTL

\* What is served is one whole configuration at every moment of every reload, also
\* of one that fails halfway (buildRoutes, lines 174-184; the swap, lines 70-73).
THEOREM OneConfigTheorem == Spec => []ServesOneConfig
<1>1. GatewayInv => ServesOneConfig
  <2> SUFFICES ASSUME GatewayInv, routes # <<>>
               PROVE  LET g == heap[routes[1]].generation
                      IN  /\ Len(routes) = Len(loaded[g])
                          /\ \A i \in DOMAIN routes :
                                /\ heap[routes[i]].generation = g
                                /\ heap[routes[i]].prefix = loaded[g][i].prefix
    BY DEF ServesOneConfig
  <2>1. PICK g \in 1..Len(loaded) :
            Lists(routes, g, heap, loaded) /\ Len(routes) = Len(loaded[g])
    BY DEF GatewayInv, ServedInv, Whole
  <2>2. routes \in Seq(1..Len(heap))
    BY DEF GatewayInv, GatewayTyped
  <2>3. DOMAIN routes = 1..Len(routes) /\ 1 \in 1..Len(routes)
    BY <2>2
  <2> QED BY <2>1, <2>3 DEF Lists
<1> QED BY <1>1, GatewayInvariant, PTL
=============================================================================
