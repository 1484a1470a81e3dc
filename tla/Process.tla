------------------------------- MODULE Process -------------------------------
(***************************************************************************)
(* The life of the process: the proxy server and the admin server, the     *)
(* configuration watcher beside them, and the graceful shutdown on a       *)
(* signal. main shuts the admin server down and then the proxy server,     *)
(* which accepts requests until its turn comes; one context limits both.   *)
(* A server that fails ends the process at once (Fatalw).                  *)
(*                                                                         *)
(* Shutdown of net/http, modelled from its use: it closes the listener,    *)
(* waits until no request is active, and gives up when the context is      *)
(* done. The timeouts of the admin server end each of its requests within  *)
(* ReadTimeout + WriteTimeout; a proxied request may take for ever. A      *)
(* second signal stays in the channel quit and changes nothing.            *)
(***************************************************************************)
EXTENDS ConfigWatcher

CONSTANTS
    ProxyReqs,    \* clients of the proxy server, with one request at a time
    AdminReqs,    \* clients of the admin server
    Grace,        \* the timeout of the context (30 s), in ticks
    AdminTimeout  \* ReadTimeout + WriteTimeout of the admin server (15 s)

ASSUME ProcessAssumption ==
    /\ Grace \in Nat \ {0}
    /\ AdminTimeout \in 0..Grace

VARIABLES
    main,      \* where the main goroutine is
    active,    \* clients with a request in the proxy server
    admin,     \* what is left of the timeouts of the admin requests under way
    left,      \* what is left of the context's timeout
    draining,  \* history: ticks since the proxy server's listener was closed
    failed,    \* a server has failed
    cut        \* history: the requests that were under way when the process ended

processVars == <<main, active, admin, left, draining, failed, cut>>
allVars == <<watcherVars, processVars>>

Phases == {"serving", "admin", "proxy", "close", "return", "exited"}

\* The servers' listeners.
AdminListens == main = "serving"
ProxyListens == main \in {"serving", "admin"}
Running == main # "exited"

ProcessTypeOK ==
    /\ WatcherTypeOK
    /\ main \in Phases
    /\ active \subseteq ProxyReqs
    /\ \E A \in SUBSET AdminReqs : admin \in [A -> 0..AdminTimeout]
    /\ left \in 0..Grace
    /\ draining \in 0..Grace
    /\ failed \in BOOLEAN
    /\ cut \subseteq ProxyReqs

ProcessInit ==
    /\ WatcherInit
    /\ main = "serving"
    /\ active = {}
    /\ admin = [a \in {} |-> 0]
    /\ left = Grace
    /\ draining = 0
    /\ failed = FALSE
    /\ cut = {}

-----------------------------------------------------------------------------
\* The servers

Accept(r) ==
    /\ ProxyListens
    /\ r \notin active
    /\ active' = active \cup {r}
    /\ UNCHANGED <<watcherVars, main, admin, left, draining, failed, cut>>

Finish(r) ==
    /\ Running
    /\ r \in active
    /\ active' = active \ {r}
    /\ UNCHANGED <<watcherVars, main, admin, left, draining, failed, cut>>

AdminAccept(a) ==
    /\ AdminListens
    /\ a \notin DOMAIN admin
    /\ admin' = [b \in DOMAIN admin \cup {a} |-> IF b = a THEN AdminTimeout ELSE admin[b]]
    /\ UNCHANGED <<watcherVars, main, active, left, draining, failed, cut>>

AdminFinish(a) ==
    /\ Running
    /\ a \in DOMAIN admin
    /\ admin' = [b \in DOMAIN admin \ {a} |-> admin[b]]
    /\ UNCHANGED <<watcherVars, main, active, left, draining, failed, cut>>

\* ListenAndServe returns an error that is not ErrServerClosed: os.Exit, without
\* the deferred calls.
ServerFails ==
    /\ AdminListens \/ ProxyListens
    /\ failed' = TRUE
    /\ main' = "exited"
    /\ cut' = active
    /\ UNCHANGED <<watcherVars, active, admin, left, draining>>

-----------------------------------------------------------------------------
\* The main goroutine

\* <-quit, the context, and adminSrv.Shutdown up to its wait.
Signal ==
    /\ main = "serving"
    /\ main' = "admin"
    /\ UNCHANGED <<watcherVars, active, admin, left, draining, failed, cut>>

\* adminSrv.Shutdown returns, its error is ignored; mainSrv.Shutdown begins.
AdminDown ==
    /\ main = "admin"
    /\ DOMAIN admin = {} \/ left = 0
    /\ main' = "proxy"
    /\ UNCHANGED <<watcherVars, active, admin, left, draining, failed, cut>>

\* Mutant of ProxyDown: Close in place of Shutdown.
ProxyDownAtOnce ==
    /\ main = "proxy"
    /\ main' = "close"
    /\ UNCHANGED <<watcherVars, active, admin, left, draining, failed, cut>>

\* Mutant of ProxyDown: a context without a deadline.
ProxyDownUnlimited ==
    /\ main = "proxy"
    /\ active = {}
    /\ main' = "close"
    /\ UNCHANGED <<watcherVars, active, admin, left, draining, failed, cut>>

\* mainSrv.Shutdown returns, with or without an error.
ProxyDown ==
    /\ main = "proxy"
    /\ active = {} \/ left = 0
    /\ main' = "close"
    /\ UNCHANGED <<watcherVars, active, admin, left, draining, failed, cut>>

\* The deferred watcher.Close.
Close ==
    /\ main = "close"
    /\ CloseWatcher
    /\ main' = "return"
    /\ UNCHANGED <<active, admin, left, draining, failed, cut>>

\* main returns: requests that are still under way end with the process.
MainReturns ==
    /\ main = "return"
    /\ main' = "exited"
    /\ cut' = active
    /\ UNCHANGED <<watcherVars, active, admin, left, draining, failed>>

\* Time passes; the timeouts of admin requests are kept, and Shutdown looks for
\* active requests more than once in a tick.
Tick ==
    /\ Running
    /\ left > 0
    /\ ~(main = "admin" /\ DOMAIN admin = {})
    /\ \A a \in DOMAIN admin : admin[a] > 0
    /\ admin' = [a \in DOMAIN admin |-> admin[a] - 1]
    /\ left' = IF main = "serving" THEN left ELSE left - 1
    /\ draining' = IF ProxyListens THEN 0 ELSE draining + 1
    /\ UNCHANGED <<watcherVars, main, active, failed, cut>>

Shutdown == Signal \/ AdminDown \/ ProxyDown \/ Close \/ MainReturns

\* The watcher's goroutines end with the process.
Watching == Running /\ Watch /\ UNCHANGED processVars

ProcessNext ==
    \/ \E r \in ProxyReqs : Accept(r) \/ Finish(r)
    \/ \E a \in AdminReqs : AdminAccept(a) \/ AdminFinish(a)
    \/ ServerFails \/ Shutdown \/ Tick \/ Watching

ProcessSpec == ProcessInit /\ [][ProcessNext]_allVars

\* Time passes, admin requests end by their timeouts, and the goroutines of main
\* and of the watcher run when they can. No client has to finish a request, no
\* signal has to come, and nobody has to save.
Fairness ==
    /\ WF_allVars(Tick)
    /\ \A a \in AdminReqs : WF_allVars(AdminFinish(a) /\ admin[a] = 0)
    /\ WF_allVars(AdminDown) /\ WF_allVars(ProxyDown)
    /\ WF_allVars(Close) /\ WF_allVars(MainReturns)
    /\ WF_allVars(Running /\ Notice /\ UNCHANGED processVars)
    /\ WF_allVars(Running /\ Fire /\ UNCHANGED processVars)
    /\ WF_allVars(Running /\ Receive /\ UNCHANGED processVars)
    /\ WF_allVars(Running /\ Apply /\ UNCHANGED processVars)

FairSpec == ProcessSpec /\ Fairness

-----------------------------------------------------------------------------
\* README line 29, "drains in-flight requests on SIGTERM", with the limits that the
\* code sets: short of a server's failure, a request is cut off only when the
\* whole time after the signal has passed, and although the admin server drains
\* first and the proxy server accepts meanwhile, every request has what the admin
\* server's timeouts leave of that time after the last one was accepted (main.go
\* lines 91-135).
DrainedOrExpired ==
    cut # {} /\ ~failed => left = 0 /\ draining >= Grace - AdminTimeout

\* A signal ends the process, whatever clients do: requests that never finish, on
\* either server, do not hold it up (main.go lines 122-135).
SignalStops == main = "admin" ~> main = "exited"

\* When the operator stops editing with a good file, the gateway ends up serving
\* it, after any burst of saves and any number of broken or refused versions, as
\* long as the process runs, the watched file is the one at the path, and the last
\* load was not dropped because an older one was still in the channel (LoadAndWatch,
\* lines 160-193; main.go lines 72-80).
AppliedUnlessDropped ==
    \A v \in (0..MaxSaves) \ Refused :
        <>[](disk = v /\ watched /\ ~dropped /\ main = "serving") => <>[](applied = v)
=============================================================================
