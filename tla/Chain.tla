-------------------------------- MODULE Chain --------------------------------
(***************************************************************************)
(* The middleware around serveProxy: Recovery, RequestID, Tracing, Logger, *)
(* Metrics, Auth, from the outside in, for concurrent requests that have   *)
(* matched a route (the 404 for the others is given outside the chain),    *)
(* with what they share: the trace store and the span exporter. A layer    *)
(* acts after the next one has returned, and a panic passes all of them up *)
(* to Recovery.                                                            *)
(*                                                                         *)
(* serveProxy is reduced to how it answers: it writes a status of its own, *)
(* it copies an upstream answer, which may break off, or it panics before  *)
(* it has written anything (a limiter's index).                            *)
(***************************************************************************)
EXTENDS SpanExporter, FiniteSets, SequencesExt

CONSTANTS
    Reqs,      \* requests, each served once
    Unlucky,   \* those that sampling may leave out
    Tracings,  \* "off", "store" (Tracing), "export" (NewTracingMiddleware)
    MaxSpans   \* TraceStore.max

ASSUME ChainAssumption ==
    /\ Tracings \subseteq {"off", "store", "export"}
    /\ MaxSpans \in Nat \ {0}

VARIABLES
    tracing,  \* the tracing layer of the route
    req,      \* the requests: where they are, what was recorded, the answer
    spans,    \* TraceStore.spans: requests and their status
    added     \* history: everything added to the store

chainVars == <<tracing, req, spans, added>>
vars == <<chainVars, exporterVars>>

\* Statuses. None: nothing has been written; Early: a 1xx before the answer; Own:
\* a refusal by the gateway itself (401, 429, 502 or 503).
None == 0
Early == 103
Own == 503

\* status: captureStatus.status of the wrappers; counted, logged: the status that
\* Metrics and Logger have recorded for the request; sent: the status line that has
\* been written. What the client has of the body is left out.
RequestType ==
    [pc : {"new", "core", "metrics", "log", "trace", "export", "finish", "panic", "done"},
     sampled : BOOLEAN, status : Nat, counted : Nat, logged : Nat, sent : Nat]

New == [pc |-> "new", sampled |-> FALSE, status |-> 200, counted |-> None,
        logged |-> None, sent |-> None]

TypeOK ==
    /\ tracing \in {"off", "store", "export"}
    /\ req \in [Reqs -> RequestType]
    /\ {spans, added} \subseteq Seq([req : Reqs, status : Nat])

Init ==
    /\ ExporterInit
    /\ tracing \in Tracings
    /\ req = [r \in Reqs |-> New]
    /\ spans = <<>>
    /\ added = <<>>

-----------------------------------------------------------------------------
\* The way in

\* Mutant of WriteHeader: a wrapper keeps the first status.
WriteHeaderFirst(q, code) ==
    [q EXCEPT !.status = IF q.status = 200 THEN code ELSE @,
              !.sent = IF @ = None /\ code # Early THEN code ELSE @]

\* WriteHeader through the wrappers: each keeps the last status, the server sends
\* the first one that is not 1xx.
WriteHeader(q, code) ==
    [q EXCEPT !.status = code,
              !.sent = IF @ = None /\ code # Early THEN code ELSE @]

\* RequestID, Tracing, Logger and Metrics make their wrappers and call next;
\* NewTracingMiddleware samples.
Sampled(r) ==
    CASE tracing = "off"    -> {FALSE}
      [] tracing = "store"  -> {TRUE}
      [] tracing = "export" -> {TRUE} \cup {r \notin Unlucky}

\* Without auth, with a path that is skipped or a token that is valid, the request
\* reaches serveProxy.
Enter(r) ==
    /\ req[r].pc = "new"
    /\ \E s \in Sampled(r) : req' = [req EXCEPT ![r].pc = "core", ![r].sampled = s]
    /\ UNCHANGED <<tracing, spans, added, exporterVars>>

\* The handler of Auth answers 401.
Unauthorized(r) ==
    /\ req[r].pc = "new"
    /\ \E s \in Sampled(r) :
          req' = [req EXCEPT ![r] = [WriteHeader(@, Own) EXCEPT !.pc = "metrics", !.sampled = s]]
    /\ UNCHANGED <<tracing, spans, added, exporterVars>>

-----------------------------------------------------------------------------
\* serveProxy

\* The reverse proxy passes on an informational answer.
Inform(r) ==
    /\ req[r].pc = "core"
    /\ req' = [req EXCEPT ![r] = WriteHeader(@, Early)]
    /\ UNCHANGED <<tracing, spans, added, exporterVars>>

\* serveProxy answers by itself: 429, 502 or 503.
Refuse(r) ==
    /\ req[r].pc = "core"
    /\ req' = [req EXCEPT ![r] = [WriteHeader(@, Own) EXCEPT !.pc = "metrics"]]
    /\ UNCHANGED <<tracing, spans, added, exporterVars>>

\* The upstream's status, headers and body are passed on.
Forward(r) ==
    /\ req[r].pc = "core"
    /\ req' = [req EXCEPT ![r] = [WriteHeader(@, 200) EXCEPT !.pc = "metrics"]]
    /\ UNCHANGED <<tracing, spans, added, exporterVars>>

\* The body breaks off: the reverse proxy panics with ErrAbortHandler.
Abort(r) ==
    /\ req[r].pc = "core"
    /\ req' = [req EXCEPT ![r] = [WriteHeader(@, 200) EXCEPT !.pc = "panic"]]
    /\ UNCHANGED <<tracing, spans, added, exporterVars>>

\* A limiter panics before anything is written.
Panic(r) ==
    /\ req[r].pc = "core"
    /\ req[r].status # Early
    /\ req' = [req EXCEPT ![r].pc = "panic"]
    /\ UNCHANGED <<tracing, spans, added, exporterVars>>

-----------------------------------------------------------------------------
\* The way out

Count(r) ==
    /\ req[r].pc = "metrics"
    /\ req' = [req EXCEPT ![r].pc = "log", ![r].counted = req[r].status]
    /\ UNCHANGED <<tracing, spans, added, exporterVars>>

Log(r) ==
    /\ req[r].pc = "log"
    /\ req' = [req EXCEPT ![r].pc = IF req[r].sampled THEN "trace" ELSE "finish",
                          ![r].logged = req[r].status]
    /\ UNCHANGED <<tracing, spans, added, exporterVars>>

\* Mutant of Add: the store is allowed to exceed its size by one.
AddAfterFull(seq, s) == Append(IF Len(seq) > MaxSpans THEN Tail(seq) ELSE seq, s)

\* TraceStore.Add
Add(seq, s) == Append(IF Len(seq) >= MaxSpans THEN Tail(seq) ELSE seq, s)

Trace(r) ==
    LET s == [req |-> r, status |-> req[r].status]
    IN  /\ req[r].pc = "trace"
        /\ spans' = Add(spans, s)
        /\ added' = Append(added, s)
        /\ req' = [req EXCEPT ![r].pc = IF tracing = "export" THEN "export" ELSE "finish"]
        /\ UNCHANGED <<tracing, exporterVars>>

\* exp.record
Export(r) ==
    /\ req[r].pc = "export"
    /\ RecordSpan(r)
    /\ req' = [req EXCEPT ![r].pc = "finish"]
    /\ UNCHANGED <<tracing, spans, added>>

\* exp.record after Stop: a send on a closed channel.
ExportClosed(r) ==
    /\ req[r].pc = "export"
    /\ closed
    /\ req' = [req EXCEPT ![r].pc = "panic"]
    /\ UNCHANGED <<tracing, spans, added, exporterVars>>

\* When the handler returns, only the answer is of interest.
Answered(q) == [New EXCEPT !.pc = "done", !.sent = q.sent]

\* http.Error with 500 in Recovery. If an answer is under way, its status stays (and
\* the text goes behind what there is of the body).
Recover(r) ==
    /\ req[r].pc = "panic"
    /\ req' = [req EXCEPT ![r] = Answered(WriteHeader(@, 500))]
    /\ UNCHANGED <<tracing, spans, added, exporterVars>>

\* Recovery's deferred function finds no panic.
Finish(r) ==
    /\ req[r].pc = "finish"
    /\ req' = [req EXCEPT ![r] = Answered(@)]
    /\ UNCHANGED <<tracing, spans, added, exporterVars>>

Serve(r) ==
    \/ Enter(r) \/ Unauthorized(r)
    \/ Inform(r) \/ Refuse(r) \/ Forward(r) \/ Abort(r) \/ Panic(r)
    \/ Count(r) \/ Log(r) \/ Trace(r) \/ Export(r) \/ ExportClosed(r)
    \/ Recover(r) \/ Finish(r)

\* There is an exporter only with NewTracingMiddleware; its owner calls Stop.
Exporter ==
    /\ tracing = "export"
    /\ Loop \/ Close \/ Stop
    /\ UNCHANGED chainVars

Next == (\E r \in Reqs : Serve(r)) \/ Exporter

Spec == Init /\ [][Next]_vars

FairSpec == Spec /\ ExporterFairness

-----------------------------------------------------------------------------
\* docs/architecture.md line 42, "records ... after the response is written, so it
\* always includes the final status code": what Metrics, Logger and Tracing have
\* recorded is the status that the client got, through 1xx answers and panics;
\* a request that ended without a panic is in all of them. (Of the requests that
\* reach a route: the 404 of gateway.go lines 104-107 is given outside the chain,
\* and nothing records it.)
FinalStatusRecorded ==
    /\ \A r \in Reqs : {req[r].counted, req[r].logged} \subseteq {None, req[r].sent}
    /\ \A r \in Reqs : req[r].pc \in {"trace", "export", "finish"} =>
          None \notin {req[r].counted, req[r].logged}
    /\ \A i \in DOMAIN added : added[i].status = req[added[i].req].sent

\* The store holds the last MaxSpans spans in the order in which they were added,
\* whatever requests overlap (tracing.go lines 51-58).
RecentSpans ==
    spans = SubSeq(added, IF Len(added) > MaxSpans THEN Len(added) - MaxSpans + 1 ELSE 1,
                   Len(added))

Box == INSTANCE Outbox WITH Spans <- Reqs

\* tracing.go line 156, "Stop drains remaining spans", and what stands behind it:
\* accepted spans are sent in order, each once and none held back for ever, full
\* batch or not, and Stop returns when all have been sent (lines 101-160).
StopDrains == Box!Spec

\* middleware.go line 84, "catches panics and returns 500": a request that panicked
\* is answered 500. It does not hold when an answer is already under way (line 88).
PanicsAnswered500 == [][\A r \in Reqs : Recover(r) => req'[r].sent = 500]_vars
=============================================================================
