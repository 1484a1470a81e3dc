----------------------------- MODULE SpanExporter -----------------------------
(***************************************************************************)
(* spanExporter: handlers record spans in a channel without waiting, one   *)
(* goroutine collects them in a batch and posts it when it is full or when *)
(* its ticker fires; Stop closes the channel and waits for the goroutine.  *)
(* A span is the request it is about.                                      *)
(***************************************************************************)
EXTENDS Naturals, Sequences

CONSTANTS
    ChannelSize,  \* capacity of the channel (2048)
    BatchSize     \* spans in a full batch (100)

ASSUME ExporterAssumption == ChannelSize \in Nat /\ BatchSize \in Nat \ {0}

VARIABLES
    ch,         \* the channel
    batch,      \* the goroutine's local
    loop,       \* the goroutine: selecting, sending, sending the rest, returned
    closed,     \* the channel is closed
    stopped,    \* Stop has returned
    accepted,   \* history: spans that were put into the channel
    handed      \* history: spans of the batches that were sent

exporterVars == <<ch, batch, loop, closed, stopped, accepted, handed>>

ExporterInit ==
    /\ ch = <<>>
    /\ batch = <<>>
    /\ loop = "select"
    /\ closed = FALSE
    /\ stopped = FALSE
    /\ accepted = <<>>
    /\ handed = <<>>

\* record on an open channel: a non-blocking send. On a closed one it panics.
RecordSpan(s) ==
    /\ ~closed
    /\ ch' = IF Len(ch) < ChannelSize THEN Append(ch, s) ELSE ch
    /\ accepted' = IF Len(ch) < ChannelSize THEN Append(accepted, s) ELSE accepted
    /\ UNCHANGED <<batch, loop, closed, stopped, handed>>

\* case s, ok := <-e.ch
Receive ==
    /\ loop = "select"
    /\ ch # <<>>
    /\ batch' = Append(batch, Head(ch))
    /\ ch' = Tail(ch)
    /\ loop' = IF Len(batch') >= BatchSize THEN "send" ELSE "select"
    /\ UNCHANGED <<closed, stopped, accepted, handed>>

\* case <-ticker.C, with something to send.
Flush ==
    /\ loop = "select"
    /\ batch # <<>>
    /\ loop' = "send"
    /\ UNCHANGED <<ch, batch, closed, stopped, accepted, handed>>

\* send returns. Whether the collector has the batch, or an error or the 3 s
\* timeout has lost it, makes no difference here.
Send ==
    /\ loop \in {"send", "rest"}
    /\ loop' = IF loop = "send" THEN "select" ELSE "returned"
    /\ handed' = handed \o batch
    /\ batch' = <<>>
    /\ UNCHANGED <<ch, closed, stopped, accepted>>

\* Mutant of ReceiveClosed: the rest of the batch is forgotten.
ReceiveClosedReturn ==
    /\ loop = "select"
    /\ closed
    /\ ch = <<>>
    /\ loop' = "returned"
    /\ UNCHANGED <<ch, batch, closed, stopped, accepted, handed>>

\* The channel is closed and empty: !ok.
ReceiveClosed ==
    /\ loop = "select"
    /\ closed
    /\ ch = <<>>
    /\ loop' = IF batch # <<>> THEN "rest" ELSE "returned"
    /\ UNCHANGED <<ch, batch, closed, stopped, accepted, handed>>

\* Stop: close, and then wg.Wait. It is called once.
Close ==
    /\ ~closed
    /\ closed' = TRUE
    /\ UNCHANGED <<ch, batch, loop, stopped, accepted, handed>>

Stop ==
    /\ closed
    /\ ~stopped
    /\ loop = "returned"
    /\ stopped' = TRUE
    /\ UNCHANGED <<ch, batch, loop, closed, accepted, handed>>

Loop == Receive \/ Flush \/ Send \/ ReceiveClosed

\* The goroutine runs until the channel is closed: its ticker fires, a send ends
\* within 3 s, and select serves what is ready. Whether Stop is called is open.
ExporterFairness ==
    /\ WF_exporterVars(Receive) /\ WF_exporterVars(Flush) /\ WF_exporterVars(Send)
    /\ WF_exporterVars(ReceiveClosed) /\ WF_exporterVars(Stop)
=============================================================================
