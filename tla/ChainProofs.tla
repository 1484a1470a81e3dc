----------------------------- MODULE ChainProofs ------------------------------
(***************************************************************************)
(* The trace store and the span exporter, for any number of requests, any  *)
(* capacity of the store, the channel and the batches: the store holds the *)
(* last spans, and the exporter does what Outbox promises.                 *)
(***************************************************************************)
EXTENDS Chain, SequenceTheorems, TLAPS

Span == [req : Reqs, status : Nat]

-----------------------------------------------------------------------------
\* The trace store

\* What a sequence must satisfy to be the last MaxSpans entries of another.
IsTail(s, t) ==
    /\ Len(s) = IF Len(t) > MaxSpans THEN MaxSpans ELSE Len(t)
    /\ \A i \in 1..Len(s) : s[i] = t[(Len(t) - Len(s)) + i]

StoreInv ==
    /\ spans \in Seq(Span)
    /\ added \in Seq(Span)
    /\ IsTail(spans, added)

\* Add keeps the last ones.
LEMMA AddEffect ==
    ASSUME NEW S, NEW s \in Seq(S), NEW t \in Seq(S), NEW e \in S, IsTail(s, t)
    PROVE  Add(s, e) \in Seq(S) /\ IsTail(Add(s, e), Append(t, e))
<1> DEFINE u == Append(t, e)
<1>1. MaxSpans \in Nat /\ MaxSpans > 0
  BY ChainAssumption
<1>2. Len(s) \in Nat /\ Len(t) \in Nat
  OBVIOUS
<1>3. /\ u \in Seq(S) /\ Len(u) = Len(t) + 1
      /\ \A i \in 1..Len(t) : u[i] = t[i]
      /\ u[Len(t) + 1] = e
  OBVIOUS
<1>4. CASE Len(s) >= MaxSpans
  <2> DEFINE v == Append(Tail(s), e)
  <2>1. Add(s, e) = v
    BY <1>4 DEF Add
  <2>2. Len(s) = MaxSpans /\ Len(t) >= MaxSpans
    BY <1>1, <1>2, <1>4 DEF IsTail
  <2>3. s # <<>> /\ Tail(s) \in Seq(S) /\ Len(Tail(s)) = MaxSpans - 1
        /\ \A i \in 1..(MaxSpans - 1) : Tail(s)[i] = s[i + 1]
    BY <1>1, <2>2
  <2>4. /\ v \in Seq(S) /\ Len(v) = MaxSpans
        /\ \A i \in 1..(MaxSpans - 1) : v[i] = s[i + 1]
        /\ v[MaxSpans] = e
    BY <1>1, <2>3
  <2> HIDE DEF v, u
  <2>5. \A i \in 1..MaxSpans : v[i] = u[(Len(u) - MaxSpans) + i]
    <3> TAKE i \in 1..MaxSpans
    <3>1. CASE i = MaxSpans
      BY <3>1, <1>1, <1>2, <1>3, <2>4
    <3>2. CASE i # MaxSpans
      <4>1. i \in 1..(MaxSpans - 1) /\ i + 1 \in 1..Len(s)
            /\ (Len(u) - MaxSpans) + i \in 1..Len(t)
            /\ (Len(t) - Len(s)) + (i + 1) = (Len(u) - MaxSpans) + i
        BY <3>2, <1>1, <1>2, <1>3, <2>2
      <4> QED BY <4>1, <1>3, <2>4 DEF IsTail
    <3> QED BY <3>1, <3>2
  <2>6. IsTail(v, u)
    BY <1>1, <1>2, <1>3, <2>2, <2>4, <2>5 DEF IsTail
  <2> QED BY <2>1, <2>4, <2>6 DEF u
<1>5. CASE ~(Len(s) >= MaxSpans)
  <2> DEFINE v == Append(s, e)
  <2>1. Add(s, e) = v
    BY <1>5 DEF Add
  <2>2. Len(s) = Len(t) /\ Len(t) < MaxSpans
    BY <1>1, <1>2, <1>5 DEF IsTail
  <2>3. /\ v \in Seq(S) /\ Len(v) = Len(s) + 1
        /\ \A i \in 1..Len(s) : v[i] = s[i]
        /\ v[Len(s) + 1] = e
    OBVIOUS
  <2> HIDE DEF v, u
  <2>4. \A i \in 1..Len(v) : v[i] = u[(Len(u) - Len(v)) + i]
    <3> TAKE i \in 1..Len(v)
    <3>1. (Len(u) - Len(v)) + i = i
      BY <1>2, <1>3, <2>2, <2>3
    <3>2. CASE i = Len(s) + 1
      BY <3>1, <3>2, <1>3, <2>2, <2>3
    <3>3. CASE i # Len(s) + 1
      <4>1. i \in 1..Len(s) /\ i \in 1..Len(t) /\ (Len(t) - Len(s)) + i = i
        BY <3>3, <1>2, <2>2, <2>3
      <4> QED BY <3>1, <4>1, <1>3, <2>3 DEF IsTail
    <3> QED BY <3>2, <3>3
  <2>5. IsTail(v, u)
    BY <1>1, <1>2, <1>3, <2>2, <2>3, <2>4 DEF IsTail
  <2> QED BY <2>1, <2>3, <2>5 DEF u
<1> QED BY <1>4, <1>5

-----------------------------------------------------------------------------
\* The requests

\* What the layers have recorded is what was sent, and only a panic leads a request
\* past them.
Good(q) ==
    /\ q \in RequestType
    /\ {q.counted, q.logged} \subseteq {None, q.sent}
    /\ q.pc \in {"new", "core"} => q.sent = None
    /\ q.pc \in {"metrics", "log", "trace", "export", "finish"} =>
          q.sent # None /\ q.sent = q.status
    /\ q.pc \in {"log", "trace", "export", "finish"} => q.counted = q.sent
    /\ q.pc \in {"trace", "export", "finish"} => q.logged = q.sent

ReqInv ==
    /\ tracing \in {"off", "store", "export"}
    /\ req \in [Reqs -> RequestType]
    /\ \A r \in Reqs : Good(req[r])

\* A step of request r keeps what is Good, and the status line once it is sent.
Served(r, q) ==
    /\ req' = [req EXCEPT ![r] = q]
    /\ Good(q)
    /\ req[r].sent # None => q.sent = req[r].sent

LEMMA WriteEffect ==
    ASSUME NEW q \in RequestType, NEW code \in Nat
    PROVE  /\ WriteHeader(q, code) \in RequestType
           /\ WriteHeader(q, code).status = code
           /\ WriteHeader(q, code).sent = IF q.sent = None /\ code # Early THEN code ELSE q.sent
           /\ WriteHeader(q, code).pc = q.pc
           /\ WriteHeader(q, code).counted = q.counted
           /\ WriteHeader(q, code).logged = q.logged
BY DEF WriteHeader, RequestType

LEMMA AnsweredEffect ==
    ASSUME NEW q \in RequestType
    PROVE  /\ Answered(q) \in RequestType
           /\ Answered(q).pc = "done"
           /\ Answered(q).counted = None
           /\ Answered(q).logged = None
           /\ Answered(q).sent = q.sent
<1>1. New \in RequestType /\ New.counted = None /\ New.logged = None
  BY DEF New, RequestType, None
<1>2. PICK n \in RequestType : n = New /\ n.counted = None /\ n.logged = None
  BY <1>1
<1>3. Answered(q) = [n EXCEPT !.pc = "done", !.sent = q.sent]
  BY <1>2 DEF Answered
<1> QED BY <1>2, <1>3 DEF RequestType

LEMMA SampledBoolean ==
    ASSUME NEW r, ReqInv, NEW s \in Sampled(r) PROVE s \in BOOLEAN
<1>1. (r \notin Unlucky) \in BOOLEAN
  OBVIOUS
<1>2. CASE tracing = "off"
  BY <1>2 DEF Sampled
<1>3. CASE tracing = "store"
  BY <1>3 DEF Sampled
<1>4. CASE tracing = "export"
  <2>1. s \in {TRUE} \cup {r \notin Unlucky}
    BY <1>4 DEF Sampled
  <2> QED BY <1>1, <2>1, Zenon
<1> QED BY <1>2, <1>3, <1>4 DEF ReqInv

LEMMA ServeEffect ==
    ASSUME ReqInv, NEW r \in Reqs, Serve(r)
    PROVE  \E q : Served(r, q)
<1> USE DEF None, Early, Own
<1>1. req[r] \in RequestType /\ Good(req[r])
  BY DEF ReqInv
<1>2. CASE Enter(r)
  <2>1. PICK s \in Sampled(r) : req' = [req EXCEPT ![r].pc = "core", ![r].sampled = s]
    BY <1>2 DEF Enter
  <2>2. Served(r, [req[r] EXCEPT !.pc = "core", !.sampled = s])
    BY SampledBoolean, <1>1, <1>2, <2>1 DEF Enter, Served, Good, RequestType, ReqInv
  <2> QED BY <2>2
<1>3. CASE Unauthorized(r)
  <2>1. PICK s \in Sampled(r) :
          req' = [req EXCEPT ![r] = [WriteHeader(@, Own) EXCEPT !.pc = "metrics", !.sampled = s]]
    BY <1>3 DEF Unauthorized
  <2>2. PICK h \in RequestType : h = WriteHeader(req[r], Own) /\ h.status = Own
        /\ h.sent = Own /\ h.counted = None /\ h.logged = None
    BY <1>3, <1>1, WriteEffect DEF Unauthorized, Good
  <2> DEFINE g == [h EXCEPT !.pc = "metrics", !.sampled = s]
  <2>3. /\ g \in RequestType
        /\ g.pc = "metrics" /\ g.sent = h.sent /\ g.status = h.status
        /\ g.counted = h.counted /\ g.logged = h.logged
    <3>1. s \in BOOLEAN
      BY <2>1, SampledBoolean
    <3> QED BY <3>1 DEF RequestType
  <2> HIDE DEF g
  <2>4. req' = [req EXCEPT ![r] = g]
    BY <1>3, <2>1, <2>2 DEF Unauthorized, g
  <2>5. Good(g)
    BY <1>1, <1>3, <2>1, <2>2, <2>3 DEF Unauthorized, Good
  <2>6. req[r].sent = None
    BY <1>1, <1>3 DEF Unauthorized, Good
  <2>7. Served(r, g)
    BY <2>4, <2>5, <2>6 DEF Served
  <2> QED BY <2>7
<1>4. CASE Inform(r)
  <2> DEFINE h == WriteHeader(req[r], Early)
  <2>1. req[r] \in RequestType /\ Good(req[r]) /\ req[r].pc = "core"
    BY <1>1, <1>4 DEF Inform, Good
  <2>2. /\ h \in RequestType
        /\ h.pc = "core" /\ h.sent = req[r].sent
        /\ h.counted = req[r].counted /\ h.logged = req[r].logged
    BY <2>1 DEF WriteHeader, RequestType
  <2>3. req' = [req EXCEPT ![r] = h]
    BY <1>4 DEF Inform
  <2> HIDE DEF h
  <2>4. Good(h)
    BY <2>1, <2>2 DEF Good
  <2>5. Served(r, h)
    BY <2>2, <2>3, <2>4 DEF Served
  <2> QED BY <2>5
<1>5. CASE Refuse(r)
  <2>1. PICK h \in RequestType : h = WriteHeader(req[r], Own) /\ h.status = Own
        /\ h.sent = Own /\ h.counted = None /\ h.logged = None
    BY <1>5, <1>1, WriteEffect DEF Refuse, Good
  <2> DEFINE g == [h EXCEPT !.pc = "metrics"]
  <2>2. /\ g \in RequestType
        /\ g.pc = "metrics" /\ g.sent = h.sent /\ g.status = h.status
        /\ g.counted = h.counted /\ g.logged = h.logged
    BY DEF RequestType
  <2> HIDE DEF g
  <2>3. req' = [req EXCEPT ![r] = g]
    BY <1>5, <2>1 DEF Refuse, g
  <2>4. Good(g)
    BY <1>1, <1>5, <2>1, <2>2 DEF Refuse, Good
  <2>5. req[r].sent = None
    BY <1>1, <1>5 DEF Refuse, Good
  <2>6. Served(r, g)
    BY <2>3, <2>4, <2>5 DEF Served
  <2> QED BY <2>6
<1>6. CASE Forward(r)
  <2>1. PICK h \in RequestType : h = WriteHeader(req[r], 200) /\ h.status = 200
        /\ h.sent = 200 /\ h.counted = None /\ h.logged = None
    BY <1>6, <1>1, WriteEffect DEF Forward, Good
  <2> DEFINE g == [h EXCEPT !.pc = "metrics"]
  <2>2. /\ g \in RequestType
        /\ g.pc = "metrics" /\ g.sent = h.sent /\ g.status = h.status
        /\ g.counted = h.counted /\ g.logged = h.logged
    BY DEF RequestType
  <2> HIDE DEF g
  <2>3. req' = [req EXCEPT ![r] = g]
    BY <1>6, <2>1, <2>2 DEF Forward, g
  <2>4. Good(g)
    BY <1>1, <1>6, <2>1, <2>2, <2>3 DEF Forward, Good
  <2>5. req[r].sent = None
    BY <1>1, <1>6 DEF Forward, Good
  <2>6. Served(r, g)
    BY <2>3, <2>4, <2>5 DEF Served
  <2> QED BY <2>6
<1>7. CASE Abort(r)
  <2>1. PICK h \in RequestType : h = WriteHeader(req[r], 200) /\ h.status = 200
        /\ h.sent = 200 /\ h.counted = None /\ h.logged = None
    BY <1>7, <1>1, WriteEffect DEF Abort, Good
  <2> DEFINE g == [h EXCEPT !.pc = "panic"]
  <2>2. /\ g \in RequestType
        /\ g.pc = "panic" /\ g.sent = h.sent /\ g.status = h.status
        /\ g.counted = h.counted /\ g.logged = h.logged
    BY DEF RequestType
  <2> HIDE DEF g
  <2>3. req' = [req EXCEPT ![r] = g]
    BY <1>7, <2>1, <2>2 DEF Abort, g
  <2>4. Good(g)
    BY <1>1, <1>7, <2>1, <2>2, <2>3 DEF Abort, Good
  <2>5. req[r].sent = None
    BY <1>1, <1>7 DEF Abort, Good
  <2>6. Served(r, g)
    BY <2>3, <2>4, <2>5 DEF Served
  <2> QED BY <2>6
<1>8. CASE Panic(r)
  <2>1. Served(r, [req[r] EXCEPT !.pc = "panic"])
    BY <1>1, <1>8 DEF Panic, Served, Good, RequestType, ReqInv
  <2> QED BY <2>1
<1>9. CASE Count(r)
  <2>1. Served(r, [req[r] EXCEPT !.pc = "log", !.counted = req[r].status])
    BY <1>1, <1>9 DEF Count, Served, Good, RequestType, ReqInv
  <2> QED BY <2>1
<1>10. CASE Log(r)
  <2>1. Served(r, [req[r] EXCEPT !.pc = IF req[r].sampled THEN "trace" ELSE "finish",
                                 !.logged = req[r].status])
    BY <1>1, <1>10 DEF Log, Served, Good, RequestType, ReqInv
  <2> QED BY <2>1
<1>11. CASE Trace(r)
  <2>1. Served(r, [req[r] EXCEPT !.pc = IF tracing = "export" THEN "export" ELSE "finish"])
    BY <1>1, <1>11 DEF Trace, Served, Good, RequestType, ReqInv
  <2> QED BY <2>1
<1>12. CASE Export(r)
  <2>1. Served(r, [req[r] EXCEPT !.pc = "finish"])
    BY <1>1, <1>12 DEF Export, Served, Good, RequestType, ReqInv
  <2> QED BY <2>1
<1>13. CASE ExportClosed(r)
  <2>1. Served(r, [req[r] EXCEPT !.pc = "panic"])
    BY <1>1, <1>13 DEF ExportClosed, Served, Good, RequestType, ReqInv
  <2> QED BY <2>1
<1>14. CASE Recover(r)
  <2>1. PICK h \in RequestType : /\ h = WriteHeader(req[r], 500)
                                 /\ req[r].sent # None => h.sent = req[r].sent
    BY <1>1, WriteEffect
  <2>2. PICK g \in RequestType : /\ g = Answered(h) /\ g.pc = "done" /\ g.sent = h.sent
                                 /\ g.counted = None /\ g.logged = None
    BY AnsweredEffect
  <2>3. req' = [req EXCEPT ![r] = g]
    BY <1>14, <2>1, <2>2 DEF Recover
  <2>4. Good(g)
    BY <2>2 DEF Good
  <2>5. Served(r, g)
    BY <2>1, <2>2, <2>3, <2>4 DEF Served
  <2> QED BY <2>5
<1>15. CASE Finish(r)
  <2>1. Served(r, Answered(req[r]))
    BY <1>1, <1>15, AnsweredEffect DEF Finish, Served, Good, ReqInv
  <2> QED BY <2>1
<1> QED
  BY <1>2, <1>3, <1>4, <1>5, <1>6, <1>7, <1>8, <1>9, <1>10, <1>11, <1>12, <1>13, <1>14,
     <1>15 DEF Serve

-----------------------------------------------------------------------------
\* The exporter

\* What was accepted is what was handed over, then the batch, then the channel, and
\* the goroutine has returned only with both empty.
BoxInv ==
    /\ ch \in Seq(Reqs) /\ batch \in Seq(Reqs)
    /\ accepted \in Seq(Reqs) /\ handed \in Seq(Reqs)
    /\ accepted = (handed \o batch) \o ch
    /\ loop \in {"select", "send", "rest", "returned"}
    /\ loop \in {"rest", "returned"} => closed /\ ch = <<>>
    /\ loop = "returned" => batch = <<>>

BoxVars == <<accepted, handed, closed, stopped>>

\* What a step of the exporter, or of a handler that records, does to both.
Boxed == BoxInv' /\ [Box!Next]_BoxVars

LEMMA RecordStep ==
    ASSUME BoxInv, NEW r \in Reqs, RecordSpan(r)
    PROVE  Boxed
<1>1. CASE Len(ch) < ChannelSize
  <2>1. ch' = Append(ch, r) /\ accepted' = Append(accepted, r)
    BY <1>1 DEF RecordSpan
  <2>2. PICK s \in Seq(Reqs) : s = handed \o batch
    <3>1. handed \o batch \in Seq(Reqs)
      BY DEF BoxInv
    <3> QED BY <3>1, Zenon
  <2>3. Append(s \o ch, r) = s \o Append(ch, r)
    <3>1. ch \in Seq(Reqs)
      BY DEF BoxInv
    <3> QED BY <3>1
  <2>4. Append(ch, r) \in Seq(Reqs) /\ Append(accepted, r) \in Seq(Reqs)
    BY DEF BoxInv
  <2>5. BoxInv'
    BY <2>1, <2>2, <2>3, <2>4 DEF RecordSpan, BoxInv
  <2>6. Box!Accept(r)
    BY <2>1 DEF RecordSpan, Box!Accept
  <2> QED BY <2>5, <2>6 DEF Boxed, Box!Next
<1>2. CASE ~(Len(ch) < ChannelSize)
  BY <1>2 DEF RecordSpan, BoxInv, Boxed, BoxVars
<1> QED BY <1>1, <1>2

LEMMA ReceiveStep ==
    ASSUME BoxInv, Receive
    PROVE  Boxed
<1>1. ch # <<>> /\ batch' = Append(batch, Head(ch)) /\ ch' = Tail(ch) /\ handed' = handed
      /\ loop' \in {"send", "select"}
  BY DEF Receive
<1>2. Head(ch) \in Reqs /\ Tail(ch) \in Seq(Reqs) /\ ch = <<Head(ch)>> \o Tail(ch)
  BY <1>1 DEF BoxInv
<1>3. (handed \o batch) \o (<<Head(ch)>> \o Tail(ch))
      = (handed \o Append(batch, Head(ch))) \o Tail(ch)
  BY <1>2 DEF BoxInv
<1>4. Append(batch, Head(ch)) \in Seq(Reqs)
  BY <1>2 DEF BoxInv
<1>5. accepted = (handed \o Append(batch, Head(ch))) \o Tail(ch)
  BY <1>2, <1>3 DEF BoxInv
<1>6. BoxInv'
  BY <1>1, <1>2, <1>4, <1>5 DEF Receive, BoxInv
<1> QED BY <1>6 DEF Receive, Boxed, BoxVars

LEMMA SendStep ==
    ASSUME BoxInv, Send
    PROVE  Boxed
<1>1. handed' = handed \o batch /\ batch' = <<>>
      /\ UNCHANGED <<accepted, ch, closed, stopped>>
  BY DEF Send
<1>2. (handed \o batch) \in Seq(Reqs) /\ ((handed \o batch) \o <<>>) = handed \o batch
  BY DEF BoxInv
<1>3. BoxInv'
  BY <1>1, <1>2 DEF BoxInv, Send
<1>4. CASE batch = <<>>
  <2>1. handed' = handed
    BY <1>1, <1>4 DEF BoxInv
  <2> QED BY <1>1, <1>3, <2>1 DEF Boxed, BoxVars
<1>5. CASE batch # <<>>
  <2> DEFINE n == Len(handed) + Len(batch)
  <2>1. n \in (Len(handed) + 1)..Len(accepted)
    BY <1>5 DEF BoxInv
  <2>2. handed \o batch = SubSeq((handed \o batch) \o ch, 1, n)
    BY DEF BoxInv
  <2>3. Box!Hand
    BY <1>1, <2>1, <2>2 DEF Box!Hand, BoxInv
  <2> QED BY <1>3, <2>3 DEF Boxed, Box!Next
<1> QED BY <1>4, <1>5

LEMMA ExporterStep ==
    ASSUME BoxInv, Exporter
    PROVE  Boxed
<1>1. CASE Receive
  BY <1>1, ReceiveStep
<1>2. CASE Flush
  BY <1>2 DEF Flush, BoxInv, Boxed, BoxVars
<1>3. CASE Send
  BY <1>3, SendStep
<1>4. CASE ReceiveClosed
  BY <1>4 DEF ReceiveClosed, BoxInv, Boxed, BoxVars
<1>5. CASE Close
  BY <1>5 DEF Close, BoxInv, Boxed, Box!Next, Box!Close
<1>6. CASE Stop
  <2>1. handed = accepted
    BY <1>6 DEF Stop, BoxInv
  <2> QED BY <1>6, <2>1 DEF Stop, BoxInv, Boxed, Box!Next, Box!Stop
<1> QED BY <1>1, <1>2, <1>3, <1>4, <1>5, <1>6 DEF Exporter, Loop

-----------------------------------------------------------------------------
\* All of them together

\* A span in the store's history tells the status line of its request, which
\* does not change any more.
AddedInv ==
    \A i \in DOMAIN added :
        added[i].status # None /\ added[i].status = req[added[i].req].sent

IInv == ReqInv /\ StoreInv /\ AddedInv /\ BoxInv

LEMMA InitIInv == Init => IInv /\ Box!Init
<1> SUFFICES ASSUME Init PROVE IInv /\ Box!Init
  OBVIOUS
<1>1. New \in RequestType /\ Good(New)
  BY DEF New, Good, RequestType, None
<1>2. ReqInv
  BY <1>1, ChainAssumption DEF Init, ReqInv
<1>3. StoreInv /\ AddedInv
  BY ChainAssumption DEF Init, StoreInv, IsTail, AddedInv
<1>4. BoxInv /\ Box!Init
  BY DEF Init, ExporterInit, BoxInv, Box!Init
<1> QED BY <1>2, <1>3, <1>4 DEF IInv

\* The requests' part of a handler's step, and that of the spans added before.
LEMMA ServeReq ==
    ASSUME IInv, NEW r \in Reqs, Serve(r)
    PROVE  /\ ReqInv'
           /\ \A i \in DOMAIN added : added[i].status = req'[added[i].req].sent
           /\ \A q \in Reqs : req[q].sent # None => req'[q].sent = req[q].sent
<1>1. PICK q : Served(r, q)
  BY ServeEffect DEF IInv
<1>2. req' = [req EXCEPT ![r] = q] /\ q \in RequestType /\ Good(q)
  BY <1>1 DEF Served, Good
<1>3. tracing' = tracing
  BY DEF Serve, Enter, Unauthorized, Inform, Refuse, Forward, Abort, Panic, Count, Log, Trace,
     Export, ExportClosed, Recover, Finish
<1>4. ReqInv'
  BY <1>2, <1>3 DEF IInv, ReqInv
<1>5. \A p \in Reqs : req[p].sent # None => req'[p].sent = req[p].sent
  BY <1>1, <1>2 DEF Served, IInv, ReqInv
<1>6. \A i \in DOMAIN added : added[i] \in Span
  BY DEF IInv, StoreInv
<1>7. \A i \in DOMAIN added : added[i].req \in Reqs
  BY <1>6 DEF Span
<1> QED BY <1>4, <1>5, <1>7 DEF IInv, AddedInv

LEMMA TraceStep ==
    ASSUME IInv, NEW r \in Reqs, Trace(r)
    PROVE  StoreInv' /\ AddedInv'
<1> DEFINE e == [req |-> r, status |-> req[r].status]
<1>1. spans' = Add(spans, e) /\ added' = Append(added, e)
  BY DEF Trace
<1>2. req[r] \in RequestType /\ req[r].sent # None /\ req[r].sent = req[r].status
  BY DEF Trace, IInv, ReqInv, Good
<1>3. e \in Span
  BY <1>2 DEF Span, RequestType
<1>4. e.req = r /\ e.status = req[r].sent
  BY <1>2
<1> HIDE DEF e
<1>5. StoreInv'
  BY <1>1, <1>3, AddEffect DEF IInv, StoreInv
<1>6. Serve(r)
  BY DEF Serve
<1>7. /\ \A i \in DOMAIN added : added[i].status = req'[added[i].req].sent
      /\ req'[r].sent = req[r].sent
  BY <1>2, <1>6, ServeReq
<1>8. AddedInv'
  <2> SUFFICES ASSUME NEW i \in DOMAIN added'
               PROVE  added'[i].status # None /\ added'[i].status = req'[added'[i].req].sent
    BY DEF AddedInv
  <2>1. CASE i \in DOMAIN added
    <3>1. added'[i] = added[i]
      BY <1>1, <1>3, <2>1 DEF IInv, StoreInv
    <3> QED BY <1>7, <2>1, <3>1 DEF IInv, AddedInv
  <2>2. CASE i \notin DOMAIN added
    <3>1. added'[i] = e
      BY <1>1, <1>3, <2>2 DEF IInv, StoreInv
    <3> QED BY <1>2, <1>4, <1>7, <3>1
  <2> QED BY <2>1, <2>2
<1> QED BY <1>5, <1>8

LEMMA StepIInv == IInv /\ [Next]_vars => IInv' /\ [Box!Next]_BoxVars
<1> SUFFICES ASSUME IInv, [Next]_vars PROVE IInv' /\ [Box!Next]_BoxVars
  OBVIOUS
<1>1. ASSUME NEW r \in Reqs, Serve(r) PROVE IInv' /\ [Box!Next]_BoxVars
  <2>1. ReqInv' /\ \A i \in DOMAIN added : added[i].status = req'[added[i].req].sent
    BY <1>1, ServeReq
  <2>2. CASE Trace(r)
    <3>1. StoreInv' /\ AddedInv'
      BY <2>2, TraceStep
    <3>2. UNCHANGED exporterVars
      BY <2>2 DEF Trace
    <3>3. BoxInv' /\ [Box!Next]_BoxVars
      BY <3>2 DEF IInv, BoxInv, exporterVars, BoxVars
    <3> QED BY <2>1, <3>1, <3>3 DEF IInv
  <2>3. CASE ~Trace(r)
    <3>1. UNCHANGED <<spans, added>>
      BY <1>1, <2>3 DEF Serve, Enter, Unauthorized, Inform, Refuse, Forward, Abort, Panic,
         Count, Log, Export, ExportClosed, Recover, Finish
    <3>2. StoreInv' /\ AddedInv'
      BY <2>1, <3>1 DEF IInv, StoreInv, IsTail, AddedInv
    <3>3. CASE Export(r)
      BY <2>1, <3>2, <3>3, RecordStep DEF Export, IInv, Boxed
    <3>4. CASE ~Export(r)
      <4>1. UNCHANGED exporterVars
        BY <1>1, <2>3, <3>4 DEF Serve, Enter, Unauthorized, Inform, Refuse, Forward, Abort,
           Panic, Count, Log, ExportClosed, Recover, Finish
      <4>2. BoxInv' /\ [Box!Next]_BoxVars
        BY <4>1 DEF IInv, BoxInv, exporterVars, BoxVars
      <4> QED BY <2>1, <3>2, <4>2 DEF IInv
    <3> QED BY <3>3, <3>4
  <2> QED BY <2>2, <2>3
<1>2. ASSUME Exporter PROVE IInv' /\ [Box!Next]_BoxVars
  <2>1. Boxed
    BY <1>2, ExporterStep DEF IInv
  <2>2. ReqInv' /\ StoreInv' /\ AddedInv'
    BY <1>2 DEF Exporter, chainVars, IInv, ReqInv, StoreInv, IsTail, AddedInv
  <2> QED BY <2>1, <2>2 DEF IInv, Boxed
<1>3. CASE UNCHANGED vars
  BY <1>3 DEF vars, chainVars, exporterVars, IInv, ReqInv, StoreInv, IsTail, AddedInv, BoxInv,
     BoxVars
<1> QED BY <1>1, <1>2, <1>3 DEF Next

LEMMA InvTheorem == Spec => []IInv
BY InitIInv, StepIInv, PTL DEF Spec

\* tracing.go lines 51-58: the store holds the last MaxSpans spans in the order of
\* their arrival, for any size and any requests.
THEOREM RecentTheorem == Spec => []RecentSpans
<1>1. ASSUME IInv PROVE RecentSpans
  <2> DEFINE n == IF Len(added) > MaxSpans THEN Len(added) - MaxSpans + 1 ELSE 1
             t == SubSeq(added, n, Len(added))
  <2>1. /\ MaxSpans \in Nat /\ MaxSpans > 0
        /\ spans \in Seq(Span) /\ added \in Seq(Span) /\ IsTail(spans, added)
        /\ Len(spans) \in Nat /\ Len(added) \in Nat
    BY <1>1, ChainAssumption DEF IInv, StoreInv
  <2>2. n \in Nat /\ n >= 1 /\ n = (Len(added) - Len(spans)) + 1
    BY <2>1 DEF IsTail
  <2> HIDE DEF n
  <2>3. t \in Seq(Span) /\ Len(t) = Len(spans)
        /\ \A i \in 1..Len(spans) : t[i] = added[(n + i) - 1]
    <3>1. \A i \in n..Len(added) : added[i] \in Span
      BY <2>1, <2>2
    <3>2. Len(spans) = (Len(added) - n) + 1
      BY <2>1, <2>2
    <3> QED BY <2>1, <2>2, <3>1, <3>2, SubSeqProperties
  <2> HIDE DEF t
  <2>4. \A i \in 1..Len(spans) : spans[i] = t[i]
    <3> TAKE i \in 1..Len(spans)
    <3>1. (n + i) - 1 = (Len(added) - Len(spans)) + i
      BY <2>1, <2>2
    <3> QED BY <2>1, <2>3, <3>1 DEF IsTail
  <2>5. spans = t
    BY <2>1, <2>3, <2>4
  <2> QED BY <2>5 DEF RecentSpans, t, n
<1> QED BY <1>1, InvTheorem, PTL

\* docs/architecture.md line 42: Metrics, Logger and Tracing record the status that
\* the client gets, through 1xx answers and panics, for any number of requests.
THEOREM FinalStatusTheorem == Spec => []FinalStatusRecorded
<1>1. ASSUME IInv PROVE FinalStatusRecorded
  <2>1. \A r \in Reqs : Good(req[r])
    BY <1>1 DEF IInv, ReqInv
  <2>2. \A r \in Reqs : {req[r].counted, req[r].logged} \subseteq {None, req[r].sent}
    BY <2>1 DEF Good
  <2>3. \A r \in Reqs : req[r].pc \in {"trace", "export", "finish"} =>
            None \notin {req[r].counted, req[r].logged}
    BY <2>1 DEF Good
  <2>4. \A i \in DOMAIN added : added[i].status = req[added[i].req].sent
    BY <1>1 DEF IInv, AddedInv
  <2> QED BY <2>2, <2>3, <2>4 DEF FinalStatusRecorded
<1> QED BY <1>1, InvTheorem, PTL

\* tracing.go lines 101-160: the exporter implements the safety of Outbox, for any
\* capacity of the channel and of a batch: accepted spans are handed over in order,
\* each once, and Stop returns only when all have been. (That none is held back for
\* ever, the fairness of StopDrains, is left to the model checker.)
THEOREM ExporterImplements == Spec => Box!Safety
<1>1. Spec => Box!Init /\ [][Box!Next]_BoxVars
  BY InitIInv, StepIInv, PTL DEF Spec
<1> QED BY <1>1 DEF Box!Safety, Box!vars, BoxVars
=============================================================================
