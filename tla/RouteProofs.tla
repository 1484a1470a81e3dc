----------------------------- MODULE RouteProofs -----------------------------
(***************************************************************************)
(* Proofs about Route, for every number of handlers and backends, every    *)
(* breaker configuration and every bound.                                  *)
(***************************************************************************)
EXTENDS Route, BreakerLemmas, FiniteSetTheorems

-----------------------------------------------------------------------------
\* The inductive invariant

\* What serveProxy knows at each of its steps: the answer's flags are set by
\* Answer and not before, the backend by Pick, and a backend whose URL does not
\* parse is left at Forward.
Shape ==
    \A r \in Reqs :
        /\ req[r].pc \in {"idle", "scan", "check", "admitted", "proxy"} =>
              req[r].ok = FALSE /\ req[r].upgrade = FALSE
        /\ req[r].pc \notin {"idle", "scan"} => req[r].backend \in Backend
        /\ req[r].pc \in {"proxy", "report", "mark"} => req[r].backend \notin BadURLs

\* A breaker nobody reports to never leaves the closed state.
SilentClosed ==
    \A b \in Backend : ~HasBreaker \/ b \in BadURLs => breaker[b].state = "closed"

\* A half-open breaker has counted no failure, and when its quota is used up some
\* admitted request has yet to report.
QuotaInv ==
    \A b \in Backend :
        breaker[b].state = "half-open" =>
            /\ breaker[b].halfOpenFailures = 0
            /\ breaker[b].halfOpenTotal >= cfg.HalfOpenRequests => Reporting(b) # {}

\* The requests that may still report twice, and those that have reported the
\* success of an upgrade and will report its failure.
Fresh == {r \in Reqs : \/ req[r].pc \in {"scan", "check", "admitted", "proxy"}
                       \/ req[r].pc = "report" /\ (req[r].ok = TRUE \/ req[r].upgrade = FALSE)}

Second == {r \in Reqs : /\ req[r].upgrade = TRUE
                        /\ \/ req[r].pc = "mark" /\ req[r].ok = TRUE
                           \/ req[r].pc = "report" /\ req[r].ok = FALSE}

\* Begin's guard accounts for every report a request will make.
Accounted ==
    \A b \in Backend :
        Len(breaker[b].window) + 2 * Cardinality(Fresh) + Cardinality(Second)
            < MaxObservations + 2

IInv == TypeOK /\ Shape /\ SilentClosed /\ QuotaInv /\ InflightExact /\ Accounted

-----------------------------------------------------------------------------
\* What a step does to the handlers

\* A step of handler r leaves the others where they are.
Moves(r) == /\ req' \in [Reqs -> HandlerType]
            /\ \A q \in Reqs \ {r} : req'[q] = req[q]

LEMMA BackendsTyped == Len(Backends) \in Nat
                         /\ \A i \in 1..Len(Backends) : Backends[i] \in Backend
BY RouteAssumption DEF Backend

LEMMA IdleTyped == Idle \in HandlerType /\ Idle.pc = "idle"
                     /\ Idle.ok = FALSE /\ Idle.upgrade = FALSE
BY BackendsTyped DEF Idle, HandlerType

LEMMA NewTyped == New \in BreakerType /\ New.state = "closed" /\ Len(New.window) = 0
<1>1. <<>> \in Seq(Observation) /\ Len(<<>>) = 0
  OBVIOUS
<1> QED BY <1>1 DEF New, BreakerType

Keeps(r) == /\ req'[r].backend = req[r].backend
            /\ req'[r].ok = req[r].ok
            /\ req'[r].upgrade = req[r].upgrade

LEMMA Assigned ==
    ASSUME TypeOK, NEW r \in Reqs, NEW h \in HandlerType, req' = [req EXCEPT ![r] = h]
    PROVE  Moves(r) /\ req'[r] = h
BY DEF TypeOK, Moves

LEMMA PcAssigned ==
    ASSUME TypeOK, NEW r \in Reqs,
           NEW p \in {"scan", "admitted", "proxy", "mark", "closing"},
           req' = [req EXCEPT ![r].pc = p]
    PROVE  Moves(r) /\ Keeps(r) /\ req'[r].pc = p
<1>1. req[r] \in HandlerType
  BY DEF TypeOK
<1> DEFINE h == [req[r] EXCEPT !.pc = p]
<1>2. /\ h \in HandlerType /\ h.pc = p /\ h.backend = req[r].backend
      /\ h.ok = req[r].ok /\ h.upgrade = req[r].upgrade
  BY <1>1 DEF HandlerType
<1>3. req' = [req EXCEPT ![r] = h]
  BY DEF TypeOK
<1> HIDE DEF h
<1> QED BY <1>2, <1>3, Assigned DEF Keeps

LEMMA ScanEffect ==
    ASSUME TypeOK, NEW r \in Reqs, Scan(r)
    PROVE  Moves(r) /\ Keeps(r) /\ req'[r].pc = "scan"
<1>1. req[r] \in HandlerType
  BY DEF TypeOK
<1> DEFINE b == Backends[req[r].cursor + 1]
           s == IF alive[b] THEN req[r].seen \cup {b} ELSE req[r].seen
           h == [req[r] EXCEPT !.cursor = @ + 1, !.seen = s]
<1>2. b \in Backend /\ req[r].cursor + 1 \in 0..Len(Backends)
  BY <1>1, BackendsTyped DEF Scan, HandlerType
<1>3. s \in SUBSET Backend
  BY <1>1, <1>2 DEF HandlerType
<1>4. req' = [req EXCEPT ![r] = h]
  BY DEF Scan, TypeOK
<1> HIDE DEF s
<1>5. /\ h \in HandlerType /\ h.pc = req[r].pc /\ h.backend = req[r].backend
      /\ h.ok = req[r].ok /\ h.upgrade = req[r].upgrade
  BY <1>1, <1>2, <1>3 DEF HandlerType
<1> HIDE DEF h
<1> QED BY <1>4, <1>5, Assigned DEF Keeps, Scan

LEMMA PickEffect ==
    ASSUME TypeOK, NEW r \in Reqs, Pick(r)
    PROVE  /\ Moves(r) /\ req'[r].pc = "check" /\ req'[r].backend \in Backend
           /\ req'[r].ok = FALSE /\ req'[r].upgrade = FALSE
<1>1. PICK b \in req[r].seen :
         req' = [req EXCEPT ![r] = [Idle EXCEPT !.pc = "check", !.backend = b]]
  BY DEF Pick
<1>2. b \in Backend
  BY <1>1 DEF TypeOK, HandlerType
<1> DEFINE h == [Idle EXCEPT !.pc = "check", !.backend = b]
<1>3. /\ h \in HandlerType /\ h.pc = "check" /\ h.backend = b
      /\ h.ok = FALSE /\ h.upgrade = FALSE
  BY <1>2, IdleTyped DEF HandlerType
<1>4. req' = [req EXCEPT ![r] = h]
  BY <1>1
<1> HIDE DEF h
<1> QED BY <1>2, <1>3, <1>4, Assigned

LEMMA AnswerEffect ==
    ASSUME TypeOK, Shape, NEW r \in Reqs, Answer(r)
    PROVE  /\ Moves(r) /\ req'[r].pc = "report" /\ req'[r].backend = req[r].backend
           /\ req'[r].ok = TRUE \/ req'[r].upgrade = FALSE
           /\ req'[r].ok = TRUE => up[req[r].backend] = TRUE
<1>1. req[r] \in HandlerType
  BY DEF TypeOK
<1>2. PICK success \in {up[req[r].backend]} \cup (IF ClientsCancel THEN {FALSE} ELSE {}) :
      \E upgrade \in {FALSE, success /\ ClientsUpgrade} :
          req' = [req EXCEPT ![r].pc = "report", ![r].ok = success, ![r].upgrade = upgrade]
  BY DEF Answer
<1>3. PICK upgrade \in {FALSE, success /\ ClientsUpgrade} :
          req' = [req EXCEPT ![r].pc = "report", ![r].ok = success, ![r].upgrade = upgrade]
  BY <1>2
<1>4. /\ success \in BOOLEAN /\ upgrade \in BOOLEAN /\ (success = TRUE \/ upgrade = FALSE)
      /\ success = TRUE => up[req[r].backend] = TRUE
  <2>1. up[req[r].backend] \in BOOLEAN
    BY DEF Answer, Shape, TypeOK
  <2>2. success \in BOOLEAN
    BY <2>1
  <2>3. upgrade \in {FALSE, success /\ ClientsUpgrade}
    OBVIOUS
  <2>4. success = TRUE => up[req[r].backend] = TRUE
    OBVIOUS
  <2> QED BY <2>2, <2>3, <2>4, Zenon
<1> DEFINE h == [req[r] EXCEPT !.pc = "report", !.ok = success, !.upgrade = upgrade]
<1>5. /\ h \in HandlerType /\ h.pc = "report" /\ h.backend = req[r].backend
      /\ h.ok = success /\ h.upgrade = upgrade
  BY <1>1, <1>4 DEF HandlerType
<1>6. req' = [req EXCEPT ![r] = h]
  BY <1>3 DEF TypeOK
<1> HIDE DEF h
<1> QED BY <1>4, <1>5, <1>6, Assigned

LEMMA MarkEffect ==
    ASSUME TypeOK, NEW r \in Reqs, Mark(r)
    PROVE  /\ Moves(r) /\ req'[r].backend = req[r].backend
           /\ req'[r].upgrade = req[r].upgrade
           /\ req[r].ok = TRUE /\ req[r].upgrade = TRUE =>
                req'[r].pc = "report" /\ req'[r].ok = FALSE
           /\ req[r].ok = FALSE \/ req[r].upgrade = FALSE =>
                req'[r].pc = "closing" /\ req'[r].ok = req[r].ok
<1>1. req[r] \in HandlerType
  BY DEF TypeOK
<1> DEFINE p == IF req[r].ok /\ req[r].upgrade THEN "report" ELSE "closing"
           o == req[r].ok /\ ~req[r].upgrade
           h == [req[r] EXCEPT !.pc = p, !.ok = o]
<1>2. req' = [req EXCEPT ![r] = h]
  BY DEF Mark, TypeOK
<1>3. /\ p \in {"report", "closing"} /\ o \in BOOLEAN
      /\ req[r].ok = TRUE /\ req[r].upgrade = TRUE => p = "report" /\ o = FALSE
      /\ req[r].ok = FALSE \/ req[r].upgrade = FALSE => p = "closing" /\ o = req[r].ok
  BY <1>1 DEF HandlerType
<1> HIDE DEF p, o
<1>4. /\ h \in HandlerType /\ h.pc = p /\ h.backend = req[r].backend
      /\ h.ok = o /\ h.upgrade = req[r].upgrade
  BY <1>1, <1>3 DEF HandlerType
<1> HIDE DEF h
<1> QED BY <1>2, <1>3, <1>4, Assigned

-----------------------------------------------------------------------------
\* What a step does to the sets of handlers

LEMMA FlagsTyped ==
    ASSUME NEW f \in [Reqs -> HandlerType], NEW r \in Reqs
    PROVE  f[r].ok \in BOOLEAN /\ f[r].upgrade \in BOOLEAN
BY DEF HandlerType

LEMMA SetsMove ==
    ASSUME NEW r \in Reqs, Moves(r), NEW b \in Backend
    PROVE  /\ Connected(b)' \ {r} = Connected(b) \ {r}
           /\ Reporting(b)' \ {r} = Reporting(b) \ {r}
           /\ Upgrading(b)' \ {r} = Upgrading(b) \ {r}
<1>1. Connected(b)' \ {r} = Connected(b) \ {r}
  BY DEF Moves, Connected
<1>2. Reporting(b)' \ {r} = Reporting(b) \ {r}
  BY DEF Moves, Reporting
<1>3. Upgrading(b)' \ {r} = Upgrading(b) \ {r}
  <2> SUFFICES ASSUME NEW q \in Reqs \ {r}
               PROVE  q \in Upgrading(b)' <=> q \in Upgrading(b)
    BY DEF Upgrading, Reporting
  <2>1. req'[q] = req[q]
    BY DEF Moves
  <2>2. q \in Reporting(b)' <=> q \in Reporting(b)
    BY <1>2
  <2> QED BY <2>1, <2>2 DEF Upgrading
<1> QED BY <1>1, <1>2, <1>3

LEMMA OwedMove ==
    ASSUME NEW r \in Reqs, Moves(r)
    PROVE  /\ Fresh' \ {r} = Fresh \ {r}
           /\ Second' \ {r} = Second \ {r}
BY DEF Moves, Fresh, Second

\* The handlers that report and those of an upgrade, by where they are.
Membership ==
    \A r \in Reqs, b \in Backend :
        /\ r \in Reporting(b) <=>
              /\ HasBreaker /\ b \notin BadURLs /\ req[r].backend = b
              /\ \/ req[r].pc \in {"admitted", "proxy", "report"}
                 \/ req[r].pc = "mark" /\ req[r].ok = TRUE /\ req[r].upgrade = TRUE
        /\ r \in Upgrading(b) <=>
              HasBreaker /\ b \notin BadURLs /\ req[r].backend = b /\ r \in Second

ReqOK == req \in [Reqs -> HandlerType] /\ Shape

LEMMA MembershipHolds == ReqOK => Membership
<1> SUFFICES ASSUME ReqOK, NEW r \in Reqs, NEW b \in Backend
             PROVE  /\ r \in Reporting(b) <=>
                         /\ HasBreaker /\ b \notin BadURLs /\ req[r].backend = b
                         /\ \/ req[r].pc \in {"admitted", "proxy", "report"}
                            \/ req[r].pc = "mark" /\ req[r].ok = TRUE /\ req[r].upgrade = TRUE
                    /\ r \in Upgrading(b) <=>
                         HasBreaker /\ b \notin BadURLs /\ req[r].backend = b /\ r \in Second
  BY DEF Membership
<1>1. req[r].ok \in BOOLEAN /\ req[r].upgrade \in BOOLEAN
  BY FlagsTyped DEF ReqOK
<1>2. r \in Reporting(b) <=>
                /\ HasBreaker /\ b \notin BadURLs /\ req[r].backend = b
                /\ \/ req[r].pc \in {"admitted", "proxy", "report"}
                   \/ req[r].pc = "mark" /\ req[r].ok = TRUE /\ req[r].upgrade = TRUE
  BY <1>1 DEF Reporting
<1>3. r \in Upgrading(b) <=>
         r \in Reporting(b) /\ req[r].upgrade = TRUE /\ (req[r].ok = TRUE <=> req[r].pc = "mark")
  BY <1>1 DEF Upgrading
<1> QED BY <1>1, <1>2, <1>3 DEF Second, Shape, ReqOK

LEMMA Counting ==
    ASSUME NEW S, IsFiniteSet(S), NEW T, NEW r, T \ {r} = S \ {r}
    PROVE  /\ IsFiniteSet(T) /\ Cardinality(S) \in Nat /\ Cardinality(T) \in Nat
           /\ (r \in S <=> r \in T) => T = S
           /\ r \notin S /\ r \in T => Cardinality(T) = Cardinality(S) + 1
           /\ r \in S /\ r \notin T => Cardinality(T) = Cardinality(S) - 1
<1>1. CASE r \in S <=> r \in T
  <2>1. T = S
    BY <1>1
  <2> QED BY <1>1, <2>1, FS_CardinalityType
<1>2. CASE r \notin S /\ r \in T
  <2>1. T = S \cup {r}
    BY <1>2
  <2> QED BY <1>2, <2>1, FS_AddElement, FS_CardinalityType
<1>3. CASE r \in S /\ r \notin T
  <2>1. T = S \ {r}
    BY <1>3
  <2> QED BY <1>3, <2>1, FS_RemoveElement, FS_CardinalityType
<1> QED BY <1>1, <1>2, <1>3

LEMMA SetsFinite ==
    /\ IsFiniteSet(Fresh) /\ IsFiniteSet(Second)
    /\ \A b \in Backend : IsFiniteSet(Connected(b)) /\ IsFiniteSet(Reporting(b))
                            /\ IsFiniteSet(Upgrading(b))
<1>1. IsFiniteSet(Reqs)
  BY RouteAssumption
<1>2. /\ Fresh \subseteq Reqs /\ Second \subseteq Reqs
      /\ \A b \in Backend : Connected(b) \subseteq Reqs /\ Reporting(b) \subseteq Reqs
                            /\ Upgrading(b) \subseteq Reqs
  BY DEF Fresh, Second, Connected, Reporting, Upgrading
<1> QED BY <1>1, <1>2, FS_Subset

-----------------------------------------------------------------------------
\* Shape

\* The fields of a handler whose request is over.
LEMMA IdleEffect ==
    ASSUME TypeOK, NEW r \in Reqs, req' = [req EXCEPT ![r] = Idle]
    PROVE  /\ Moves(r) /\ req'[r].pc = "idle"
           /\ req'[r].ok = FALSE /\ req'[r].upgrade = FALSE
BY IdleTyped, Assigned

\* One handler's step keeps the shape of the others.
LEMMA ShapeMoves ==
    ASSUME Shape, NEW r \in Reqs, Moves(r),
           /\ req'[r].pc \in {"idle", "scan", "check", "admitted", "proxy"} =>
                 req'[r].ok = FALSE /\ req'[r].upgrade = FALSE
           /\ req'[r].pc \notin {"idle", "scan"} => req'[r].backend \in Backend
           /\ req'[r].pc \in {"proxy", "report", "mark"} => req'[r].backend \notin BadURLs
    PROVE  ReqOK'
BY DEF Shape, Moves, ReqOK

LEMMA HandleReqOK ==
    ASSUME TypeOK, Shape, NEW r \in Reqs, Handle(r)
    PROVE  Moves(r) /\ ReqOK'
<1>0. /\ req[r].pc \in {"idle", "scan", "check", "admitted", "proxy"} =>
            req[r].ok = FALSE /\ req[r].upgrade = FALSE
      /\ req[r].pc \notin {"idle", "scan"} => req[r].backend \in Backend
      /\ req[r].pc \in {"proxy", "report", "mark"} => req[r].backend \notin BadURLs
  BY DEF Shape
<1>1. CASE Begin(r)
  <2>1. Moves(r) /\ Keeps(r) /\ req'[r].pc = "scan" /\ req[r].pc = "idle"
    BY <1>1, PcAssigned DEF Begin
  <2> QED BY <1>0, <2>1, ShapeMoves DEF Keeps
<1>2. CASE Scan(r)
  <2>1. Moves(r) /\ Keeps(r) /\ req'[r].pc = "scan" /\ req[r].pc = "scan"
    BY <1>2, ScanEffect DEF Scan
  <2> QED BY <1>0, <2>1, ShapeMoves DEF Keeps
<1>3. CASE NoHealthyBackend(r) \/ CircuitOpen(r) \/ Close(r)
  <2>1. req' = [req EXCEPT ![r] = Idle]
    BY <1>3 DEF NoHealthyBackend, CircuitOpen, Close
  <2> QED BY <2>1, IdleEffect, ShapeMoves
<1>4. CASE Pick(r)
  BY <1>4, PickEffect, ShapeMoves
<1>5. CASE CircuitAllows(r)
  <2>1. Moves(r) /\ Keeps(r) /\ req'[r].pc = "admitted" /\ req[r].pc = "check"
    BY <1>5, PcAssigned DEF CircuitAllows
  <2> QED BY <1>0, <2>1, ShapeMoves DEF Keeps
<1>6. CASE Forward(r)
  <2> DEFINE p == IF req[r].backend \in BadURLs THEN "closing" ELSE "proxy"
  <2>1. req' = [req EXCEPT ![r].pc = p] /\ p \in {"closing", "proxy"} /\ req[r].pc = "admitted"
    BY <1>6 DEF Forward
  <2> HIDE DEF p
  <2>2. Moves(r) /\ Keeps(r) /\ req'[r].pc = p
    BY <2>1, PcAssigned
  <2> QED BY <1>0, <2>1, <2>2, ShapeMoves DEF Keeps, p
<1>7. CASE Answer(r)
  BY <1>0, <1>7, AnswerEffect, ShapeMoves DEF Answer
<1>8. CASE Report(r)
  <2>1. Moves(r) /\ Keeps(r) /\ req'[r].pc = "mark" /\ req[r].pc = "report"
    BY <1>8, PcAssigned DEF Report
  <2> QED BY <1>0, <2>1, ShapeMoves DEF Keeps
<1>9. CASE Mark(r)
  <2>1. req[r].ok \in BOOLEAN /\ req[r].upgrade \in BOOLEAN /\ req[r].pc = "mark"
    BY <1>9, FlagsTyped DEF TypeOK, Mark
  <2>2. Moves(r) /\ req'[r].backend = req[r].backend /\ req'[r].pc \in {"report", "closing"}
    BY <1>9, <2>1, MarkEffect
  <2> QED BY <1>0, <2>1, <2>2, ShapeMoves
<1> QED BY <1>1, <1>2, <1>3, <1>4, <1>5, <1>6, <1>7, <1>8, <1>9 DEF Handle

-----------------------------------------------------------------------------
\* What each action does to the sets

Quiet(r) == \/ Begin(r) \/ Scan(r) \/ NoHealthyBackend(r) \/ Pick(r) \/ CircuitOpen(r)
            \/ Forward(r) \/ Answer(r) \/ Mark(r) \/ Close(r)

\* Only Allow and the reports change who has a report to make.
LEMMA QuietReports ==
    ASSUME TypeOK, Shape, NEW r \in Reqs, Quiet(r), NEW b \in Backend
    PROVE  Reporting(b)' = Reporting(b) /\ Upgrading(b)' = Upgrading(b)
<1>0. Moves(r) /\ ReqOK' /\ ReqOK
  BY HandleReqOK DEF Quiet, Handle, ReqOK, TypeOK
<1>1. Membership /\ Membership'
  BY <1>0, MembershipHolds, PTL
<1>2. req[r].ok \in BOOLEAN /\ req[r].upgrade \in BOOLEAN
  BY FlagsTyped DEF TypeOK
<1> SUFFICES /\ r \in Reporting(b)' <=> r \in Reporting(b)
             /\ r \in Upgrading(b)' <=> r \in Upgrading(b)
  BY <1>0, SetsMove
<1>3. /\ r \in Reporting(b) <=>
            /\ HasBreaker /\ b \notin BadURLs /\ req[r].backend = b
            /\ \/ req[r].pc \in {"admitted", "proxy", "report"}
               \/ req[r].pc = "mark" /\ req[r].ok = TRUE /\ req[r].upgrade = TRUE
      /\ r \in Upgrading(b) <=>
            /\ HasBreaker /\ b \notin BadURLs /\ req[r].backend = b
            /\ req[r].upgrade = TRUE
            /\ \/ req[r].pc = "mark" /\ req[r].ok = TRUE
               \/ req[r].pc = "report" /\ req[r].ok = FALSE
  BY <1>1 DEF Membership, Second
<1>4. /\ r \in Reporting(b)' <=>
            /\ HasBreaker /\ b \notin BadURLs /\ req'[r].backend = b
            /\ \/ req'[r].pc \in {"admitted", "proxy", "report"}
               \/ req'[r].pc = "mark" /\ req'[r].ok = TRUE /\ req'[r].upgrade = TRUE
      /\ r \in Upgrading(b)' <=>
            /\ HasBreaker /\ b \notin BadURLs /\ req'[r].backend = b
            /\ req'[r].upgrade = TRUE
            /\ \/ req'[r].pc = "mark" /\ req'[r].ok = TRUE
               \/ req'[r].pc = "report" /\ req'[r].ok = FALSE
  BY <1>1 DEF Membership, Second
<1>5. CASE Begin(r)
  BY <1>3, <1>4, <1>5, PcAssigned DEF Begin
<1>6. CASE Scan(r)
  BY <1>3, <1>4, <1>6, ScanEffect DEF Scan
<1>7. CASE NoHealthyBackend(r) \/ CircuitOpen(r) \/ Close(r)
  <2>1. req' = [req EXCEPT ![r] = Idle] /\ req[r].pc \in {"scan", "check", "closing"}
    BY <1>7 DEF NoHealthyBackend, CircuitOpen, Close
  <2> QED BY <1>3, <1>4, <2>1, IdleEffect
<1>8. CASE Pick(r)
  <2>1. req[r].pc = "scan"
    BY <1>8 DEF Pick
  <2> QED BY <1>3, <1>4, <1>8, <2>1, PickEffect
<1>9. CASE Forward(r)
  <2> DEFINE p == IF req[r].backend \in BadURLs THEN "closing" ELSE "proxy"
  <2>1. req' = [req EXCEPT ![r].pc = p] /\ p \in {"closing", "proxy"} /\ req[r].pc = "admitted"
    BY <1>9 DEF Forward
  <2> HIDE DEF p
  <2>2. Moves(r) /\ Keeps(r) /\ req'[r].pc = p
    BY <2>1, PcAssigned
  <2> QED BY <1>3, <1>4, <2>1, <2>2 DEF Keeps, p
<1>10. CASE Answer(r)
  <2>1. req[r].pc = "proxy"
    BY <1>10 DEF Answer
  <2> QED BY <1>3, <1>4, <1>10, <2>1, AnswerEffect
<1>11. CASE Mark(r)
  <2>1. req[r].pc = "mark"
    BY <1>11 DEF Mark
  <2> QED BY <1>2, <1>3, <1>4, <1>11, <2>1, MarkEffect
<1> QED BY <1>5, <1>6, <1>7, <1>8, <1>9, <1>10, <1>11 DEF Quiet

\* Inc and the deferred Dec keep the count of connections.
LEMMA InflightStep ==
    ASSUME TypeOK, Shape, InflightExact, NEW r \in Reqs, Handle(r)
    PROVE  conns' \in [Backend -> Nat] /\ InflightExact'
<1>0. Moves(r) /\ ReqOK'
  BY HandleReqOK
<1> DEFINE on == {"proxy", "report", "mark", "closing"}
<1>1. \A b \in Backend : /\ r \in Connected(b) <=> req[r].pc \in on /\ req[r].backend = b
                         /\ r \in Connected(b)' <=> req'[r].pc \in on /\ req'[r].backend = b
  BY DEF Connected
<1>2. \A b \in Backend :
         /\ IsFiniteSet(Connected(b))
         /\ Connected(b)' \ {r} = Connected(b) \ {r}
         /\ conns[b] = Cardinality(Connected(b)) /\ conns[b] \in Nat
  BY <1>0, SetsMove, SetsFinite DEF InflightExact, TypeOK
<1>3. ASSUME conns' = conns, \A b \in Backend : r \in Connected(b)' <=> r \in Connected(b)
      PROVE  conns' \in [Backend -> Nat] /\ InflightExact'
  <2>1. \A b \in Backend : Connected(b)' = Connected(b)
    BY <1>2, <1>3
  <2> QED BY <1>3, <2>1 DEF InflightExact, TypeOK
<1>4. CASE Forward(r)
  <2>0. PICK c \in Backend : c = req[r].backend
    BY <1>4 DEF Forward, Shape
  <2> DEFINE p == IF req[r].backend \in BadURLs THEN "closing" ELSE "proxy"
  <2>1. /\ req' = [req EXCEPT ![r].pc = p] /\ p \in {"closing", "proxy"}
        /\ req[r].pc = "admitted" /\ conns' = [conns EXCEPT ![c] = @ + 1]
    BY <1>4, <2>0 DEF Forward
  <2> HIDE DEF p
  <2>2. Keeps(r) /\ req'[r].pc = p
    BY <2>1, PcAssigned
  <2>3. r \in Connected(c)' /\ r \notin Connected(c)
    BY <1>1, <2>0, <2>1, <2>2 DEF Keeps
  <2>4. \A b \in Backend \ {c} : r \notin Connected(b)' /\ r \notin Connected(b)
    BY <1>1, <2>0, <2>1, <2>2 DEF Keeps
  <2>5. Cardinality(Connected(c)') = conns[c] + 1 /\ conns[c] + 1 \in Nat
    BY <1>2, <2>3, Counting
  <2>6. \A b \in Backend \ {c} : Connected(b)' = Connected(b)
    BY <1>2, <2>4
  <2> QED BY <1>2, <2>1, <2>3, <2>5, <2>6 DEF InflightExact, TypeOK
<1>5. CASE Close(r)
  <2>0. PICK c \in Backend : c = req[r].backend
    BY <1>5 DEF Close, Shape
  <2>1. /\ req' = [req EXCEPT ![r] = Idle] /\ req[r].pc = "closing"
        /\ conns' = [conns EXCEPT ![c] = @ - 1]
    BY <1>5, <2>0 DEF Close
  <2>2. req'[r].pc = "idle"
    BY <2>1, IdleEffect
  <2>3. r \notin Connected(c)' /\ r \in Connected(c)
    BY <1>1, <2>0, <2>1, <2>2
  <2>4. \A b \in Backend \ {c} : r \notin Connected(b)' /\ r \notin Connected(b)
    BY <1>1, <2>0, <2>1, <2>2
  <2>5. Cardinality(Connected(c)') = conns[c] - 1 /\ conns[c] - 1 \in Nat
    BY <1>2, <2>3, Counting
  <2>6. \A b \in Backend \ {c} : Connected(b)' = Connected(b)
    BY <1>2, <2>4
  <2> QED BY <1>2, <2>1, <2>3, <2>5, <2>6 DEF InflightExact, TypeOK
<1>6. CASE Begin(r)
  BY <1>1, <1>3, <1>6, PcAssigned DEF Begin
<1>7. CASE Scan(r)
  BY <1>1, <1>3, <1>7, ScanEffect DEF Scan
<1>8. CASE NoHealthyBackend(r) \/ CircuitOpen(r)
  <2>1. /\ req' = [req EXCEPT ![r] = Idle] /\ req[r].pc \in {"scan", "check"}
        /\ conns' = conns
    BY <1>8 DEF NoHealthyBackend, CircuitOpen
  <2> QED BY <1>1, <1>3, <2>1, IdleEffect
<1>9. CASE Pick(r)
  <2>1. req[r].pc = "scan" /\ conns' = conns
    BY <1>9 DEF Pick
  <2> QED BY <1>1, <1>3, <1>9, <2>1, PickEffect
<1>10. CASE CircuitAllows(r)
  <2>1. /\ req' = [req EXCEPT ![r].pc = "admitted"] /\ req[r].pc = "check"
        /\ conns' = conns
    BY <1>10 DEF CircuitAllows
  <2> QED BY <1>1, <1>3, <2>1, PcAssigned
<1>11. CASE Answer(r)
  <2>1. req[r].pc = "proxy" /\ conns' = conns
    BY <1>11 DEF Answer
  <2> QED BY <1>1, <1>3, <1>11, <2>1, AnswerEffect
<1>12. CASE Report(r)
  <2>1. /\ req' = [req EXCEPT ![r].pc = "mark"] /\ req[r].pc = "report"
        /\ conns' = conns
    BY <1>12 DEF Report
  <2>2. Keeps(r) /\ req'[r].pc = "mark"
    BY <2>1, PcAssigned
  <2> QED BY <1>1, <1>3, <2>1, <2>2 DEF Keeps
<1>13. CASE Mark(r)
  <2>1. req[r].pc = "mark" /\ conns' = conns
    BY <1>13 DEF Mark
  <2>2. req[r].ok \in BOOLEAN /\ req[r].upgrade \in BOOLEAN
    BY FlagsTyped DEF TypeOK
  <2>3. req'[r].pc \in {"report", "closing"} /\ req'[r].backend = req[r].backend
    BY <1>13, <2>2, MarkEffect
  <2> QED BY <1>1, <1>3, <2>1, <2>3
<1> QED BY <1>4, <1>5, <1>6, <1>7, <1>8, <1>9, <1>10, <1>11, <1>12, <1>13 DEF Handle

\* Allow admits handler r to backend c: it has a report to make from now on.
LEMMA AllowSets ==
    ASSUME TypeOK, Shape, NEW r \in Reqs, CircuitAllows(r),
           NEW c \in Backend, c = req[r].backend
    PROVE  /\ \A b \in Backend \ {c} : Reporting(b)' = Reporting(b)
           /\ \A b \in Backend : Upgrading(b)' = Upgrading(b)
           /\ r \notin Reporting(c)
           /\ IF HasBreaker /\ c \notin BadURLs
              THEN Reporting(c)' = Reporting(c) \cup {r}
              ELSE Reporting(c)' = Reporting(c)
<1>0. Moves(r) /\ ReqOK' /\ ReqOK
  BY HandleReqOK DEF Handle, ReqOK, TypeOK
<1>1. Membership /\ Membership'
  BY <1>0, MembershipHolds, PTL
<1>2. /\ req[r].pc = "check" /\ req'[r].pc = "admitted" /\ Keeps(r)
      /\ req[r].ok = FALSE /\ req[r].upgrade = FALSE
  BY PcAssigned DEF CircuitAllows, Shape
<1>3. \A b \in Backend : /\ r \notin Reporting(b) /\ r \notin Upgrading(b)
                         /\ r \notin Upgrading(b)'
                         /\ r \in Reporting(b)' <=> HasBreaker /\ b \notin BadURLs /\ b = c
  BY <1>1, <1>2 DEF Membership, Second, Keeps
<1>4. \A b \in Backend : /\ Reporting(b)' \ {r} = Reporting(b) \ {r}
                         /\ Upgrading(b)' \ {r} = Upgrading(b) \ {r}
  BY <1>0, SetsMove
<1>5. ASSUME NEW b \in Backend
      PROVE  /\ b # c => Reporting(b)' = Reporting(b)
             /\ Upgrading(b)' = Upgrading(b)
  <2>1. /\ r \notin Reporting(b) /\ r \notin Upgrading(b) /\ r \notin Upgrading(b)'
        /\ b # c => r \notin Reporting(b)'
    BY <1>3
  <2>2. Reporting(b)' \ {r} = Reporting(b) \ {r} /\ Upgrading(b)' \ {r} = Upgrading(b) \ {r}
    BY <1>4
  <2> QED BY <2>1, <2>2
<1>6. /\ r \notin Reporting(c)
      /\ r \in Reporting(c)' <=> HasBreaker /\ c \notin BadURLs
      /\ Reporting(c)' \ {r} = Reporting(c) \ {r}
  BY <1>3, <1>4
<1>7. IF HasBreaker /\ c \notin BadURLs
      THEN Reporting(c)' = Reporting(c) \cup {r}
      ELSE Reporting(c)' = Reporting(c)
  BY <1>6
<1> QED BY <1>5, <1>6, <1>7

\* A report takes handler r off the list, unless an upgrade's failure will follow.
LEMMA ReportSets ==
    ASSUME TypeOK, Shape, NEW r \in Reqs, Report(r),
           NEW c \in Backend, c = req[r].backend
    PROVE  /\ \A b \in Backend \ {c} : Reporting(b)' = Reporting(b) /\ Upgrading(b)' = Upgrading(b)
           /\ c \notin BadURLs
           /\ ~HasBreaker => Reporting(c)' = Reporting(c) /\ Upgrading(c)' = Upgrading(c)
           /\ HasBreaker => r \in Reporting(c)
           /\ HasBreaker /\ req[r].ok = TRUE => r \notin Upgrading(c)
           /\ HasBreaker /\ req[r].ok = TRUE /\ req[r].upgrade = TRUE =>
                 Reporting(c)' = Reporting(c) /\ Upgrading(c)' = Upgrading(c) \cup {r}
           /\ HasBreaker /\ req[r].ok = TRUE /\ req[r].upgrade = FALSE =>
                 Reporting(c)' = Reporting(c) \ {r} /\ Upgrading(c)' = Upgrading(c)
           /\ HasBreaker /\ req[r].ok = FALSE =>
                 Reporting(c)' = Reporting(c) \ {r} /\ Upgrading(c)' = Upgrading(c) \ {r}
<1>0. Moves(r) /\ ReqOK' /\ ReqOK
  BY HandleReqOK DEF Handle, ReqOK, TypeOK
<1>1. Membership /\ Membership'
  BY <1>0, MembershipHolds, PTL
<1>2. /\ req[r].pc = "report" /\ req'[r].pc = "mark" /\ Keeps(r) /\ c \notin BadURLs
  BY PcAssigned DEF Report, Shape
<1>3. \A b \in Backend :
         /\ r \in Reporting(b) <=> HasBreaker /\ b = c
         /\ r \in Upgrading(b) <=> HasBreaker /\ b = c /\ req[r].upgrade = TRUE /\ req[r].ok = FALSE
         /\ r \in Reporting(b)' <=> HasBreaker /\ b = c /\ req[r].upgrade = TRUE /\ req[r].ok = TRUE
         /\ r \in Upgrading(b)' <=> HasBreaker /\ b = c /\ req[r].upgrade = TRUE /\ req[r].ok = TRUE
  BY <1>1, <1>2 DEF Membership, Second, Keeps
<1>4. \A b \in Backend : /\ Reporting(b)' \ {r} = Reporting(b) \ {r}
                         /\ Upgrading(b)' \ {r} = Upgrading(b) \ {r}
  BY <1>0, SetsMove
<1>5. ASSUME NEW b \in Backend \ {c}
      PROVE  Reporting(b)' = Reporting(b) /\ Upgrading(b)' = Upgrading(b)
  <2>1. /\ r \notin Reporting(b) /\ r \notin Upgrading(b)
        /\ r \notin Reporting(b)' /\ r \notin Upgrading(b)'
    BY <1>3
  <2>2. Reporting(b)' \ {r} = Reporting(b) \ {r} /\ Upgrading(b)' \ {r} = Upgrading(b) \ {r}
    BY <1>4
  <2> QED BY <2>1, <2>2
<1>6. Reporting(c)' \ {r} = Reporting(c) \ {r} /\ Upgrading(c)' \ {r} = Upgrading(c) \ {r}
  BY <1>4
<1>7. /\ r \in Reporting(c) <=> HasBreaker
      /\ r \in Upgrading(c) <=> HasBreaker /\ req[r].upgrade = TRUE /\ req[r].ok = FALSE
      /\ r \in Reporting(c)' <=> HasBreaker /\ req[r].upgrade = TRUE /\ req[r].ok = TRUE
      /\ r \in Upgrading(c)' <=> HasBreaker /\ req[r].upgrade = TRUE /\ req[r].ok = TRUE
  BY <1>3
<1> QED BY <1>2, <1>5, <1>6, <1>7

\* What the two actions that use a breaker do to it.
LEMMA AllowBreaker ==
    ASSUME TypeOK, NEW r \in Reqs, CircuitAllows(r),
           NEW c \in Backend, c = req[r].backend
    PROVE  /\ breaker' \in [Backend -> BreakerType]
           /\ \A b \in Backend \ {c} : breaker'[b] = breaker[b]
           /\ ~HasBreaker => breaker'[c] = breaker[c]
           /\ HasBreaker => /\ Admits(breaker[c], now)
                            /\ breaker'[c] = Allow(breaker[c], now)
           /\ Len(breaker'[c].window) = Len(breaker[c].window)
<1>1. breaker[c] \in BreakerType /\ now \in Nat
  BY DEF TypeOK
<1>2. CASE HasBreaker
  <2>1. Admits(breaker[c], now) /\ breaker' = [breaker EXCEPT ![c] = Allow(breaker[c], now)]
    BY <1>2 DEF CircuitAllows
  <2>2. /\ Allow(breaker[c], now) \in BreakerType
        /\ Allow(breaker[c], now).window = breaker[c].window
    BY <1>1, <2>1, AllowEffect DEF BreakerType
  <2> QED BY <1>2, <2>1, <2>2 DEF TypeOK
<1>3. CASE ~HasBreaker
  BY <1>3 DEF CircuitAllows, TypeOK
<1> QED BY <1>2, <1>3

LEMMA ReportBreaker ==
    ASSUME TypeOK, NEW r \in Reqs, Report(r),
           NEW c \in Backend, c = req[r].backend
    PROVE  /\ breaker' \in [Backend -> BreakerType]
           /\ \A b \in Backend \ {c} : breaker'[b] = breaker[b]
           /\ ~HasBreaker => breaker'[c] = breaker[c]
           /\ HasBreaker /\ req[r].ok = TRUE => breaker'[c] = RecordSuccess(breaker[c], now)
           /\ HasBreaker /\ req[r].ok = FALSE => breaker'[c] = RecordFailure(breaker[c], now)
           /\ Len(breaker'[c].window) <= Len(breaker[c].window) + 1
<1>1. breaker[c] \in BreakerType /\ now \in Nat
  BY DEF TypeOK
<1>2. req[r].ok \in BOOLEAN
  BY FlagsTyped DEF TypeOK
<1>3. Len(breaker[c].window) \in Nat
  BY <1>1 DEF BreakerType
<1>4. CASE ~HasBreaker
  BY <1>3, <1>4 DEF Report, TypeOK
<1>5. CASE HasBreaker /\ req[r].ok = TRUE
  <2>1. breaker' = [breaker EXCEPT ![c] = RecordSuccess(breaker[c], now)]
    BY <1>5 DEF Report
  <2> QED BY <1>1, <1>5, <2>1, SuccessEffect DEF TypeOK
<1>6. CASE HasBreaker /\ req[r].ok = FALSE
  <2>1. breaker' = [breaker EXCEPT ![c] = RecordFailure(breaker[c], now)]
    BY <1>6 DEF Report
  <2> QED BY <1>1, <1>6, <2>1, FailureEffect DEF TypeOK
<1> QED BY <1>2, <1>4, <1>5, <1>6

\* The reports owed never exceed what Begin has left room for.
LEMMA AccountedStep ==
    ASSUME TypeOK, Shape, Accounted, NEW r \in Reqs, Handle(r)
    PROVE  Accounted'
<1> DEFINE F == Cardinality(Fresh)
           S == Cardinality(Second)
           L(b) == Len(breaker[b].window)
<1>0. Moves(r) /\ ReqOK'
  BY HandleReqOK
<1>1. /\ IsFiniteSet(Fresh) /\ IsFiniteSet(Second)
      /\ Fresh' \ {r} = Fresh \ {r} /\ Second' \ {r} = Second \ {r}
  BY <1>0, SetsFinite, OwedMove
<1>2. /\ F \in Nat /\ S \in Nat /\ F' \in Nat /\ S' \in Nat
      /\ r \in Fresh /\ r \notin Fresh' => F' = F - 1
      /\ r \notin Fresh /\ r \in Fresh' => F' = F + 1
      /\ (r \in Fresh <=> r \in Fresh') => F' = F
      /\ r \in Second /\ r \notin Second' => S' = S - 1
      /\ r \notin Second /\ r \in Second' => S' = S + 1
      /\ (r \in Second <=> r \in Second') => S' = S
  <2>1. /\ F \in Nat /\ F' \in Nat
        /\ r \in Fresh /\ r \notin Fresh' => F' = F - 1
        /\ r \notin Fresh /\ r \in Fresh' => F' = F + 1
        /\ (r \in Fresh <=> r \in Fresh') => F' = F
    BY <1>1, Counting
  <2>2. /\ S \in Nat /\ S' \in Nat
        /\ r \in Second /\ r \notin Second' => S' = S - 1
        /\ r \notin Second /\ r \in Second' => S' = S + 1
        /\ (r \in Second <=> r \in Second') => S' = S
    BY <1>1, Counting
  <2> QED BY <2>1, <2>2
<1>3. /\ r \in Fresh <=> \/ req[r].pc \in {"scan", "check", "admitted", "proxy"}
                         \/ req[r].pc = "report" /\ (req[r].ok = TRUE \/ req[r].upgrade = FALSE)
      /\ r \in Second <=> /\ req[r].upgrade = TRUE
                          /\ \/ req[r].pc = "mark" /\ req[r].ok = TRUE
                             \/ req[r].pc = "report" /\ req[r].ok = FALSE
      /\ r \in Fresh' <=> \/ req'[r].pc \in {"scan", "check", "admitted", "proxy"}
                          \/ req'[r].pc = "report" /\ (req'[r].ok = TRUE \/ req'[r].upgrade = FALSE)
      /\ r \in Second' <=> /\ req'[r].upgrade = TRUE
                           /\ \/ req'[r].pc = "mark" /\ req'[r].ok = TRUE
                              \/ req'[r].pc = "report" /\ req'[r].ok = FALSE
  BY DEF Fresh, Second
<1>4. req[r].ok \in BOOLEAN /\ req[r].upgrade \in BOOLEAN
  BY FlagsTyped DEF TypeOK
<1>5. \A b \in Backend : L(b) \in Nat /\ L(b) + 2 * F + S < MaxObservations + 2
  BY DEF Accounted, TypeOK, BreakerType
<1>6. MaxObservations \in Nat
  BY RouteAssumption
<1> HIDE DEF F, S
\* Nothing is reported and nothing new is owed.
<1>7. ASSUME \A b \in Backend : L(b)' = L(b),
             r \in Fresh' => r \in Fresh, r \in Second' <=> r \in Second
      PROVE  Accounted'
  <2>1. F' <= F /\ S' = S
    BY <1>2, <1>7
  <2>2. ASSUME NEW b \in Backend PROVE L(b)' + 2 * F' + S' < MaxObservations + 2
    <3>1. L(b)' = L(b) /\ L(b) \in Nat /\ L(b) + 2 * F + S < MaxObservations + 2
      BY <1>5, <1>7
    <3> HIDE DEF L
    <3> QED BY <1>2, <1>6, <2>1, <3>1
  <2> QED BY <2>2 DEF Accounted, F, S
<1>8. breaker' = breaker => \A b \in Backend : L(b)' = L(b)
  OBVIOUS
<1>9. CASE Begin(r)
  <2>1. /\ req[r].pc = "idle" /\ req[r].upgrade = FALSE /\ breaker' = breaker
        /\ req'[r].pc = "scan" /\ WithinBounds
    BY <1>9, PcAssigned DEF Begin, Shape
  <2>2. F' = F + 1 /\ S' = S
    BY <1>2, <1>3, <2>1
  <2>3. 2 * F + S <= 2 * Cardinality(UnderWay) /\ Cardinality(UnderWay) \in Nat
    <3>1. Fresh \cup Second \subseteq UnderWay /\ IsFiniteSet(UnderWay)
      <4>1. Fresh \cup Second \subseteq UnderWay /\ UnderWay \subseteq Reqs
        BY DEF Fresh, Second, UnderWay
      <4> QED BY <4>1, RouteAssumption, FS_Subset
    <3>2. Fresh \cap Second = {}
      BY DEF Fresh, Second
    <3>3. Cardinality(Fresh \cup Second) = F + S - 0
      BY <1>1, <3>2, FS_Union, FS_EmptySet DEF F, S
    <3>4. Cardinality(Fresh \cup Second) <= Cardinality(UnderWay) /\ Cardinality(UnderWay) \in Nat
      BY <3>1, FS_Subset, FS_CardinalityType
    <3> QED BY <1>2, <3>3, <3>4
  <2>4. ASSUME NEW b \in Backend PROVE L(b)' + 2 * F' + S' < MaxObservations + 2
    <3>1. L(b)' = L(b) /\ L(b) \in Nat /\ L(b) + 2 * Cardinality(UnderWay) < MaxObservations
      BY <1>5, <1>8, <2>1 DEF WithinBounds
    <3> HIDE DEF L
    <3> QED BY <1>2, <1>6, <2>2, <2>3, <3>1
  <2> QED BY <2>4 DEF Accounted, F, S
<1>10. CASE Scan(r)
  <2>1. req[r].pc = "scan" /\ breaker' = breaker /\ req'[r].pc = "scan"
    BY <1>10, ScanEffect DEF Scan
  <2> QED BY <1>3, <1>7, <1>8, <2>1
<1>11. CASE NoHealthyBackend(r) \/ CircuitOpen(r) \/ Close(r)
  <2>1. /\ req' = [req EXCEPT ![r] = Idle] /\ req[r].pc \in {"scan", "check", "closing"}
        /\ breaker' = breaker
    BY <1>11 DEF NoHealthyBackend, CircuitOpen, Close
  <2>2. req'[r].pc = "idle"
    BY <2>1, IdleEffect
  <2> QED BY <1>3, <1>7, <1>8, <2>1, <2>2
<1>12. CASE Pick(r)
  <2>1. req[r].pc = "scan" /\ breaker' = breaker /\ req'[r].pc = "check"
    BY <1>12, PickEffect DEF Pick
  <2> QED BY <1>3, <1>7, <1>8, <2>1
<1>13. CASE CircuitAllows(r)
  <2>1. PICK c \in Backend : c = req[r].backend
    BY <1>13 DEF CircuitAllows, Shape
  <2>2. \A b \in Backend : L(b)' = L(b)
    BY <1>13, <2>1, AllowBreaker
  <2>3. req[r].pc = "check" /\ req'[r].pc = "admitted"
    BY <1>13, PcAssigned DEF CircuitAllows
  <2> QED BY <1>3, <1>7, <2>2, <2>3
<1>14. CASE Forward(r)
  <2>1. breaker' = breaker /\ req[r].pc = "admitted"
    BY <1>14 DEF Forward
  <2> DEFINE p == IF req[r].backend \in BadURLs THEN "closing" ELSE "proxy"
  <2>2. req' = [req EXCEPT ![r].pc = p] /\ p \in {"closing", "proxy"}
    BY <1>14 DEF Forward
  <2> HIDE DEF p
  <2>3. req'[r].pc \in {"closing", "proxy"}
    BY <2>2, PcAssigned
  <2> QED BY <1>3, <1>7, <1>8, <2>1, <2>3
<1>15. CASE Answer(r)
  <2>1. req[r].pc = "proxy" /\ breaker' = breaker
    BY <1>15 DEF Answer
  <2>2. req'[r].pc = "report" /\ (req'[r].ok = TRUE \/ req'[r].upgrade = FALSE)
    BY <1>15, AnswerEffect
  <2> QED BY <1>3, <1>7, <1>8, <2>1, <2>2
<1>16. CASE Mark(r)
  <2>1. req[r].pc = "mark" /\ breaker' = breaker
    BY <1>16 DEF Mark
  <2>2. \/ req[r].ok = TRUE /\ req[r].upgrade = TRUE
        \/ req[r].ok = FALSE \/ req[r].upgrade = FALSE
    BY <1>4
  <2>3. /\ req'[r].upgrade = req[r].upgrade
        /\ req[r].ok = TRUE /\ req[r].upgrade = TRUE =>
             req'[r].pc = "report" /\ req'[r].ok = FALSE
        /\ req[r].ok = FALSE \/ req[r].upgrade = FALSE => req'[r].pc = "closing"
    BY <1>16, MarkEffect
  <2> QED BY <1>3, <1>7, <1>8, <2>1, <2>2, <2>3
<1>17. CASE Report(r)
  <2>1. PICK c \in Backend : c = req[r].backend
    BY <1>17 DEF Report, Shape
  <2>2. req[r].pc = "report" /\ req'[r].pc = "mark" /\ Keeps(r)
    BY <1>17, PcAssigned DEF Report
  <2>3. 2 * F' + S' <= 2 * F + S - 1
    BY <1>2, <1>3, <1>4, <2>2 DEF Keeps
  <2>4. ASSUME NEW b \in Backend PROVE L(b)' + 2 * F' + S' < MaxObservations + 2
    <3>1. L(b)' <= L(b) + 1 /\ L(b)' \in Nat
      <4>1. breaker' \in [Backend -> BreakerType] /\ (b # c => breaker'[b] = breaker[b])
            /\ Len(breaker'[c].window) <= Len(breaker[c].window) + 1
        BY <1>17, <2>1, ReportBreaker
      <4>2. L(b) \in Nat /\ L(b)' \in Nat
        BY <1>5, <4>1 DEF BreakerType
      <4>3. CASE b = c
        BY <4>1, <4>2, <4>3
      <4>4. CASE b # c
        <5>1. L(b)' = L(b)
          BY <4>1, <4>4
        <5> HIDE DEF L
        <5> QED BY <4>2, <5>1
      <4> QED BY <4>3, <4>4
    <3>2. L(b) \in Nat /\ L(b) + 2 * F + S < MaxObservations + 2
      BY <1>5
    <3>3. F \in Nat /\ S \in Nat /\ F' \in Nat /\ S' \in Nat
      BY <1>2
    <3> HIDE DEF L
    <3>4. ASSUME NEW l \in Nat, NEW k \in Nat, NEW f \in Nat, NEW e \in Nat,
                 NEW g \in Nat, NEW h \in Nat, k <= l + 1,
                 l + 2 * f + e < MaxObservations + 2, 2 * g + h <= 2 * f + e - 1
          PROVE  k + 2 * g + h < MaxObservations + 2
      BY <1>6, <3>4
    <3> QED BY <2>3, <3>1, <3>2, <3>3, <3>4
  <2> QED BY <2>4 DEF Accounted, F, S
<1> QED BY <1>9, <1>10, <1>11, <1>12, <1>13, <1>14, <1>15, <1>16, <1>17 DEF Handle

\* The breakers keep their protocol whatever a handler does.
LEMMA QuotaStep ==
    ASSUME TypeOK, Shape, SilentClosed, QuotaInv, NEW r \in Reqs, Handle(r)
    PROVE  breaker' \in [Backend -> BreakerType] /\ SilentClosed' /\ QuotaInv'
<1>0. cfg.HalfOpenRequests \in Int
  BY ConfigTyped DEF ConfigType
<1>1. CASE Quiet(r)
  <2>1. breaker' = breaker
    BY <1>1 DEF Quiet, Begin, Scan, NoHealthyBackend, Pick, CircuitOpen, Forward, Answer, Mark, Close
  <2>2. \A b \in Backend : Reporting(b)' = Reporting(b)
    BY <1>1, QuietReports
  <2> QED BY <2>1, <2>2 DEF TypeOK, SilentClosed, QuotaInv
<1>2. CASE CircuitAllows(r)
  <2>1. PICK c \in Backend : c = req[r].backend
    BY <1>2 DEF CircuitAllows, Shape
  <2>2. breaker[c] \in BreakerType /\ now \in Nat
    BY DEF TypeOK
  <2>3. /\ breaker' \in [Backend -> BreakerType]
        /\ \A b \in Backend \ {c} : breaker'[b] = breaker[b]
        /\ ~HasBreaker => breaker'[c] = breaker[c]
        /\ HasBreaker => Admits(breaker[c], now) /\ breaker'[c] = Allow(breaker[c], now)
    BY <1>2, <2>1, AllowBreaker
  <2>4. /\ \A b \in Backend \ {c} : Reporting(b)' = Reporting(b)
        /\ HasBreaker /\ c \notin BadURLs => r \in Reporting(c)'
    BY <1>2, <2>1, AllowSets
  <2>5. CASE ~HasBreaker \/ c \in BadURLs
    <3>1. breaker'[c] = breaker[c] /\ breaker[c].state = "closed"
      BY <2>2, <2>3, <2>5, AllowEffect DEF SilentClosed
    <3> QED BY <2>3, <2>4, <3>1 DEF SilentClosed, QuotaInv
  <2>6. CASE HasBreaker /\ c \notin BadURLs
    <3>1. breaker'[c].state = "half-open" => breaker'[c].halfOpenFailures = 0
      BY <2>2, <2>3, <2>6, AllowEffect DEF QuotaInv, BreakerType
    <3>2. SilentClosed'
      BY <2>3, <2>6 DEF SilentClosed
    <3>3. QuotaInv'
      BY <2>3, <2>4, <2>6, <3>1 DEF QuotaInv
    <3> QED BY <2>3, <3>2, <3>3
  <2> QED BY <2>5, <2>6
<1>3. CASE Report(r)
  <2>1. PICK c \in Backend : c = req[r].backend
    BY <1>3 DEF Report, Shape
  <2>2. breaker[c] \in BreakerType /\ now \in Nat /\ req[r].ok \in BOOLEAN
    BY FlagsTyped DEF TypeOK
  <2>3. /\ breaker' \in [Backend -> BreakerType]
        /\ \A b \in Backend \ {c} : breaker'[b] = breaker[b]
        /\ ~HasBreaker => breaker'[c] = breaker[c]
        /\ HasBreaker /\ req[r].ok = TRUE => breaker'[c] = RecordSuccess(breaker[c], now)
        /\ HasBreaker /\ req[r].ok = FALSE => breaker'[c] = RecordFailure(breaker[c], now)
    BY <1>3, <2>1, ReportBreaker
  <2>4. /\ \A b \in Backend \ {c} : Reporting(b)' = Reporting(b)
        /\ c \notin BadURLs
    BY <1>3, <2>1, ReportSets
  <2>5. CASE ~HasBreaker
    <3>1. breaker'[c] = breaker[c] /\ breaker[c].state = "closed"
      BY <2>3, <2>5 DEF SilentClosed
    <3> QED BY <2>3, <2>4, <3>1 DEF SilentClosed, QuotaInv
  <2>6. CASE HasBreaker
    <3>1. SilentClosed'
      BY <2>3, <2>4, <2>6 DEF SilentClosed
    <3>2. breaker'[c].state = "half-open" =>
             /\ breaker'[c].halfOpenFailures = 0
             /\ breaker'[c].halfOpenTotal < cfg.HalfOpenRequests
      <4>1. CASE req[r].ok = TRUE
        <5>1. breaker'[c].state = "half-open" =>
                 /\ breaker'[c] = breaker[c]
                 /\ ~(breaker[c].halfOpenTotal - breaker[c].halfOpenFailures >= cfg.HalfOpenRequests)
          BY <2>2, <2>3, <2>6, <4>1, SuccessEffect DEF BreakerType
        <5>2. breaker[c].state = "half-open" => breaker[c].halfOpenFailures = 0
          BY DEF QuotaInv
        <5>3. breaker[c].halfOpenTotal \in Nat /\ breaker[c].halfOpenFailures \in Nat
          BY <2>2 DEF BreakerType
        <5> QED BY <1>0, <5>1, <5>2, <5>3
      <4>2. CASE req[r].ok = FALSE
        BY <2>2, <2>3, <2>6, <4>2, FailureEffect DEF BreakerType
      <4> QED BY <2>2, <4>1, <4>2
    <3>3. breaker'[c].halfOpenTotal \in Nat
      BY <2>3 DEF BreakerType
    <3>4. QuotaInv'
      BY <1>0, <2>3, <2>4, <3>2, <3>3 DEF QuotaInv
    <3> QED BY <2>3, <3>1, <3>4
  <2> QED BY <2>5, <2>6
<1> QED BY <1>1, <1>2, <1>3 DEF Handle, Quiet

-----------------------------------------------------------------------------
\* The invariant

LEMMA InitIInv == Init => IInv
<1> SUFFICES ASSUME Init PROVE IInv
  OBVIOUS
<1>1. /\ \A r \in Reqs : req[r] = Idle
      /\ \A b \in Backend : breaker[b] = New /\ conns[b] = 0
  BY DEF Init
<1>2. TypeOK
  BY IdleTyped, NewTyped DEF Init, TypeOK
<1>3. Shape /\ SilentClosed /\ QuotaInv
  BY <1>1, IdleTyped, NewTyped DEF Shape, SilentClosed, QuotaInv
<1>4. InflightExact
  <2>1. \A b \in Backend : Connected(b) = {}
    BY <1>1, IdleTyped DEF Connected
  <2> QED BY <1>1, <2>1, FS_EmptySet DEF InflightExact
<1>5. Accounted
  <2>1. Fresh = {} /\ Second = {}
    BY <1>1, IdleTyped DEF Fresh, Second
  <2>2. Cardinality(Fresh) = 0 /\ Cardinality(Second) = 0
    BY <2>1, FS_EmptySet
  <2>3. \A b \in Backend : Len(breaker[b].window) = 0
    BY <1>1, NewTyped
  <2> QED BY <2>2, <2>3, RouteAssumption DEF Accounted
<1> QED BY <1>2, <1>3, <1>4, <1>5 DEF IInv

\* A step that leaves the handlers, the counts and the breakers alone.
LEMMA IdleStep ==
    ASSUME IInv, UNCHANGED <<req, conns, breaker>>, TypeOK'
    PROVE  IInv'
<1>1. /\ Fresh' = Fresh /\ Second' = Second
      /\ \A b \in Backend : Connected(b)' = Connected(b) /\ Reporting(b)' = Reporting(b)
  BY DEF Fresh, Second, Connected, Reporting
<1> QED BY <1>1 DEF IInv, Shape, SilentClosed, QuotaInv, InflightExact, Accounted

LEMMA StepIInv == IInv /\ [Next]_vars => IInv'
<1> SUFFICES ASSUME IInv, [Next]_vars PROVE IInv'
  OBVIOUS
<1>1. ASSUME NEW r \in Reqs, Handle(r) PROVE IInv'
  <2>1. Shape' /\ req' \in [Reqs -> HandlerType]
    BY <1>1, HandleReqOK DEF IInv, ReqOK
  <2>2. conns' \in [Backend -> Nat] /\ InflightExact'
    BY <1>1, InflightStep DEF IInv
  <2>3. breaker' \in [Backend -> BreakerType] /\ SilentClosed' /\ QuotaInv'
    BY <1>1, QuotaStep DEF IInv
  <2>4. Accounted'
    BY <1>1, AccountedStep DEF IInv
  <2>5. up' = up /\ flips' = flips /\ probe' = probe /\ now' = now
    BY <1>1 DEF Handle, Begin, Scan, NoHealthyBackend, Pick, CircuitAllows, CircuitOpen,
                Forward, Answer, Report, Mark, Close
  <2>6. alive' \in [Backend -> BOOLEAN]
    <3>1. CASE Mark(r)
      <4>1. alive' = [alive EXCEPT ![req[r].backend] = req[r].ok] /\ req[r].ok \in BOOLEAN
        BY <3>1, FlagsTyped DEF Mark, IInv, TypeOK
      <4> QED BY <4>1 DEF IInv, TypeOK
    <3>2. CASE ~Mark(r)
      <4>1. alive' = alive
        BY <1>1, <3>2 DEF Handle, Begin, Scan, NoHealthyBackend, Pick, CircuitAllows,
                CircuitOpen, Forward, Answer, Report, Close
      <4> QED BY <4>1 DEF IInv, TypeOK
    <3> QED BY <3>1, <3>2
  <2> QED BY <2>1, <2>2, <2>3, <2>4, <2>5, <2>6 DEF IInv, TypeOK
<1>2. CASE BeginRound
  BY <1>2, IdleStep DEF BeginRound, IInv, TypeOK
<1>3. ASSUME NEW b \in Backend, ProbeAnswer(b) PROVE IInv'
  BY <1>3, IdleStep DEF ProbeAnswer, IInv, TypeOK
<1>4. ASSUME NEW b \in Backend, ProbeApply(b) PROVE IInv'
  BY <1>4, IdleStep DEF ProbeApply, IInv, TypeOK
<1>5. ASSUME NEW b \in Backend, Flip(b) PROVE IInv'
  BY <1>5, IdleStep DEF Flip, IInv, TypeOK
<1>6. CASE Tick
  BY <1>6, IdleStep DEF Tick, IInv, TypeOK
<1>7. CASE UNCHANGED vars
  BY <1>7, IdleStep DEF vars, IInv, TypeOK
<1> QED BY <1>1, <1>2, <1>3, <1>4, <1>5, <1>6, <1>7 DEF Next, Check

-----------------------------------------------------------------------------
\* What it implies

\* The handlers, the counts, the breakers and the probes keep their types; in
\* particular Dec never makes a count negative.
THEOREM TypeCorrect == Spec => []TypeOK
<1>1. IInv => TypeOK
  BY DEF IInv
<1> QED BY <1>1, InitIInv, StepIInv, PTL DEF Spec

\* Backend.inflight is the number of requests the backend is serving.
THEOREM InflightTheorem == Spec => []InflightExact
<1>1. IInv => InflightExact
  BY DEF IInv
<1> QED BY <1>1, InitIInv, StepIInv, PTL DEF Spec

\* A half-open breaker that rejects everybody has an admitted request that will
\* still report, whatever early returns serveProxy has taken.
THEOREM NoStuckTheorem == Spec => []NoStuckHalfOpen
<1>1. IInv => NoStuckHalfOpen
  <2> SUFFICES ASSUME IInv, NEW b \in Backend,
                      breaker[b].state = "half-open", ~Admits(breaker[b], now)
               PROVE  Reporting(b) # {}
    BY DEF NoStuckHalfOpen
  <2>1. breaker[b].halfOpenTotal \in Nat /\ cfg.HalfOpenRequests \in Int
    BY ConfigTyped DEF IInv, TypeOK, BreakerType, ConfigType
  <2>2. breaker[b].halfOpenTotal >= cfg.HalfOpenRequests
    BY <2>1 DEF Admits
  <2> QED BY <2>2 DEF IInv, QuotaInv
<1> QED BY <1>1, InitIInv, StepIInv, PTL DEF Spec

-----------------------------------------------------------------------------
\* The breakers of a route are circuit breakers

\* The instance's operators are the ones of Breaker.
LEMMA SameCardinality ==
    ASSUME NEW b \in Backend, NEW S
    PROVE  Circuit(b)!Cardinality(S) = Cardinality(S)
BY Zenon DEF Circuit!Cardinality, Cardinality, Circuit!IsFiniteSet, IsFiniteSet

LEMMA SameOperators ==
    ASSUME NEW b \in Backend, NEW x, NEW t
    PROVE  /\ Circuit(b)!Admits(x, t) <=> Admits(x, t)
           /\ Circuit(b)!Allow(x, t) = Allow(x, t)
           /\ Circuit(b)!RecordSuccess(x, t) = RecordSuccess(x, t)
           /\ Circuit(b)!RecordFailure(x, t) = RecordFailure(x, t)
<1> USE DEF Circuit!OrDefault, OrDefault, Circuit!cfg, cfg, Circuit!TransitionTo, TransitionTo,
            Circuit!Record, Record, Circuit!EvictBefore, EvictBefore, Circuit!Min, Min
<1>1. Circuit(b)!Admits(x, t) <=> Admits(x, t)
  BY DEF Circuit!Admits, Admits, Circuit!OpenPeriodOver, OpenPeriodOver
<1>2. Circuit(b)!Allow(x, t) = Allow(x, t)
  BY Zenon DEF Circuit!Admits, Admits, Circuit!OpenPeriodOver, OpenPeriodOver, Circuit!Allow, Allow
<1>3. Circuit(b)!RecordSuccess(x, t) = RecordSuccess(x, t)
  BY Zenon DEF Circuit!RecordSuccess, RecordSuccess
<1>4. Circuit(b)!RecordFailure(x, t) = RecordFailure(x, t)
  BY Zenon DEF Circuit!RecordFailure, RecordFailure, Circuit!MaybeTrip, MaybeTrip,
               Circuit!AtThreshold, AtThreshold, Circuit!FailureCount, FailureCount,
               Circuit!Cardinality, Cardinality, Circuit!IsFiniteSet, IsFiniteSet
<1> QED BY <1>1, <1>2, <1>3, <1>4

\* Begin's guard leaves room for what CircuitBreaker's guard asks of an admission.
LEMMA RoomToAdmit ==
    ASSUME IInv, NEW r \in Reqs, req[r].pc = "check", NEW c \in Backend
    PROVE  Len(breaker[c].window) + 2 * Cardinality(Reporting(c)) - Cardinality(Upgrading(c))
             < MaxObservations
<1> DEFINE R == Reporting(c)
           U == Upgrading(c)
<1>0. ReqOK
  BY DEF IInv, TypeOK, ReqOK
<1>1. Membership
  BY <1>0, MembershipHolds
<1>2. U \subseteq R /\ R \subseteq Reqs
  BY DEF Upgrading, Reporting
<1>3. \A q \in R : /\ q \in U <=> q \in Second
                   /\ \/ req[q].pc \in {"admitted", "proxy", "report"}
                      \/ req[q].pc = "mark" /\ req[q].ok = TRUE /\ req[q].upgrade = TRUE
  BY <1>1, <1>2 DEF Membership
<1>4. \A q \in Reqs : req[q].ok \in BOOLEAN /\ req[q].upgrade \in BOOLEAN
  BY <1>0, FlagsTyped DEF ReqOK
<1>5. U \subseteq Second
  BY <1>2, <1>3
<1>6. R \ U \subseteq Fresh \ {r}
  <2> SUFFICES ASSUME NEW q \in R \ U PROVE q \in Fresh \ {r}
    OBVIOUS
  <2>1. q \in Reqs /\ q \notin Second
    BY <1>2, <1>3
  <2>2. \/ req[q].pc \in {"admitted", "proxy", "report"}
        \/ req[q].pc = "mark" /\ req[q].ok = TRUE /\ req[q].upgrade = TRUE
    BY <1>3
  <2>3. q # r
    BY <2>2
  <2>4. req[q].ok \in BOOLEAN /\ req[q].upgrade \in BOOLEAN
    BY <1>4, <2>1
  <2> QED BY <2>1, <2>2, <2>3, <2>4 DEF Fresh, Second
<1>7. r \in Fresh
  BY DEF Fresh
<1>8. IsFiniteSet(Fresh) /\ IsFiniteSet(Second) /\ IsFiniteSet(R) /\ IsFiniteSet(U)
  BY SetsFinite
<1> HIDE DEF R, U
<1>9. Cardinality(R \ U) = Cardinality(R) - Cardinality(U)
  <2>1. R \cap U = U
    BY <1>2
  <2> QED BY <1>8, <2>1, FS_Difference
<1>10. Cardinality(U) <= Cardinality(Second)
  BY <1>5, <1>8, FS_Subset
<1>11. Cardinality(R \ U) <= Cardinality(Fresh) - 1
  <2>1. IsFiniteSet(Fresh \ {r}) /\ Cardinality(Fresh \ {r}) = Cardinality(Fresh) - 1
    BY <1>7, <1>8, FS_RemoveElement
  <2> QED BY <1>6, <2>1, FS_Subset
<1>12. /\ Cardinality(R) \in Nat /\ Cardinality(U) \in Nat
       /\ Cardinality(Fresh) \in Nat /\ Cardinality(Second) \in Nat
  BY <1>8, FS_CardinalityType
<1>13. /\ Len(breaker[c].window) \in Nat /\ MaxObservations \in Nat
       /\ Len(breaker[c].window) + 2 * Cardinality(Fresh) + Cardinality(Second)
            < MaxObservations + 2
  BY RouteAssumption DEF IInv, Accounted, TypeOK, BreakerType
<1>14. ASSUME NEW l \in Nat, NEW n \in Nat, NEW u \in Nat, NEW f \in Nat, NEW e \in Nat,
              n - u <= f - 1, u <= e, l + 2 * f + e < MaxObservations + 2
       PROVE  l + 2 * n - u < MaxObservations
  BY <1>13, <1>14
<1> QED BY <1>9, <1>10, <1>11, <1>12, <1>13, <1>14 DEF R, U

\* Seen from backend b, a step of the route is a step of its circuit breaker.
LEMMA StepRefines ==
    ASSUME IInv, Next, NEW b \in Backend
    PROVE  [Circuit(b)!Next]_(Circuit(b)!vars)
<1> DEFINE Still == /\ breaker[b]' = breaker[b] /\ now' = now
                    /\ Reporting(b)' = Reporting(b) /\ Upgrading(b)' = Upgrading(b)
<1>1. Still => UNCHANGED Circuit(b)!vars
  BY DEF Circuit!vars
<1>2. TypeOK /\ Shape
  BY DEF IInv
<1>3. ASSUME NEW r \in Reqs, Quiet(r) PROVE Still
  <2>1. breaker' = breaker /\ now' = now
    BY <1>3 DEF Quiet, Begin, Scan, NoHealthyBackend, Pick, CircuitOpen, Forward, Answer, Mark, Close
  <2> QED BY <1>2, <1>3, <2>1, QuietReports
<1>4. ASSUME NEW r \in Reqs, CircuitAllows(r) PROVE Still \/ Circuit(b)!Admit(r)
  <2>1. PICK c \in Backend : c = req[r].backend
    BY <1>2, <1>4 DEF CircuitAllows, Shape
  <2>2. now' = now /\ req[r].pc = "check"
    BY <1>4 DEF CircuitAllows
  <2>3. /\ b # c => Reporting(b)' = Reporting(b)
        /\ Upgrading(b)' = Upgrading(b) /\ r \notin Reporting(c)
        /\ IF HasBreaker /\ c \notin BadURLs
           THEN Reporting(c)' = Reporting(c) \cup {r}
           ELSE Reporting(c)' = Reporting(c)
    BY <1>2, <1>4, <2>1, AllowSets
  <2>4. /\ b # c => breaker'[b] = breaker[b]
        /\ ~HasBreaker => breaker'[c] = breaker[c]
        /\ HasBreaker => Admits(breaker[c], now) /\ breaker'[c] = Allow(breaker[c], now)
    BY <1>2, <1>4, <2>1, AllowBreaker
  <2>5. CASE b # c
    BY <2>2, <2>3, <2>4, <2>5
  <2>6. CASE b = c /\ (~HasBreaker \/ c \in BadURLs)
    <3>1. breaker[c].state = "closed" /\ breaker[c] \in BreakerType /\ now \in Nat
      BY <1>2, <2>6 DEF IInv, SilentClosed, TypeOK
    <3>2. breaker'[c] = breaker[c]
      BY <2>4, <2>6, <3>1, AllowEffect
    <3> QED BY <2>2, <2>3, <2>6, <3>2
  <2>7. CASE b = c /\ HasBreaker /\ c \notin BadURLs
    <3>1. Circuit(b)!Admits(breaker[b], now) /\ breaker'[b] = Circuit(b)!Allow(breaker[b], now)
      BY <2>4, <2>7, SameOperators
    <3>2. Circuit(b)!WithinBounds
      BY <2>2, RoomToAdmit, SameCardinality DEF Circuit!WithinBounds
    <3> QED BY <2>2, <2>3, <2>7, <3>1, <3>2 DEF Circuit!Admit
  <2> QED BY <2>5, <2>6, <2>7
<1>5. ASSUME NEW r \in Reqs, Report(r)
      PROVE  Still \/ Circuit(b)!Succeed(r) \/ Circuit(b)!Upgrade(r) \/ Circuit(b)!Fail(r)
  <2>1. PICK c \in Backend : c = req[r].backend
    BY <1>2, <1>5 DEF Report, Shape
  <2>2. now' = now /\ req[r].ok \in BOOLEAN /\ req[r].upgrade \in BOOLEAN
    BY <1>2, <1>5, FlagsTyped DEF Report, TypeOK
  <2>3. /\ b # c => breaker'[b] = breaker[b]
        /\ ~HasBreaker => breaker'[c] = breaker[c]
        /\ HasBreaker /\ req[r].ok = TRUE => breaker'[c] = RecordSuccess(breaker[c], now)
        /\ HasBreaker /\ req[r].ok = FALSE => breaker'[c] = RecordFailure(breaker[c], now)
    BY <1>2, <1>5, <2>1, ReportBreaker
  <2>4. CASE b # c
    <3>1. Reporting(b)' = Reporting(b) /\ Upgrading(b)' = Upgrading(b)
      BY <1>2, <1>5, <2>1, <2>4, ReportSets
    <3> QED BY <2>2, <2>3, <2>4, <3>1
  <2>5. CASE b = c /\ ~HasBreaker
    <3>1. Reporting(b)' = Reporting(b) /\ Upgrading(b)' = Upgrading(b)
      BY <1>2, <1>5, <2>1, <2>5, ReportSets
    <3> QED BY <2>2, <2>3, <2>5, <3>1
  <2>6. CASE b = c /\ HasBreaker /\ req[r].ok = TRUE /\ req[r].upgrade = TRUE
    <3>1. /\ r \in Reporting(b) \ Upgrading(b)
          /\ Reporting(b)' = Reporting(b) /\ Upgrading(b)' = Upgrading(b) \cup {r}
      BY <1>2, <1>5, <2>1, <2>6, ReportSets
    <3>2. breaker'[b] = Circuit(b)!RecordSuccess(breaker[b], now)
      BY <2>3, <2>6, SameOperators
    <3> QED BY <2>2, <3>1, <3>2 DEF Circuit!Upgrade
  <2>7. CASE b = c /\ HasBreaker /\ req[r].ok = TRUE /\ req[r].upgrade = FALSE
    <3>1. /\ r \in Reporting(b) \ Upgrading(b)
          /\ Reporting(b)' = Reporting(b) \ {r} /\ Upgrading(b)' = Upgrading(b)
      BY <1>2, <1>5, <2>1, <2>7, ReportSets
    <3>2. breaker'[b] = Circuit(b)!RecordSuccess(breaker[b], now)
      BY <2>3, <2>7, SameOperators
    <3> QED BY <2>2, <3>1, <3>2 DEF Circuit!Succeed
  <2>8. CASE b = c /\ HasBreaker /\ req[r].ok = FALSE
    <3>1. /\ r \in Reporting(b)
          /\ Reporting(b)' = Reporting(b) \ {r} /\ Upgrading(b)' = Upgrading(b) \ {r}
      BY <1>2, <1>5, <2>1, <2>8, ReportSets
    <3>2. breaker'[b] = Circuit(b)!RecordFailure(breaker[b], now)
      BY <2>3, <2>8, SameOperators
    <3> QED BY <2>2, <3>1, <3>2 DEF Circuit!Fail
  <2> QED BY <2>2, <2>4, <2>5, <2>6, <2>7, <2>8
<1>6. ASSUME UNCHANGED <<breaker, req, now>> PROVE Still
  BY <1>6 DEF Reporting, Upgrading
<1>7. CASE Check \/ \E c \in Backend : Flip(c)
  <2>1. UNCHANGED <<breaker, req, now>>
    BY <1>7 DEF Check, BeginRound, ProbeAnswer, ProbeApply, Flip
  <2> QED BY <1>1, <1>6, <2>1
<1>8. CASE Tick
  <2>1. Reporting(b)' = Reporting(b) /\ Upgrading(b)' = Upgrading(b)
    BY <1>8 DEF Tick, Reporting, Upgrading
  <2>2. Circuit(b)!Tick
    BY <1>8, <2>1 DEF Tick, Circuit!Tick
  <2> QED BY <2>2 DEF Circuit!Next
<1> HIDE DEF Still
<1>9. CASE \E r \in Reqs : Handle(r)
  BY <1>1, <1>3, <1>4, <1>5, <1>9 DEF Handle, Quiet, Circuit!Next
<1> QED BY <1>1, <1>7, <1>8, <1>9 DEF Next

\* Whatever handlers, probes and clock do, every breaker of the route behaves as
\* CircuitBreaker specifies: one report for each admission, two for an upgrade.
THEOREM BreakersTheorem == Spec => BreakersRefined
<1> DEFINE Refined == \A b \in Backend : [Circuit(b)!Next]_(Circuit(b)!vars)
<1>1. IInv /\ [Next]_vars => [Refined]_vars
  BY StepRefines
<1> QED BY <1>1, InitIInv, StepIInv, PTL DEF Spec, BreakersRefined

\* Route implements CircuitBreaker, once for each backend: its initial states map
\* to initial states and its steps to steps or stutters.
THEOREM CircuitRefinement ==
    ASSUME NEW b \in Backend
    PROVE  Spec => Circuit(b)!Spec
<1>1. Init => Circuit(b)!Init
  <2> SUFFICES ASSUME Init PROVE Circuit(b)!Init
    OBVIOUS
  <2>1. \A r \in Reqs : req[r].pc = "idle"
    BY IdleTyped DEF Init
  <2>2. Reporting(b) = {} /\ Upgrading(b) = {}
    BY <2>1 DEF Reporting, Upgrading
  <2>3. breaker[b] = New /\ now = 0
    BY DEF Init
  <2> QED BY <2>2, <2>3 DEF Circuit!Init, Circuit!New, New
<1>2. IInv /\ [Next]_vars => [Circuit(b)!Next]_(Circuit(b)!vars)
  <2> SUFFICES ASSUME IInv, [Next]_vars PROVE [Circuit(b)!Next]_(Circuit(b)!vars)
    OBVIOUS
  <2>1. CASE Next
    BY <2>1, StepRefines
  <2>2. CASE UNCHANGED vars
    BY <2>2 DEF vars, Circuit!vars, Reporting, Upgrading
  <2> QED BY <2>1, <2>2
<1> QED BY <1>1, <1>2, InitIInv, StepIInv, PTL DEF Spec, Circuit!Spec

-----------------------------------------------------------------------------
\* A backend that is down

\* The handlers that hold a success of b and have yet to store it.
Late(b) == {r \in Reqs : /\ req[r].backend = b
                         /\ req[r].pc \in {"report", "mark"}
                         /\ req[r].ok = TRUE}

\* While b is down no new success comes up, from the proxy or from a probe, and b is
\* put back into rotation only by one that was under way, which is used up by that.
UsesUpLate(b) ==
    /\ Late(b)' \subseteq Late(b)
    /\ probe'[b] = "up" => probe[b] = "up"
    /\ ~alive[b] /\ alive'[b] => \/ Late(b)' # Late(b)
                                 \/ probe[b] = "up" /\ probe'[b] # "up"

\* What RemovedWhenDown rests on: while a backend stays down it returns to rotation
\* at most once for each answer that it gave before, and these become fewer each time
\* (gateway.go lines 310-327, health.go's setAlive).
ReturnsOnLateAnswers ==
    [][\A b \in Backend : ~up[b] /\ ~up'[b] => UsesUpLate(b)]_vars

LEMMA LateMoves ==
    ASSUME NEW r \in Reqs, Moves(r), NEW b \in Backend,
           r \in Late(b)' => r \in Late(b)
    PROVE  Late(b)' \subseteq Late(b)
BY DEF Moves, Late

LEMMA HandleLate ==
    ASSUME TypeOK, Shape, NEW r \in Reqs, Handle(r), NEW b \in Backend, ~up[b]
    PROVE  UsesUpLate(b)
<1>1. Moves(r) /\ probe' = probe
  <2>1. probe' = probe
    BY DEF Handle, Begin, Scan, NoHealthyBackend, Pick, CircuitAllows, CircuitOpen, Forward,
           Answer, Report, Mark, Close
  <2> QED BY <2>1, HandleReqOK
<1>2. CASE Mark(r)
  <2>1. req[r].ok \in BOOLEAN /\ req[r].upgrade \in BOOLEAN /\ req[r].backend \in Backend
    BY <1>2, FlagsTyped DEF TypeOK, Shape, Mark
  <2>2. r \notin Late(b)'
    BY <1>2, <2>1, MarkEffect DEF Late
  <2>3. alive' = [alive EXCEPT ![req[r].backend] = req[r].ok] /\ req[r].pc = "mark"
    BY <1>2 DEF Mark
  <2>4. ~alive[b] /\ alive'[b] => req[r].backend = b /\ req[r].ok = TRUE
    BY <2>1, <2>3 DEF TypeOK
  <2>5. ~alive[b] /\ alive'[b] => r \in Late(b)
    BY <2>3, <2>4 DEF Late
  <2> QED BY <1>1, <2>2, <2>5, LateMoves DEF UsesUpLate
<1>3. CASE Answer(r)
  <2>1. req'[r].ok = TRUE => req[r].backend # b
    BY <1>3, AnswerEffect
  <2>2. req'[r].backend = req[r].backend
    BY <1>3, AnswerEffect
  <2>3. r \notin Late(b)' /\ alive' = alive
    BY <1>3, <2>1, <2>2 DEF Late, Answer
  <2> QED BY <1>1, <2>3, LateMoves DEF UsesUpLate
<1>4. CASE Report(r)
  <2>1. Keeps(r) /\ req[r].pc = "report" /\ alive' = alive
    BY <1>4, PcAssigned DEF Report
  <2>2. r \in Late(b)' => r \in Late(b)
    BY <2>1 DEF Late, Keeps
  <2> QED BY <1>1, <2>1, <2>2, LateMoves DEF UsesUpLate
<1>5. CASE ~Mark(r) /\ ~Answer(r) /\ ~Report(r)
  <2>1. req'[r].pc \notin {"report", "mark"}
    <3>1. CASE Begin(r)
      BY <3>1, PcAssigned DEF Begin
    <3>2. CASE Scan(r)
      BY <3>2, ScanEffect
    <3>3. CASE NoHealthyBackend(r) \/ CircuitOpen(r) \/ Close(r)
      BY <3>3, IdleEffect DEF NoHealthyBackend, CircuitOpen, Close
    <3>4. CASE Pick(r)
      BY <3>4, PickEffect
    <3>5. CASE CircuitAllows(r)
      BY <3>5, PcAssigned DEF CircuitAllows
    <3>6. CASE Forward(r)
      BY <3>6, PcAssigned DEF Forward
    <3> QED BY <1>5, <3>1, <3>2, <3>3, <3>4, <3>5, <3>6 DEF Handle
  <2>2. r \notin Late(b)'
    BY <2>1 DEF Late
  <2>3. alive' = alive
    BY <1>5 DEF Handle, Begin, Scan, NoHealthyBackend, Pick, CircuitAllows, CircuitOpen,
                Forward, Close
  <2> QED BY <1>1, <2>2, <2>3, LateMoves DEF UsesUpLate
<1> QED BY <1>2, <1>3, <1>4, <1>5

\* Stale successes put a backend that stays down back into rotation, but only as
\* often as there are any: handlers that have its answer in hand, and one probe.
THEOREM ReturnsTheorem == Spec => ReturnsOnLateAnswers
<1> DEFINE Uses == \A b \in Backend : ~up[b] /\ ~up'[b] => UsesUpLate(b)
<1>1. IInv /\ [Next]_vars => [Uses]_vars
  <2> SUFFICES ASSUME IInv, Next, NEW b \in Backend, ~up[b], ~up'[b]
               PROVE  UsesUpLate(b)
    OBVIOUS
  <2>1. ASSUME NEW r \in Reqs, Handle(r) PROVE UsesUpLate(b)
    BY <2>1, HandleLate DEF IInv
  <2>2. CASE Check
    <3>1. Late(b)' = Late(b)
      BY <2>2 DEF Check, BeginRound, ProbeAnswer, ProbeApply, Late
    <3>2. CASE BeginRound
      BY <3>1, <3>2 DEF BeginRound, UsesUpLate
    <3>3. ASSUME NEW c \in Backend, ProbeAnswer(c) PROVE UsesUpLate(b)
      BY <3>1, <3>3 DEF ProbeAnswer, UsesUpLate, IInv, TypeOK
    <3>4. ASSUME NEW c \in Backend, ProbeApply(c) PROVE UsesUpLate(b)
      BY <3>1, <3>4 DEF ProbeApply, UsesUpLate, IInv, TypeOK
    <3> QED BY <2>2, <3>2, <3>3, <3>4 DEF Check
  <2>3. CASE Tick \/ \E c \in Backend : Flip(c)
    BY <2>3 DEF Tick, Flip, UsesUpLate, Late
  <2> QED BY <2>1, <2>2, <2>3 DEF Next
<1> QED BY <1>1, InitIInv, StepIInv, PTL DEF Spec, ReturnsOnLateAnswers
=============================================================================
