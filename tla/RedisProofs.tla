----------------------------- MODULE RedisProofs -----------------------------
(***************************************************************************)
(* Proofs about RedisLimiter, for any number of gateways and handlers, any *)
(* difference of their clocks, any limit and window, and any timeout.      *)
(***************************************************************************)
EXTENDS RedisLimiter, FiniteSetTheorems, WellFoundedInduction, TLAPS

-----------------------------------------------------------------------------
\* The inductive invariant

\* How far the fastest clock is ahead of Redis.
Ahead == Max(Offsets)

\* A stamp is as old as its key, at least: the key outlives it by the expiry.
KeyInv ==
    /\ IsFiniteSet(stamps)
    /\ stamps = {} \/ Cardinality(stamps) <= rate
    /\ \A s \in stamps : s + Expiry <= expireAt + Ahead

\* A handler waits for Timeout at most.
WaitInv ==
    \A r \in Reqs : Waiting(r) =>
        /\ req[r].stamp = req[r].began + Skew[r]
        /\ req[r].began <= now /\ now <= req[r].began + Timeout

\* No stamp is ahead of the fastest clock.
LateInv == \A t \in late : t <= now + Ahead

\* The stamps that the script has let pass, those included whose handler does not
\* know yet.
Admitted == {admitted[i] : i \in DOMAIN admitted}

Passed == Admitted \cup {req[r].stamp : r \in {q \in Reqs : req[q].pc = "pass"}}

\* What is no longer in the set has left the window of the fastest clock.
GoneInv == \A s \in Passed \ stamps : s + Window <= now + Ahead

Apart(S) == \E x, y \in S : x - y >= Window - Lag

PassedInv ==
    \A S \in SUBSET Passed : IsFiniteSet(S) /\ Cardinality(S) > rate /\ S # {} => Apart(S)

IInv == TypeOK /\ KeysExpire /\ KeyInv /\ WaitInv /\ LateInv /\ GoneInv /\ PassedInv

-----------------------------------------------------------------------------
\* Finite sets of integers, and the clocks

\* A finite set of integers has a greatest and a least element: a smallest set
\* without them would have one if any of its elements were left out.
LEMMA Extremes ==
    ASSUME NEW S \in SUBSET Int, IsFiniteSet(S), S # {}
    PROVE  /\ Max(S) \in S /\ \A y \in S : y <= Max(S)
           /\ Min(S) \in S /\ \A y \in S : Min(S) <= y
<1> DEFINE Has(T) == /\ \E x \in T : \A y \in T : x >= y
                     /\ \E x \in T : \A y \in T : x <= y
           Bad == {n \in Nat : \E T \in SUBSET S : T # {} /\ Cardinality(T) = n /\ ~Has(T)}
<1>1. Bad = {}
  <2> SUFFICES ASSUME Bad # {} PROVE FALSE
    OBVIOUS
  <2>1. PICK n \in Bad : \A m \in Bad : ~(<<m, n>> \in OpToRel(<, Nat))
    <3>1. Bad \in SUBSET Nat
      OBVIOUS
    <3> HIDE DEF Bad
    <3> QED BY <3>1, WFMin, NatLessThanWellFounded, Zenon
  <2>2. PICK T \in SUBSET S : T # {} /\ Cardinality(T) = n /\ ~Has(T)
    <3> HIDE DEF Has
    <3> QED OBVIOUS
  <2>3. PICK x \in T : TRUE
    BY <2>2
  <2> DEFINE R == T \ {x}
  <2>4. IsFiniteSet(T) /\ IsFiniteSet(R) /\ Cardinality(R) = n - 1 /\ n \in Nat
    BY <2>2, FS_Subset, FS_RemoveElement
  <2>5. R # {}
    <3> SUFFICES ASSUME R = {} PROVE FALSE
      OBVIOUS
    <3>1. T = {x} /\ x \in Int
      OBVIOUS
    <3> QED BY <2>2, <3>1
  <2>6. n - 1 \in Nat
    BY <2>4, FS_CardinalityType
  <2>7. n - 1 \notin Bad
    <3> HIDE DEF Bad
    <3>1. <<n - 1, n>> \in OpToRel(<, Nat)
      BY <2>4, <2>6 DEF OpToRel
    <3> QED BY <2>1, <3>1
  <2>8. Has(R)
    BY <2>4, <2>5, <2>6, <2>7
  <2>9. PICK g \in R : \A y \in R : g >= y
    BY <2>8
  <2>10. PICK l \in R : \A y \in R : l <= y
    BY <2>8
  <2>11. x \in Int /\ g \in Int /\ l \in Int /\ \A y \in T : y \in Int /\ (y = x \/ y \in R)
    OBVIOUS
  <2>12. \E z \in T : \A y \in T : z >= y
    <3>1. CASE x >= g
      BY <2>9, <2>11, <3>1
    <3>2. CASE g >= x
      BY <2>9, <2>11, <3>2
    <3> QED BY <2>11, <3>1, <3>2
  <2>13. \E z \in T : \A y \in T : z <= y
    <3>1. CASE x <= l
      BY <2>10, <2>11, <3>1
    <3>2. CASE l <= x
      BY <2>10, <2>11, <3>2
    <3> QED BY <2>11, <3>1, <3>2
  <2> QED BY <2>2, <2>12, <2>13
<1>2. Has(S)
  <2>1. Cardinality(S) \in Nat /\ Cardinality(S) \notin Bad
    BY <1>1, FS_CardinalityType
  <2> QED BY <2>1
<1> HIDE DEF Bad
<1>3. PICK g \in S : \A y \in S : g >= y
  BY <1>2
<1>4. PICK l \in S : \A y \in S : l <= y
  BY <1>2
<1>5. Max(S) \in S /\ \A y \in S : Max(S) >= y
  BY <1>3 DEF Max
<1>6. Min(S) \in S /\ \A y \in S : Min(S) <= y
  BY <1>4 DEF Min
<1> QED BY <1>5, <1>6

LEMMA Clocks ==
    /\ Ahead \in Int /\ Lag \in Nat
    /\ \A r \in Reqs : Skew[r] \in Int /\ Skew[r] <= Ahead /\ Ahead - Lag <= Skew[r] - Timeout
<1>1. Offsets \in SUBSET Int /\ Offsets # {} /\ \A r \in Reqs : Skew[r] \in Offsets
  BY RedisAssumption DEF Offsets
<1>2. IsFiniteSet(Offsets)
  <2>1. IsFiniteSet(Reqs) /\ Skew \in [Reqs -> Int]
    BY RedisAssumption
  <2>2. Skew \in Surjection(Reqs, Offsets)
    BY <2>1 DEF Offsets, Surjection
  <2> QED BY <2>1, <2>2, FS_Surjection
<1>3. /\ Max(Offsets) \in Offsets /\ \A y \in Offsets : y <= Max(Offsets)
      /\ Min(Offsets) \in Offsets /\ \A y \in Offsets : Min(Offsets) <= y
  BY <1>1, <1>2, Extremes
<1>4. Max(Offsets) \in Int /\ Min(Offsets) \in Int /\ Timeout \in Nat
  BY <1>1, <1>3, RedisAssumption
<1>5. \A r \in Reqs : Skew[r] \in Int /\ Min(Offsets) <= Skew[r] /\ Skew[r] <= Max(Offsets)
  BY <1>1, <1>3
<1>6. Min(Offsets) <= Max(Offsets)
  BY <1>3
<1> QED BY <1>4, <1>5, <1>6 DEF Ahead, Lag

-----------------------------------------------------------------------------
\* Seconds

\* A key lives for the window at least.
LEMMA ExpiryLong == Expiry \in Nat /\ Expiry >= Window
<1> DEFINE n == Window + Second - 1
           q == n \div Second
           m == n % Second
<1>1. n \in Nat /\ Window \in Nat /\ Window > 0 /\ Second \in Nat /\ Second > 0
  BY RedisAssumption, RetryHeaderAssumption
<1>2. Expiry = q * Second
  BY DEF Expiry
<1> HIDE DEF n
<1>3. q \in Int /\ m \in 0..(Second - 1) /\ n = q * Second + m
  BY <1>1
<1> HIDE DEF q, m
<1>4. q * Second \in Int
  BY <1>1, <1>3
<1>5. q * Second >= Window
  BY <1>1, <1>3, <1>4 DEF n
<1> QED BY <1>1, <1>2, <1>4, <1>5

\* The header takes Slack off the wait at most.
LEMMA Rounding ==
    ASSUME NEW w \in Int
    PROVE  Told(w) \in Int /\ Slack \in Nat /\ w <= Told(w) + Slack
<1> DEFINE q == w \div Second
           m == w % Second
<1>1. Second \in Nat /\ Second > 0
  BY RetryHeaderAssumption
<1>2. q \in Int /\ m \in 0..(Second - 1) /\ w = q * Second + m
  BY <1>1
<1>3. Slack \in Nat /\ Second <= 2 * Slack + 1
  BY <1>1 DEF Slack
<1>4. \/ 2 * m <= Second /\ Told(w) = q * Second
      \/ Told(w) = (q + 1) * Second
  <2>1. Told(w) = Seconds(w) * Second
    BY DEF Told
  <2>2. \/ 2 * m <= Second /\ Seconds(w) = q
        \/ Seconds(w) = q + 1
    BY <1>1, <1>2 DEF Seconds
  <2> HIDE DEF q, m
  <2> QED BY <2>1, <2>2
<1> HIDE DEF q, m
<1>5. q * Second \in Int /\ (q + 1) * Second = q * Second + Second
  BY <1>1, <1>2
<1> QED BY <1>1, <1>2, <1>3, <1>4, <1>5

-----------------------------------------------------------------------------
\* The script

LEMMA EvictEffect ==
    ASSUME NEW S \in SUBSET Int, IsFiniteSet(S), NEW t \in Int
    PROVE  LET E == Evict(S, t) IN
           /\ E \subseteq S /\ IsFiniteSet(E)
           /\ Cardinality(E) \in Nat /\ Cardinality(E) <= Cardinality(S)
           /\ \A s \in S : s \in E <=> s > t - Window
<1>1. Window \in Nat
  BY RedisAssumption
<1>2. Evict(S, t) \subseteq S /\ \A s \in S : s \in Evict(S, t) <=> s > t - Window
  BY <1>1 DEF Evict
<1> QED BY <1>2, FS_Subset, FS_CardinalityType

\* A run of the script with a stamp that is not ahead of the fastest clock keeps
\* the key's invariants and drops only what has left that clock's window.
LEMMA ScriptEffect ==
    ASSUME TypeOK, KeysExpire, KeyInv, NEW t \in Int, t <= now + Ahead, Script(t),
           now' = now, rate' = rate
    PROVE  /\ stamps' \subseteq Int /\ expireAt' \in Nat \cup {Never}
           /\ KeysExpire' /\ KeyInv'
           /\ \A s \in stamps \ stamps' : s + Window <= now + Ahead
<1> DEFINE live == Evict(stamps, t)
<1>0. /\ stamps \in SUBSET Int /\ IsFiniteSet(stamps) /\ now \in Nat /\ rate \in Int
      /\ expireAt \in Nat \cup {Never} /\ Window \in Nat /\ Expiry \in Nat /\ Window > 0 /\ Expiry > 0
      /\ Ahead \in Int
  BY RedisAssumption, Clocks, ExpiryLong DEF TypeOK, KeyInv
<1>1. /\ live \subseteq stamps /\ IsFiniteSet(live) /\ Cardinality(live) \in Nat
      /\ Cardinality(live) <= Cardinality(stamps)
      /\ \A s \in stamps : s \in live <=> s > t - Window
  BY <1>0, EvictEffect
<1>2. Cardinality(stamps) \in Nat
  BY <1>0, FS_CardinalityType
<1>3. \A s \in stamps \ live : s + Window <= now + Ahead
  BY <1>0, <1>1
<1> HIDE DEF live
<1>4. CASE Full(stamps, t)
  <2>1. stamps' = live /\ expireAt' = IF live = {} THEN Never ELSE expireAt
    BY <1>4 DEF Script, live
  <2>2. live # {} => stamps # {} /\ expireAt' = expireAt
    BY <1>1, <2>1
  <2>3. KeysExpire'
    BY <2>1, <2>2 DEF KeysExpire
  <2>4. KeyInv'
    <3>1. stamps' = {} \/ Cardinality(stamps') <= rate'
      BY <1>0, <1>1, <1>2, <2>1, <2>2 DEF KeyInv
    <3>2. \A s \in stamps' : s + Expiry <= expireAt' + Ahead
      BY <1>1, <2>1, <2>2 DEF KeyInv
    <3> QED BY <1>1, <2>1, <3>1, <3>2 DEF KeyInv
  <2> QED BY <1>0, <1>1, <1>3, <2>1, <2>3, <2>4 DEF Never
<1>5. CASE ~Full(stamps, t)
  <2>1. stamps' = live \cup {t} /\ expireAt' = now + Expiry /\ Cardinality(live) < rate
    BY <1>0, <1>1, <1>5 DEF Script, Full, live
  <2>2. KeysExpire'
    BY <1>0, <2>1 DEF KeysExpire
  <2>3. IsFiniteSet(stamps') /\ Cardinality(stamps') <= Cardinality(live) + 1
    <3>1. /\ IsFiniteSet(live \cup {t})
          /\ \/ Cardinality(live \cup {t}) = Cardinality(live)
             \/ Cardinality(live \cup {t}) = Cardinality(live) + 1
      BY <1>1, FS_AddElement
    <3> QED BY <1>1, <2>1, <3>1
  <2>4. Cardinality(stamps') <= rate'
    BY <1>0, <1>1, <2>1, <2>3, FS_CardinalityType
  <2>5. ASSUME NEW s \in live PROVE s + Expiry <= expireAt' + Ahead
    <3>1. s \in stamps /\ s \in Int
      BY <1>0, <1>1
    <3>2. s + Expiry <= expireAt + Ahead /\ expireAt \in (now + 1)..(now + Expiry)
      BY <3>1 DEF KeyInv, KeysExpire
    <3> QED BY <1>0, <2>1, <3>1, <3>2
  <2>6. t + Expiry <= expireAt' + Ahead
    BY <1>0, <2>1
  <2>7. KeyInv'
    BY <2>1, <2>3, <2>4, <2>5, <2>6 DEF KeyInv
  <2> QED BY <1>0, <1>1, <1>3, <2>1, <2>2, <2>7
<1> QED BY <1>4, <1>5

\* The stamp of a handler that waits lags behind the fastest clock by Lag at most.
LEMMA StampBounds ==
    ASSUME TypeOK, WaitInv, NEW r \in Reqs, Waiting(r)
    PROVE  /\ req[r].stamp \in Int
           /\ req[r].stamp <= now + Ahead /\ now + Ahead - Lag <= req[r].stamp
<1>1. req[r].stamp \in Int /\ req[r].began \in Nat /\ now \in Nat
  BY DEF TypeOK, HandlerType
<1>2. /\ req[r].stamp = req[r].began + Skew[r]
      /\ req[r].began <= now /\ now <= req[r].began + Timeout
  BY DEF WaitInv
<1>3. /\ Skew[r] \in Int /\ Ahead \in Int /\ Lag \in Nat /\ Timeout \in Nat
      /\ Skew[r] <= Ahead /\ Ahead - Lag <= Skew[r] - Timeout
  BY Clocks, RedisAssumption
<1> QED BY <1>1, <1>2, <1>3

-----------------------------------------------------------------------------
\* The steps

LEMMA PassedIs ==
    ASSUME NEW s
    PROVE  s \in Passed <=> s \in Admitted \/ \E q \in Reqs : req[q].pc = "pass" /\ req[q].stamp = s
BY DEF Passed

LEMMA IdleTyped == Idle \in HandlerType /\ Idle.pc = "idle"
BY DEF Idle, HandlerType

Moves(r) == /\ req' \in [Reqs -> HandlerType]
            /\ \A q \in Reqs \ {r} : req'[q] = req[q]

LEMMA Assigned ==
    ASSUME TypeOK, NEW r \in Reqs, NEW h \in HandlerType, req' = [req EXCEPT ![r] = h]
    PROVE  Moves(r) /\ req'[r] = h
BY DEF TypeOK, Moves

LEMMA SendEffect ==
    ASSUME TypeOK, NEW r \in Reqs, Send(r)
    PROVE  /\ Moves(r) /\ req'[r].pc = "sent"
           /\ req'[r].began = now /\ req'[r].stamp = now + Skew[r]
<1> DEFINE h == [Idle EXCEPT !.pc = "sent", !.began = now, !.stamp = now + Skew[r]]
<1>1. now \in Nat /\ now + Skew[r] \in Int
  BY Clocks DEF TypeOK
<1>2. /\ h \in HandlerType /\ h.pc = "sent" /\ h.began = now /\ h.stamp = now + Skew[r]
  BY <1>1, IdleTyped DEF HandlerType
<1>3. req' = [req EXCEPT ![r] = h]
  BY DEF Send
<1> HIDE DEF h
<1> QED BY <1>2, <1>3, Assigned

LEMMA ReplyEffect ==
    ASSUME TypeOK, NEW r \in Reqs,
           NEW p \in {"sent", "pass", "reject", "short"}, NEW o \in Int,
           req' = [req EXCEPT ![r].pc = p, ![r].oldest = o]
    PROVE  /\ Moves(r) /\ req'[r].pc = p /\ req'[r].oldest = o
           /\ req'[r].began = req[r].began /\ req'[r].stamp = req[r].stamp
<1> DEFINE h == [req[r] EXCEPT !.pc = p, !.oldest = o]
<1>1. req[r] \in HandlerType
  BY DEF TypeOK
<1>2. /\ h \in HandlerType /\ h.pc = p /\ h.oldest = o
      /\ h.began = req[r].began /\ h.stamp = req[r].stamp
  BY <1>1 DEF HandlerType
<1>3. req' = [req EXCEPT ![r] = h]
  BY DEF TypeOK
<1> HIDE DEF h
<1> QED BY <1>2, <1>3, Assigned

LEMMA IdleEffect ==
    ASSUME TypeOK, NEW r \in Reqs, req' = [req EXCEPT ![r] = Idle]
    PROVE  Moves(r) /\ req'[r].pc = "idle"
BY IdleTyped, Assigned

\* The wait of the handlers that stay where they are goes on.
LEMMA WaitMoves ==
    ASSUME WaitInv, NEW r \in Reqs, Moves(r), now' = now,
           req'[r].pc # "idle" =>
             /\ req'[r].stamp = req'[r].began + Skew[r]
             /\ req'[r].began <= now /\ now <= req'[r].began + Timeout
    PROVE  WaitInv'
BY DEF WaitInv, Waiting, Moves

\* A step that leaves Redis alone, and lets nothing pass.
LEMMA QuietStep ==
    ASSUME IInv, UNCHANGED <<rate, now, stamps, expireAt>>, Passed' \subseteq Passed,
           req' \in [Reqs -> HandlerType], admitted' \in Seq(Int),
           late' \subseteq Int, WaitInv', LateInv'
    PROVE  IInv'
<1>1. TypeOK'
  BY DEF IInv, TypeOK
<1>2. KeysExpire' /\ KeyInv'
  BY DEF IInv, KeysExpire, KeyInv
<1>3. GoneInv'
  BY DEF IInv, GoneInv
<1>4. PassedInv'
  BY DEF IInv, PassedInv, Apart
<1> QED BY <1>1, <1>2, <1>3, <1>4 DEF IInv

LEMMA SendStep ==
    ASSUME IInv, NEW r \in Reqs, Send(r)
    PROVE  IInv'
<1>1. TypeOK /\ WaitInv /\ LateInv /\ PassedInv
  BY DEF IInv
<1>2. /\ Moves(r) /\ req'[r].pc = "sent"
      /\ req'[r].began = now /\ req'[r].stamp = now + Skew[r]
  BY <1>1, SendEffect
<1>3. UNCHANGED <<rate, now, stamps, expireAt, late, admitted>>
  BY DEF Send
<1>4. WaitInv'
  BY <1>1, <1>2, <1>3, WaitMoves, RedisAssumption DEF TypeOK
<1>5. Passed' \subseteq Passed
  BY <1>2, <1>3 DEF Passed, Admitted, Moves
<1>6. LateInv'
  BY <1>1, <1>3 DEF LateInv
<1> QED BY <1>1, <1>2, <1>3, <1>4, <1>5, <1>6, QuietStep DEF Moves, TypeOK, PassedInv

LEMMA ResendStep ==
    ASSUME IInv, NEW r \in Reqs, Resend(r)
    PROVE  IInv'
<1>1. TypeOK /\ WaitInv /\ LateInv /\ PassedInv
  BY DEF IInv
<1>2. req' = [req EXCEPT ![r].pc = "sent", ![r].oldest = 0] /\ Waiting(r)
  BY DEF Resend, Waiting
<1>3. /\ Moves(r) /\ req'[r].pc = "sent"
      /\ req'[r].began = req[r].began /\ req'[r].stamp = req[r].stamp
  <2>1. "sent" \in {"sent", "pass", "reject", "short"} /\ 0 \in Int
    OBVIOUS
  <2> QED BY <1>1, <1>2, <2>1, ReplyEffect, Zenon
<1>4. UNCHANGED <<rate, now, stamps, expireAt, late, admitted>>
  BY DEF Resend
<1>5. WaitInv'
  BY <1>1, <1>2, <1>3, <1>4, WaitMoves DEF WaitInv
<1>6. Passed' \subseteq Passed
  BY <1>3, <1>4 DEF Passed, Admitted, Moves
<1>7. LateInv'
  BY <1>1, <1>4 DEF LateInv
<1> QED BY <1>1, <1>3, <1>4, <1>5, <1>6, <1>7, QuietStep DEF Moves, TypeOK, PassedInv

\* The ways a handler's wait ends.
LEMMA EndStep ==
    ASSUME IInv, NEW r \in Reqs, Pass(r) \/ Reject(r) \/ Panic(r) \/ FailOpen(r)
    PROVE  IInv'
<1>1. TypeOK /\ WaitInv /\ LateInv /\ PassedInv
  BY DEF IInv
<1>2. req' = [req EXCEPT ![r] = Idle] /\ Waiting(r) /\ UNCHANGED <<rate, now, stamps, expireAt>>
  BY DEF Pass, Reject, Panic, FailOpen, Waiting
<1>3. Moves(r) /\ req'[r].pc = "idle"
  BY <1>1, <1>2, IdleEffect
<1>4. /\ req[r].stamp \in Int /\ req[r].stamp <= now + Ahead
  BY <1>1, <1>2, StampBounds
<1>5. WaitInv'
  BY <1>1, <1>2, <1>3, WaitMoves
<1>6. \/ admitted' = admitted
      \/ req[r].pc = "pass" /\ admitted' = Append(admitted, req[r].stamp)
  BY DEF Pass, Reject, Panic, FailOpen
<1>7. /\ admitted' \in Seq(Int)
      /\ Admitted' \subseteq Admitted \cup (IF req[r].pc = "pass" THEN {req[r].stamp} ELSE {})
  <2>1. admitted \in Seq(Int)
    BY <1>1 DEF TypeOK
  <2>2. CASE admitted' = admitted
    BY <2>1, <2>2 DEF Admitted
  <2>3. CASE req[r].pc = "pass" /\ admitted' = Append(admitted, req[r].stamp)
    <3> DEFINE a == admitted
               b == Append(a, req[r].stamp)
    <3>1. /\ b \in Seq(Int) /\ DOMAIN b = 1..(Len(a) + 1) /\ DOMAIN a = 1..Len(a)
          /\ Len(a) \in Nat
          /\ \A i \in 1..Len(a) : b[i] = a[i]
          /\ b[Len(a) + 1] = req[r].stamp
      BY <1>4, <2>1
    <3>2. admitted' = b
      BY <2>3
    <3> HIDE DEF b
    <3>3. \A i \in DOMAIN b : b[i] \in {a[j] : j \in DOMAIN a} \cup {req[r].stamp}
      BY <3>1
    <3> QED BY <2>3, <3>1, <3>2, <3>3 DEF Admitted
  <2> QED BY <1>6, <2>2, <2>3
<1>8. late' \in {late, late \cup {req[r].stamp}}
  BY DEF Pass, Reject, Panic, FailOpen
<1>9. LateInv' /\ late' \subseteq Int
  BY <1>1, <1>2, <1>4, <1>8 DEF LateInv, TypeOK
<1>10. Passed' \subseteq Passed
  <2>1. ASSUME NEW s, s \in Passed' PROVE s \in Passed
    <3>1. s \in Admitted' \/ \E q \in Reqs : req'[q].pc = "pass" /\ req'[q].stamp = s
      BY <2>1 DEF Passed
    <3>2. \A q \in Reqs : req'[q].pc = "pass" => req'[q] = req[q]
      BY <1>3 DEF Moves
    <3> QED BY <1>7, <3>1, <3>2, PassedIs
  <2> QED BY <2>1
<1> QED BY <1>2, <1>3, <1>5, <1>7, <1>9, <1>10, QuietStep DEF Moves

\* A run of the script for a waiting handler. If it passes, the stamps that pass
\* within a window less Lag of it are all still in the set, and too few to matter.
LEMMA RunStep ==
    ASSUME IInv, NEW r \in Reqs, Run(r)
    PROVE  IInv'
<1> DEFINE t == req[r].stamp
           live == Evict(stamps, t)
<1>1. TypeOK /\ WaitInv /\ LateInv /\ PassedInv /\ GoneInv /\ KeysExpire /\ KeyInv
  BY DEF IInv
<1>2. Waiting(r) /\ Script(t) /\ UNCHANGED <<rate, now, late, admitted>> /\ req[r].pc = "sent"
  BY DEF Run, Waiting
<1>3. t \in Int /\ t <= now + Ahead /\ now + Ahead - Lag <= t
  BY <1>1, <1>2, StampBounds
<1>4. /\ stamps' \subseteq Int /\ expireAt' \in Nat \cup {Never}
      /\ KeysExpire' /\ KeyInv'
      /\ \A s \in stamps \ stamps' : s + Window <= now + Ahead
  BY <1>1, <1>2, <1>3, ScriptEffect
<1>5. /\ live \subseteq stamps /\ IsFiniteSet(live) /\ Cardinality(live) \in Nat
      /\ live \subseteq Int
      /\ \A s \in stamps : s \in live <=> s > t - Window
  BY <1>1, <1>3, EvictEffect DEF TypeOK, KeyInv
<1>6. Reply(t).pc \in {"pass", "reject", "short"} /\ Reply(t).oldest \in Int
      /\ (Reply(t).pc = "pass" <=> ~Full(stamps, t))
  <2>1. live # {} => Min(live) \in Int
    BY <1>5, Extremes
  <2> QED BY <2>1 DEF Reply
<1>7. /\ Moves(r) /\ req'[r].pc = Reply(t).pc
      /\ req'[r].began = req[r].began /\ req'[r].stamp = t
  <2> DEFINE p == Reply(t).pc
             o == Reply(t).oldest
  <2>1. req' = [req EXCEPT ![r].pc = p, ![r].oldest = o]
    BY DEF Run
  <2>2. p \in {"sent", "pass", "reject", "short"} /\ o \in Int
    BY <1>6
  <2> HIDE DEF p, o
  <2>3. /\ Moves(r) /\ req'[r].pc = p
        /\ req'[r].began = req[r].began /\ req'[r].stamp = req[r].stamp
    BY <1>1, <2>1, <2>2, ReplyEffect
  <2> QED BY <2>3 DEF p
<1>8. TypeOK'
  BY <1>1, <1>2, <1>4, <1>7 DEF TypeOK, Moves
<1>9. WaitInv'
  BY <1>1, <1>2, <1>7, WaitMoves DEF WaitInv
<1>10. LateInv'
  BY <1>1, <1>2 DEF LateInv
<1>11. Passed' \subseteq Passed \cup {t} /\ (Full(stamps, t) => Passed' \subseteq Passed)
  BY <1>2, <1>6, <1>7 DEF Passed, Admitted, Moves
<1>12. ~Full(stamps, t) => t \in stamps'
  BY <1>2 DEF Script
<1>13. Passed \subseteq Int /\ Window \in Nat /\ now \in Nat /\ Ahead \in Int /\ Lag \in Nat /\ rate \in Int
  <2>1. Admitted \subseteq Int
    BY <1>1 DEF Admitted, TypeOK
  <2>2. {req[q].stamp : q \in {h \in Reqs : req[h].pc = "pass"}} \subseteq Int
    BY <1>1 DEF TypeOK, HandlerType
  <2>3. Window \in Nat /\ now \in Nat /\ rate \in Int
    BY <1>1, RedisAssumption DEF TypeOK
  <2> QED BY <2>1, <2>2, <2>3, Clocks DEF Passed
<1>14. GoneInv'
  BY <1>1, <1>2, <1>4, <1>11, <1>12 DEF GoneInv
<1>15. PassedInv'
  <2> SUFFICES ASSUME NEW S \in SUBSET Passed', IsFiniteSet(S), Cardinality(S) > rate, S # {}
               PROVE  Apart(S)
    BY <1>1, <1>2 DEF PassedInv, Apart
  <2>1. CASE S \subseteq Passed
    BY <1>1, <2>1 DEF PassedInv
  <2>2. CASE ~(S \subseteq Passed)
    <3>1. t \in S /\ ~Full(stamps, t) /\ S \ {t} \subseteq Passed
      BY <1>11, <2>2
    <3>2. SUFFICES ASSUME ~Apart(S) PROVE FALSE
      OBVIOUS
    <3>3. \A s \in S : t - s < Window - Lag
      <4> SUFFICES ASSUME NEW s \in S PROVE t - s < Window - Lag
        OBVIOUS
      <4>1. s \in Int
        BY <1>3, <1>13, <3>1
      <4>2. ~(t - s >= Window - Lag)
        BY <3>1, <3>2 DEF Apart
      <4> QED BY <1>3, <1>13, <4>1, <4>2
    <3>4. S \ {t} \subseteq live
      <4> SUFFICES ASSUME NEW s \in S \ {t} PROVE s \in live
        OBVIOUS
      <4>1. s \in Passed /\ s \in Int /\ t - s < Window - Lag
        BY <1>13, <3>1, <3>3
      <4>2. s \in stamps
        <5> SUFFICES ASSUME s \notin stamps PROVE FALSE
          OBVIOUS
        <5>1. s + Window <= now + Ahead
          BY <1>1, <4>1 DEF GoneInv
        <5> QED BY <1>3, <1>13, <4>1, <5>1
      <4>3. s > t - Window
        BY <1>3, <1>13, <4>1
      <4> QED BY <1>5, <4>2, <4>3
    <3>5. Cardinality(S \ {t}) = Cardinality(S) - 1 /\ Cardinality(S) \in Nat
      BY <3>1, FS_RemoveElement, FS_CardinalityType
    <3>6. Cardinality(S \ {t}) <= Cardinality(live)
      BY <1>5, <3>4, FS_Subset
    <3>7. Cardinality(live) < rate
      BY <1>5, <1>13, <3>1 DEF Full
    <3> QED BY <1>5, <1>13, <3>5, <3>6, <3>7
  <2> QED BY <2>1, <2>2
<1> QED BY <1>4, <1>8, <1>9, <1>10, <1>14, <1>15 DEF IInv

\* A run of the script for a handler that has given up: nothing passes.
LEMMA RunLateStep ==
    ASSUME IInv, NEW t \in late, RunLate(t)
    PROVE  IInv'
<1>1. TypeOK /\ WaitInv /\ LateInv /\ PassedInv /\ GoneInv /\ KeysExpire /\ KeyInv
  BY DEF IInv
<1>2. Script(t) /\ UNCHANGED <<rate, now, req, admitted>> /\ late' = late \ {t}
  BY DEF RunLate
<1>3. t \in Int /\ t <= now + Ahead
  BY <1>1 DEF TypeOK, LateInv
<1>4. /\ stamps' \subseteq Int /\ expireAt' \in Nat \cup {Never}
      /\ KeysExpire' /\ KeyInv'
      /\ \A s \in stamps \ stamps' : s + Window <= now + Ahead
  BY <1>1, <1>2, <1>3, ScriptEffect
<1>5. Passed' = Passed
  BY <1>2 DEF Passed, Admitted
<1>6. TypeOK'
  BY <1>1, <1>2, <1>4 DEF TypeOK
<1>7. WaitInv' /\ LateInv'
  BY <1>1, <1>2 DEF WaitInv, Waiting, LateInv
<1>8. GoneInv'
  BY <1>1, <1>2, <1>4, <1>5 DEF GoneInv
<1>9. PassedInv'
  BY <1>1, <1>2, <1>5 DEF PassedInv, Apart
<1> QED BY <1>4, <1>6, <1>7, <1>8, <1>9 DEF IInv

\* Time passes, and the key may expire: its stamps have left every window by then.
LEMMA TickStep ==
    ASSUME IInv, Tick
    PROVE  IInv'
<1>1. TypeOK /\ WaitInv /\ LateInv /\ PassedInv /\ GoneInv /\ KeysExpire /\ KeyInv
  BY DEF IInv
<1>2. /\ now' = now + 1 /\ UNCHANGED <<rate, req, late, admitted>>
      /\ \A r \in Reqs : Waiting(r) => now < req[r].began + Timeout
      /\ stamps' = IF expireAt = now + 1 THEN {} ELSE stamps
      /\ expireAt' = IF expireAt = now + 1 THEN Never ELSE expireAt
  BY DEF Tick
<1>3. /\ now \in Nat /\ Ahead \in Int /\ Window \in Nat /\ Expiry \in Nat /\ Expiry >= Window
      /\ stamps \subseteq Int /\ late \subseteq Int /\ expireAt \in Nat \cup {Never} /\ Timeout \in Nat
  BY <1>1, Clocks, RedisAssumption, ExpiryLong DEF TypeOK
<1>4. TypeOK'
  <2>1. now' \in Nat
    BY <1>2, <1>3
  <2>2. stamps' \subseteq Int
    BY <1>2, <1>3
  <2>3. expireAt' \in Nat \cup {Never}
    BY <1>2, <1>3
  <2> QED BY <1>1, <1>2, <2>1, <2>2, <2>3 DEF TypeOK
<1>5. Passed' = Passed /\ Passed \subseteq Int
  BY <1>1, <1>2 DEF Passed, Admitted, TypeOK, HandlerType
<1>6. WaitInv'
  <2> SUFFICES ASSUME NEW r \in Reqs, Waiting(r)
               PROVE  /\ req[r].stamp = req[r].began + Skew[r]
                      /\ req[r].began <= now + 1 /\ now + 1 <= req[r].began + Timeout
    BY <1>2 DEF WaitInv, Waiting
  <2>1. req[r].began \in Nat
    BY <1>1 DEF TypeOK, HandlerType
  <2>2. req[r].stamp = req[r].began + Skew[r] /\ req[r].began <= now
    BY <1>1 DEF WaitInv
  <2>3. now < req[r].began + Timeout
    BY <1>2
  <2> QED BY <1>3, <2>1, <2>2, <2>3
<1>7. LateInv'
  BY <1>1, <1>2, <1>3 DEF LateInv
<1>8. PassedInv'
  BY <1>1, <1>2, <1>5 DEF PassedInv, Apart
<1>9. CASE expireAt = now + 1
  <2>1. stamps' = {}
    BY <1>2, <1>9
  <2>2. KeysExpire' /\ KeyInv'
    BY <2>1, FS_EmptySet DEF KeysExpire, KeyInv
  <2>3. ASSUME NEW s \in Passed PROVE s + Window <= now + 1 + Ahead
    <3>1. CASE s \in stamps
      <4>1. s + Expiry <= expireAt + Ahead
        BY <1>1, <3>1 DEF KeyInv
      <4> QED BY <1>3, <1>5, <1>9, <4>1
    <3>2. CASE s \notin stamps
      <4>1. s + Window <= now + Ahead
        BY <1>1, <3>2 DEF GoneInv
      <4> QED BY <1>3, <1>5, <4>1
    <3> QED BY <3>1, <3>2
  <2>4. GoneInv'
    BY <1>2, <1>5, <2>3 DEF GoneInv
  <2> QED BY <1>4, <1>6, <1>7, <1>8, <2>2, <2>4 DEF IInv
<1>10. CASE expireAt # now + 1
  <2>1. stamps' = stamps /\ expireAt' = expireAt
    BY <1>2, <1>10
  <2>2. KeysExpire' /\ KeyInv'
    BY <1>1, <1>2, <1>3, <1>10, <2>1 DEF KeysExpire, KeyInv
  <2>3. GoneInv'
    BY <1>1, <1>2, <1>3, <1>5, <2>1 DEF GoneInv
  <2> QED BY <1>4, <1>6, <1>7, <1>8, <2>2, <2>3 DEF IInv
<1> QED BY <1>9, <1>10

LEMMA InitIInv == Init => IInv
<1> SUFFICES ASSUME Init PROVE IInv
  OBVIOUS
<1>1. TypeOK
  BY IdleTyped DEF Init, TypeOK, Never
<1>2. Passed = {}
  BY IdleTyped DEF Init, Passed, Admitted
<1>3. IsFiniteSet({})
  BY FS_EmptySet
<1>4. WaitInv
  BY IdleTyped DEF Init, WaitInv, Waiting
<1>5. PassedInv
  BY <1>2, <1>3 DEF Init, PassedInv
<1> QED BY <1>1, <1>2, <1>3, <1>4, <1>5 DEF Init, IInv, KeysExpire, KeyInv, LateInv, GoneInv

LEMMA StepIInv == IInv /\ [Next]_vars => IInv'
<1> SUFFICES ASSUME IInv, [Next]_vars PROVE IInv'
  OBVIOUS
<1>1. ASSUME NEW r \in Reqs, Allow(r) PROVE IInv'
  BY <1>1, SendStep, RunStep, ResendStep, EndStep DEF Allow
<1>2. ASSUME NEW t \in late, RunLate(t) PROVE IInv'
  BY <1>2, RunLateStep
<1>3. CASE Tick
  BY <1>3, TickStep
<1>4. CASE UNCHANGED vars
  BY <1>4
  DEF vars, IInv, TypeOK, KeysExpire, KeyInv, WaitInv, Waiting, LateInv, GoneInv, PassedInv, Passed,
      Admitted, Apart
<1> QED BY <1>1, <1>2, <1>3, <1>4 DEF Next

-----------------------------------------------------------------------------
\* What it implies

\* A set that holds anything expires within the window, rounded up to seconds.
THEOREM KeysExpireTheorem == Spec => []KeysExpire
<1>1. IInv => KeysExpire
  BY DEF IInv
<1> QED BY <1>1, InitIInv, StepIInv, PTL DEF Spec

\* Whatever the clocks of the gateways, the order in which Redis runs the commands
\* and the replies that are lost, rate + 1 different milliseconds in which requests
\* pass span at least a window less Lag. Requests of one millisecond are one here.
THEOREM MillisecondTheorem == Spec => []MillisecondBound
<1>1. IInv => MillisecondBound
  <2> SUFFICES ASSUME IInv, NEW S \in SUBSET Admitted, S # {}, Cardinality(S) > rate
               PROVE  Max(S) - Min(S) >= Window - Lag
    BY DEF MillisecondBound, Admitted
  <2>1. IsFiniteSet(Admitted) /\ Admitted \subseteq Int
    <3>1. admitted \in Seq(Int)
      BY DEF IInv, TypeOK
    <3>2. /\ admitted \in [1..Len(admitted) -> Int] /\ Len(admitted) \in Nat
          /\ Admitted = {admitted[i] : i \in 1..Len(admitted)}
      BY <3>1 DEF Admitted
    <3>3. IsFiniteSet(1..Len(admitted))
      BY <3>2, FS_Interval
    <3>4. admitted \in Surjection(1..Len(admitted), Admitted)
      BY <3>2 DEF Surjection
    <3> QED BY <3>2, <3>3, <3>4, FS_Surjection
  <2>2. S \in SUBSET Int /\ IsFiniteSet(S) /\ S \subseteq Passed
    BY <2>1, FS_Subset DEF Passed
  <2>3. Apart(S)
    BY <2>2 DEF IInv, PassedInv
  <2>4. PICK x, y \in S : x - y >= Window - Lag
    BY <2>3 DEF Apart
  <2>5. /\ Max(S) \in S /\ x <= Max(S)
        /\ Min(S) \in S /\ Min(S) <= y
    BY <2>2, <2>4, Extremes
  <2>6. x \in Int /\ y \in Int /\ Max(S) \in Int /\ Min(S) \in Int
    BY <2>2, <2>4, <2>5
  <2>7. Window \in Int /\ Lag \in Int
    BY Clocks, RedisAssumption
  <2> QED BY <2>4, <2>5, <2>6, <2>7
<1> QED BY <1>1, InitIInv, StepIInv, PTL DEF Spec

\* After the wait of a rejection there is room for the client's request, if nothing
\* else passes meanwhile, and there is none before. The header that the client gets
\* falls short of the wait by half a second at most.
THEOREM RetryTheorem == Spec => RetryHonest
<1> DEFINE Back(r) ==
             LET t == req[r].stamp
                 wait == RetryAfter(r)'
             IN  /\ wait \in 1..(Window + Lag)
                 /\ Full(stamps', t + wait - 1)
                 /\ ~Full(stamps', t + wait)
                 /\ ~Full(stamps', t + Told(wait) + Slack)
           Honest == \A r \in Reqs : Run(r) /\ req'[r].pc = "reject" => Back(r)
<1>1. IInv /\ [Next]_vars => [Honest]_vars
  <2> SUFFICES ASSUME IInv, NEW r \in Reqs, Run(r), req'[r].pc = "reject"
               PROVE  Back(r)
    OBVIOUS
  <2> DEFINE t == req[r].stamp
             live == Evict(stamps, t)
  <2>1. TypeOK /\ WaitInv /\ KeyInv /\ KeysExpire /\ Waiting(r)
    BY DEF IInv, Run, Waiting
  <2>2. t \in Int /\ t <= now + Ahead /\ now + Ahead - Lag <= t
    BY <2>1, StampBounds
  <2>3. /\ live \subseteq stamps /\ live \subseteq Int /\ IsFiniteSet(live)
        /\ \A s \in stamps : s \in live <=> s > t - Window
    BY <2>1, <2>2, EvictEffect DEF TypeOK, KeyInv
  <2>4. live # {} => Min(live) \in live /\ Min(live) \in Int
    BY <2>3, Extremes
  <2>5. Reply(t).pc \in {"pass", "reject", "short"} /\ Reply(t).oldest \in Int
        /\ (Reply(t).pc = "reject" => Full(stamps, t) /\ live # {} /\ Reply(t).oldest = Min(live))
    BY <2>4 DEF Reply
  <2>6. req'[r].pc = Reply(t).pc /\ req'[r].oldest = Reply(t).oldest /\ req'[r].stamp = t
    <3> DEFINE p == Reply(t).pc
               o == Reply(t).oldest
    <3>1. req' = [req EXCEPT ![r].pc = p, ![r].oldest = o]
      BY DEF Run
    <3>2. p \in {"sent", "pass", "reject", "short"} /\ o \in Int
      BY <2>5
    <3> HIDE DEF p, o
    <3>3. req'[r].pc = p /\ req'[r].oldest = o /\ req'[r].stamp = req[r].stamp
      BY <2>1, <3>1, <3>2, ReplyEffect
    <3> QED BY <3>3 DEF p, o
  <2>7. Full(stamps, t) /\ live # {} /\ stamps' = live /\ req'[r].oldest = Min(live)
    BY <2>5, <2>6 DEF Run, Script
  <2> HIDE DEF live
  <2> DEFINE m == Min(live)
             wait == m + Window - t
  <2>8. m \in live /\ m \in stamps /\ m \in Int /\ \A s \in live : m <= s
    BY <2>3, <2>7, Extremes
  <2> HIDE DEF m
  <2>9. RetryAfter(r)' = wait
    BY <2>6, <2>7 DEF RetryAfter, m
  <2>10. /\ Window \in Nat /\ Expiry \in Nat /\ Lag \in Nat /\ Ahead \in Int /\ now \in Nat
         /\ rate \in Int /\ rate' = rate
    BY <2>1, Clocks, RedisAssumption, ExpiryLong DEF TypeOK, Run
  <2>11. wait \in 1..(Window + Lag)
    <3>1. m > t - Window
      BY <2>3, <2>8
    <3>2. m <= now + Ahead
      <4>1. m + Expiry <= expireAt + Ahead /\ expireAt \in (now + 1)..(now + Expiry)
        BY <2>1, <2>8 DEF KeyInv, KeysExpire
      <4> QED BY <2>8, <2>10, <4>1
    <3> QED BY <2>2, <2>8, <2>10, <3>1, <3>2
  <2>12. Cardinality(live) \in Nat /\ Cardinality(live) >= rate /\ Cardinality(live) <= rate
    <3>1. Cardinality(live) <= Cardinality(stamps)
      BY <2>1, <2>3, FS_Subset DEF KeyInv
    <3>2. Cardinality(stamps) <= rate /\ Cardinality(stamps) \in Nat
      BY <2>1, <2>8, FS_CardinalityType DEF KeyInv
    <3>3. Cardinality(live) \in Nat
      BY <2>3, FS_CardinalityType
    <3>4. Cardinality(live) >= rate
      BY <2>7 DEF Full, live
    <3> QED BY <2>10, <3>1, <3>2, <3>3, <3>4
  <2>13. ASSUME NEW u \in Int, u >= t + wait PROVE ~Full(stamps', u)
    <3>1. u - Window >= m
      BY <2>2, <2>8, <2>10, <2>13
    <3>2. Evict(live, u) \subseteq live \ {m}
      BY <2>8, <2>10, <2>13, <3>1 DEF Evict
    <3>3. /\ IsFiniteSet(live \ {m}) /\ Cardinality(live \ {m}) = Cardinality(live) - 1
      BY <2>3, <2>8, FS_RemoveElement
    <3>4. /\ Cardinality(Evict(live, u)) <= Cardinality(live) - 1
          /\ Cardinality(Evict(live, u)) \in Nat
      BY <3>2, <3>3, FS_Subset, FS_CardinalityType
    <3>5. ~(Cardinality(Evict(live, u)) >= rate)
      BY <2>10, <2>12, <3>4
    <3> QED BY <2>7, <2>10, <3>5 DEF Full
  <2>14. Full(stamps', t + wait - 1)
    <3> DEFINE u == t + wait - 1
    <3>1. u - Window = m - 1 /\ u \in Int
      BY <2>2, <2>8, <2>10
    <3> HIDE DEF u
    <3>2. \A s \in live : s \in Int /\ ~(s <= u - Window)
      BY <2>3, <2>8, <3>1
    <3>3. Evict(live, u) = live
      BY <3>2 DEF Evict
    <3> QED BY <2>7, <2>10, <2>12, <3>3 DEF Full, u
  <2>15. wait \in Int /\ t + wait \in Int
    BY <2>2, <2>8, <2>10
  <2> HIDE DEF wait
  <2>16. /\ Told(wait) + Slack \in Int /\ Told(wait) + Slack >= wait
    BY <2>15, Rounding
  <2>17. t + Told(wait) + Slack \in Int /\ t + Told(wait) + Slack >= t + wait
    BY <2>2, <2>15, <2>16, Rounding
  <2>18. ~Full(stamps', t + wait) /\ ~Full(stamps', t + Told(wait) + Slack)
    BY <2>13, <2>15, <2>17
  <2> QED BY <2>9, <2>11, <2>14, <2>18
<1> QED BY <1>1, InitIInv, StepIInv, PTL DEF Spec, RetryHonest
=============================================================================
