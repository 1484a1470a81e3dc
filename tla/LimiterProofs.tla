---------------------------- MODULE LimiterProofs ----------------------------
(***************************************************************************)
(* Proofs about SlidingWindow and TokenBucket, for every set of requests   *)
(* and keys, every limit, window, rate and burst, and every bound on the   *)
(* clock. What they share, the table of buckets, comes first.              *)
(***************************************************************************)
EXTENDS SlidingWindow, TokenBucket, SequenceTheorems, FiniteSetTheorems,
        WellFoundedInduction, TLAPS

-----------------------------------------------------------------------------
\* Lists of times

\* A non-empty set of naturals has a least element, and Min selects it.
LEMMA MinNat ==
    ASSUME NEW S \in SUBSET Nat, S # {}
    PROVE  Min(S) \in S /\ \A y \in S : Min(S) <= y
<1>1. PICK x \in S : \A y \in S : ~(<<y, x>> \in OpToRel(<, Nat))
  BY WFMin, NatLessThanWellFounded, Zenon
<1>2. \A y \in S : x <= y
  <2> SUFFICES ASSUME NEW y \in S PROVE x <= y
    OBVIOUS
  <2>1. ~(y < x)
    BY <1>1 DEF OpToRel
  <2> QED BY <2>1
<1> QED BY <1>2 DEF Min

\* w is what is left of the list s when leading entries are dropped, all of them
\* from before the cutoff c.
IsRest(w, s, c) ==
    /\ w \in Seq(Nat)
    /\ s \in Seq(Nat)
    /\ Len(w) <= Len(s)
    /\ \A i \in 1..Len(w) : w[i] = s[Len(s) - Len(w) + i]
    /\ \A i \in 1..(Len(s) - Len(w)) : s[i] < c

\* Evict drops leading entries only, all of them from before the cutoff, and the
\* first that it keeps is not.
LEMMA EvictEffect ==
    ASSUME NEW w \in Seq(Nat), NEW c \in Int
    PROVE  /\ IsRest(Evict(w, c), w, c)
           /\ Evict(w, c) # <<>> => ~(Evict(w, c)[1] < c)
<1> DEFINE fresh == {i \in DOMAIN w : ~(w[i] < c)}
<1>1. CASE fresh = {}
  <2>1. Evict(w, c) = <<>>
    BY <1>1 DEF Evict
  <2>2. \A i \in 1..Len(w) : w[i] < c
    BY <1>1
  <2> QED BY <2>1, <2>2 DEF IsRest
<1>2. CASE fresh # {}
  <2>1. fresh \in SUBSET Nat /\ fresh \subseteq 1..Len(w)
    OBVIOUS
  <2> DEFINE m == Min(fresh)
             e == SubSeq(w, m, Len(w))
  <2>2. m \in fresh /\ \A y \in fresh : m <= y
    BY <2>1, <1>2, MinNat
  <2>3. Evict(w, c) = e
    BY <1>2 DEF Evict
  <2>4. m \in 1..Len(w) /\ ~(w[m] < c)
    BY <2>2
  <2>5. \A i \in 1..(m - 1) : w[i] < c
    <3> SUFFICES ASSUME NEW i \in 1..(m - 1), ~(w[i] < c) PROVE FALSE
      OBVIOUS
    <3>1. i \in fresh
      BY <2>4
    <3>2. m <= i
      BY <2>2, <3>1
    <3> HIDE DEF m
    <3> QED BY <2>4, <3>2
  <2> HIDE DEF m
  <2>6. /\ e \in Seq(Nat)
        /\ Len(e) = Len(w) - m + 1
        /\ \A i \in 1..(Len(w) - m + 1) : e[i] = w[m + i - 1]
    <3>1. \A i \in m..Len(w) : w[i] \in Nat
      BY <2>4
    <3> QED BY <2>4, <3>1, SubSeqProperties
  <2> HIDE DEF e
  <2>7. IsRest(e, w, c)
    BY <2>4, <2>5, <2>6 DEF IsRest
  <2>8. ~(e[1] < c)
    BY <2>4, <2>6
  <2> QED BY <2>3, <2>7, <2>8
<1> QED BY <1>1, <1>2

\* The rest of a rest is a rest, for the later cutoff.
LEMMA RestTransitive ==
    ASSUME NEW c \in Int, NEW d \in Int, c <= d,
           NEW w, NEW v, NEW s, IsRest(w, s, c), IsRest(v, w, d)
    PROVE  IsRest(v, s, d)
<1>1. \A i \in 1..Len(v) : v[i] = s[Len(s) - Len(v) + i]
  <2> SUFFICES ASSUME NEW i \in 1..Len(v) PROVE v[i] = s[Len(s) - Len(v) + i]
    OBVIOUS
  <2> DEFINE j == Len(w) - Len(v) + i
  <2>1. j \in 1..Len(w) /\ v[i] = w[j]
    BY DEF IsRest
  <2>2. w[j] = s[Len(s) - Len(w) + j]
    BY <2>1 DEF IsRest
  <2>3. Len(s) - Len(w) + j = Len(s) - Len(v) + i
    BY DEF IsRest
  <2> QED BY <2>1, <2>2, <2>3
<1>2. \A i \in 1..(Len(s) - Len(v)) : s[i] < d
  <2> SUFFICES ASSUME NEW i \in 1..(Len(s) - Len(v)) PROVE s[i] < d
    OBVIOUS
  <2>1. s[i] \in Nat
    BY DEF IsRest
  <2>2. CASE i <= Len(s) - Len(w)
    BY <2>1, <2>2 DEF IsRest
  <2>3. CASE i > Len(s) - Len(w)
    <3> DEFINE j == i - (Len(s) - Len(w))
    <3>1. j \in 1..(Len(w) - Len(v)) /\ Len(s) - Len(w) + j = i
      BY <2>3 DEF IsRest
    <3>2. w[j] < d
      BY <3>1 DEF IsRest
    <3>3. w[j] = s[Len(s) - Len(w) + j]
      BY <3>1 DEF IsRest
    <3> QED BY <3>1, <3>2, <3>3
  <2> QED BY <2>2, <2>3 DEF IsRest
<1> QED BY <1>1, <1>2 DEF IsRest

\* A later cutoff does no harm.
LEMMA RestLater ==
    ASSUME NEW c \in Int, NEW d \in Int, c <= d, NEW w, NEW s, IsRest(w, s, c)
    PROVE  IsRest(w, s, d)
BY DEF IsRest

\* The same time appended to both.
LEMMA RestAppend ==
    ASSUME NEW c \in Int, NEW w, NEW s, IsRest(w, s, c), NEW t \in Nat
    PROVE  IsRest(Append(w, t), Append(s, t), c)
<1> DEFINE aw == Append(w, t)
           av == Append(s, t)
<1>1. /\ aw \in Seq(Nat) /\ Len(aw) = Len(w) + 1
      /\ \A i \in 1..Len(w) : aw[i] = w[i]
      /\ aw[Len(w) + 1] = t
  BY DEF IsRest
<1>2. /\ av \in Seq(Nat) /\ Len(av) = Len(s) + 1
      /\ \A i \in 1..Len(s) : av[i] = s[i]
      /\ av[Len(s) + 1] = t
  BY DEF IsRest
<1> HIDE DEF aw, av
<1>3. /\ Len(w) \in Nat /\ Len(s) \in Nat /\ Len(w) <= Len(s)
      /\ \A i \in 1..Len(w) : w[i] = s[Len(s) - Len(w) + i]
      /\ \A i \in 1..(Len(s) - Len(w)) : s[i] < c
  BY DEF IsRest
<1> DEFINE d == Len(s) - Len(w)
<1>4. d \in Nat /\ Len(av) - Len(aw) = d
  BY <1>1, <1>2, <1>3
<1>5. \A i \in 1..Len(aw) : aw[i] = av[d + i]
  <2> SUFFICES ASSUME NEW i \in 1..Len(aw) PROVE aw[i] = av[d + i]
    OBVIOUS
  <2>1. CASE i = Len(w) + 1
    <3>1. d + i = Len(s) + 1
      BY <1>3, <2>1
    <3> QED BY <1>1, <1>2, <2>1, <3>1
  <2>2. CASE i \in 1..Len(w)
    <3>1. d + i \in 1..Len(s)
      BY <1>3, <2>2
    <3>2. aw[i] = w[i] /\ w[i] = s[d + i] /\ av[d + i] = s[d + i]
      BY <1>1, <1>2, <1>3, <2>2, <3>1
    <3> QED BY <3>2
  <2>3. i = Len(w) + 1 \/ i \in 1..Len(w)
    BY <1>1, <1>3
  <2> QED BY <2>1, <2>2, <2>3
<1>6. \A i \in 1..d : av[i] < c
  <2> SUFFICES ASSUME NEW i \in 1..d PROVE av[i] < c
    OBVIOUS
  <2>1. i \in 1..Len(s)
    BY <1>3
  <2> QED BY <1>2, <1>3, <2>1
<1>7. IsRest(aw, av, c)
  <2> HIDE DEF d
  <2>1. Len(aw) <= Len(av)
    BY <1>1, <1>2, <1>3
  <2> QED BY <1>1, <1>2, <1>4, <1>5, <1>6, <2>1 DEF IsRest
<1> QED BY <1>7 DEF aw, av

-----------------------------------------------------------------------------
\* Seconds

\* The header takes Slack off the wait at most.
LEMMA Rounding ==
    ASSUME NEW w \in Int
    PROVE  Told(w) \in Int /\ Slack \in Nat /\ w <= Told(w) + Slack
<1> DEFINE q == w \div Second
           m == w % Second
<1>1. Second \in Nat /\ Second > 0
  BY RetryHeaderAssumption
<1>2. q \in Int /\ m \in 0..(Second - 1) /\ w = q * Second + m
  BY <1>1
<1>3. Slack \in Nat /\ Second <= 2 * Slack + 1
  BY <1>1 DEF Slack
<1>4. \/ 2 * m <= Second /\ Told(w) = q * Second
      \/ Told(w) = (q + 1) * Second
  <2>1. Told(w) = Seconds(w) * Second
    BY DEF Told
  <2>2. \/ 2 * m <= Second /\ Seconds(w) = q
        \/ Seconds(w) = q + 1
    BY <1>1, <1>2 DEF Seconds
  <2> HIDE DEF q, m
  <2> QED BY <2>1, <2>2
<1> HIDE DEF q, m
<1>5. q * Second \in Int /\ (q + 1) * Second = q * Second + Second
  BY <1>1, <1>2
<1> QED BY <1>1, <1>2, <1>3, <1>4, <1>5

-----------------------------------------------------------------------------
\* The table

\* A request past the first look has a key.
HasKey == \A r \in Reqs : req[r].pc # "idle" => req[r].key \in Keys

\* The table, its buckets of the kind B and the handlers are sound.
Table(B) ==
    /\ buckets \in [Keys -> 0..Len(heap)]
    /\ heap \in Seq(B)
    /\ req \in [Reqs -> HandlerType]
    /\ OneBucketPerKey
    /\ HasKey

\* The first look.
LEMMA LookupTable ==
    ASSUME NEW B, Table(B), NEW r \in Reqs, NEW k \in Keys, Lookup(r, k)
    PROVE  Table(B)'
<1> USE DEF Table
<1>1. UNCHANGED <<buckets, heap>>
  BY DEF Lookup
<1> DEFINE h == [pc |-> IF buckets[k] = 0 THEN "create" ELSE "allow",
                 key |-> k, bucket |-> buckets[k]]
<1>2. req' = [req EXCEPT ![r] = h]
  BY DEF Lookup
<1>3. /\ h \in HandlerType /\ h.key = k
      /\ h.pc = "allow" => h.bucket # 0 /\ h.bucket = buckets[k]
  BY DEF HandlerType
<1> HIDE DEF h
<1>4. req' \in [Reqs -> HandlerType]
  BY <1>2, <1>3
<1>5. OneBucketPerKey'
  BY <1>1, <1>2, <1>3 DEF OneBucketPerKey
<1>6. HasKey'
  BY <1>2, <1>3 DEF HasKey
<1> QED BY <1>1, <1>4, <1>5, <1>6

\* A handler that has found its bucket.
LEMMA HandlerSet ==
    ASSUME NEW h \in HandlerType, NEW i \in Nat
    PROVE  LET n == [h EXCEPT !.pc = "allow", !.bucket = i] IN
           n \in HandlerType /\ n.pc = "allow" /\ n.key = h.key /\ n.bucket = i
BY DEF HandlerType

\* The second look: a bucket that is found is taken, a new one belongs to no
\* other key, and no bucket changes.
LEMMA CreateTable ==
    ASSUME NEW B, NEW f \in B, Table(B), NEW r \in Reqs, Create(r, f)
    PROVE  /\ Table(B)'
           /\ \A k \in Keys : buckets[k] # 0 =>
                 buckets'[k] = buckets[k] /\ heap'[buckets'[k]] = heap[buckets[k]]
           /\ \A k \in Keys : buckets[k] = 0 =>
                 buckets'[k] = 0 \/ heap'[buckets'[k]] = f
<1> USE DEF Table
<1> DEFINE k == req[r].key
           n == Len(heap) + 1
<1>1. k \in Keys
  BY DEF Create, HasKey
<1>3. /\ Len(heap) \in Nat /\ n \in Nat \ {0}
      /\ req[r] \in HandlerType
      /\ \A l \in Keys : buckets[l] \in 0..Len(heap)
  OBVIOUS
<1>4. CASE buckets[k] # 0
  <2>1. heap' = heap /\ buckets' = buckets
    BY <1>1, <1>4 DEF Create
  <2> DEFINE h == [req[r] EXCEPT !.pc = "allow", !.bucket = buckets[k]]
  <2>2. req' = [req EXCEPT ![r] = h]
    BY <1>4 DEF Create
  <2>3. /\ h \in HandlerType
        /\ h.pc = "allow" /\ h.key = k /\ h.bucket = buckets[k]
    <3>1. buckets[k] \in Nat
      BY <1>1, <1>3
    <3> QED BY <1>3, <3>1, HandlerSet
  <2> HIDE DEF h
  <2>4. req' \in [Reqs -> HandlerType]
    BY <2>2, <2>3
  <2>5. OneBucketPerKey'
    BY <1>1, <1>4, <2>1, <2>2, <2>3 DEF OneBucketPerKey
  <2>6. HasKey'
    BY <1>1, <2>2, <2>3 DEF HasKey
  <2> QED BY <2>1, <2>4, <2>5, <2>6
<1>5. CASE buckets[k] = 0
  <2>1. heap' = Append(heap, f) /\ buckets' = [buckets EXCEPT ![k] = n]
    BY <1>5 DEF Create
  <2> DEFINE h == [req[r] EXCEPT !.pc = "allow", !.bucket = n]
  <2>2. req' = [req EXCEPT ![r] = h]
    BY <1>5 DEF Create
  <2>3. /\ h \in HandlerType
        /\ h.pc = "allow" /\ h.key = k /\ h.bucket = n
    BY <1>3, HandlerSet
  <2> HIDE DEF h
  <2>4. /\ heap' \in Seq(B) /\ Len(heap') = n /\ n \in Nat \ {0}
        /\ heap'[n] = f
        /\ \A i \in 1..Len(heap) : heap'[i] = heap[i]
    BY <2>1
  <2>5. \A l \in Keys : buckets'[l] = IF l = k THEN n ELSE buckets[l]
    BY <2>1
  <2>6. buckets' \in [Keys -> 0..Len(heap')]
    <3>1. \A l \in Keys : buckets'[l] \in 0..n
      <4> SUFFICES ASSUME NEW l \in Keys PROVE buckets'[l] \in 0..n
        OBVIOUS
      <4>1. buckets[l] \in 0..n /\ n \in 0..n
        BY <1>3
      <4> QED BY <2>5, <4>1
    <3>2. buckets' = [l \in Keys |-> buckets'[l]]
      BY <2>1
    <3> QED BY <2>4, <3>1, <3>2
  <2>7. req' \in [Reqs -> HandlerType]
    BY <2>2, <2>3
  <2>8. OneBucketPerKey'
    <3>1. \A q \in Reqs : req'[q].pc = "allow" =>
             req'[q].bucket # 0 /\ req'[q].bucket = buckets'[req'[q].key]
      <4> SUFFICES ASSUME NEW q \in Reqs, req'[q].pc = "allow"
                   PROVE  req'[q].bucket # 0 /\ req'[q].bucket = buckets'[req'[q].key]
        OBVIOUS
      <4>1. CASE q = r
        BY <1>1, <2>2, <2>3, <2>4, <2>5, <4>1
      <4>2. CASE q # r
        <5>1. req'[q] = req[q]
          BY <2>2, <4>2
        <5>2. req[q].bucket # 0 /\ req[q].bucket = buckets[req[q].key] /\ req[q].key \in Keys
          BY <5>1 DEF OneBucketPerKey, HasKey
        <5> QED BY <1>5, <2>5, <5>1, <5>2
      <4> QED BY <4>1, <4>2
    <3>2. \A i, j \in Keys : buckets'[i] # 0 /\ buckets'[i] = buckets'[j] => i = j
      BY <1>3, <2>5 DEF OneBucketPerKey
    <3> QED BY <3>1, <3>2 DEF OneBucketPerKey
  <2>9. HasKey'
    BY <1>1, <2>2, <2>3 DEF HasKey
  <2>10. \A l \in Keys : buckets[l] # 0 =>
            buckets'[l] = buckets[l] /\ heap'[buckets'[l]] = heap[buckets[l]]
    <3> SUFFICES ASSUME NEW l \in Keys, buckets[l] # 0
                 PROVE  buckets'[l] = buckets[l] /\ heap'[buckets'[l]] = heap[buckets[l]]
      OBVIOUS
    <3>1. buckets'[l] = buckets[l]
      BY <1>5, <2>5
    <3>2. buckets[l] \in 1..Len(heap)
      BY <1>3
    <3> QED BY <2>4, <3>1, <3>2
  <2>11. \A l \in Keys : buckets[l] = 0 => buckets'[l] = 0 \/ heap'[buckets'[l]] = f
    BY <2>4, <2>5
  <2> QED BY <2>4, <2>6, <2>7, <2>8, <2>9, <2>10, <2>11
<1> QED BY <1>4, <1>5

\* Allow ends: only the bucket of the request's key changes.
LEMMA LeaveTable ==
    ASSUME NEW B, NEW b \in B, Table(B), NEW r \in Reqs, req[r].pc = "allow", Leave(r, b)
    PROVE  /\ Table(B)'
           /\ buckets' = buckets
           /\ req[r].key \in Keys /\ buckets[req[r].key] # 0
           /\ heap'[buckets[req[r].key]] = b
           /\ \A l \in Keys \ {req[r].key} : buckets[l] # 0 =>
                 heap'[buckets[l]] = heap[buckets[l]]
           /\ heap[buckets[req[r].key]] \in B
           /\ req[r].bucket = buckets[req[r].key]
<1> USE DEF Table
<1> DEFINE k == req[r].key
           id == req[r].bucket
<1>1. k \in Keys /\ id # 0 /\ id = buckets[k]
  BY DEF HasKey, OneBucketPerKey
<1>2. id \in 1..Len(heap)
  BY <1>1
<1>3. buckets' = buckets /\ heap' = [heap EXCEPT ![id] = b] /\ req' = [req EXCEPT ![r] = Idle]
  BY DEF Leave
<1>4. Idle \in HandlerType /\ Idle.pc = "idle"
  BY DEF Idle, HandlerType
<1>5. heap' \in Seq(B) /\ Len(heap') = Len(heap)
  BY <1>2, <1>3, ExceptSeq
<1>6. \A i \in 1..Len(heap) : heap'[i] = IF i = id THEN b ELSE heap[i]
  BY <1>2, <1>3
<1>7. req' \in [Reqs -> HandlerType]
  BY <1>3, <1>4
<1>8. OneBucketPerKey' /\ HasKey'
  BY <1>3, <1>4 DEF OneBucketPerKey, HasKey
<1>9. \A l \in Keys \ {k} : buckets[l] # 0 => buckets[l] \in 1..Len(heap) /\ buckets[l] # id
  BY <1>1 DEF OneBucketPerKey
<1>10. heap[id] \in B
  BY <1>2
<1> QED BY <1>1, <1>2, <1>3, <1>5, <1>6, <1>7, <1>8, <1>9, <1>10

-----------------------------------------------------------------------------
\* The inductive invariant of the sliding window

TableInv == TypeOK /\ OneBucketPerKey /\ HasKey

LEMMA TableOfTimes == TableInv <=> TypeOK /\ Table(Seq(Nat))
BY DEF TableInv, TypeOK, Table

\* A key without a bucket has no admissions; a bucket holds its key's admissions
\* but for leading ones that have left the window.
BucketsAreRests ==
    \A k \in Keys :
        IF buckets[k] = 0 THEN admitted[k] = <<>>
        ELSE IsRest(heap[buckets[k]], admitted[k], now - Window)

\* Admissions are recorded in the order of time.
InOrder ==
    \A k \in Keys : \A j \in DOMAIN admitted[k] :
        /\ admitted[k][j] <= now
        /\ \A i \in DOMAIN admitted[k] : i <= j => admitted[k][i] <= admitted[k][j]

IInv == TableInv /\ BucketsAreRests /\ InOrder /\ RateBound

\* What a request finds in its bucket once the old entries are gone.
LEMMA LiveRest ==
    ASSUME IInv, NEW r \in Reqs, req[r].pc = "allow"
    PROVE  /\ req[r].key \in Keys
           /\ Live(r) \in Seq(Nat)
           /\ IsRest(Live(r), admitted[req[r].key], now - Window)
           /\ Live(r) # <<>> => ~(Live(r)[1] < now - Window)
<1> DEFINE k == req[r].key
           w == heap[req[r].bucket]
<1>1. k \in Keys /\ req[r].bucket # 0 /\ req[r].bucket = buckets[k]
  BY DEF IInv, TableInv, HasKey, OneBucketPerKey
<1>2. IsRest(w, admitted[k], now - Window)
  BY <1>1 DEF IInv, BucketsAreRests
<1>3. now - Window \in Int
  BY SlidingWindowAssumption DEF IInv, TableInv, TypeOK
<1>4. w \in Seq(Nat)
  BY <1>2 DEF IsRest
<1> HIDE DEF w
<1>5. /\ IsRest(Evict(w, now - Window), w, now - Window)
      /\ Evict(w, now - Window) # <<>> => ~(Evict(w, now - Window)[1] < now - Window)
  BY <1>3, <1>4, EvictEffect
<1>6. IsRest(Evict(w, now - Window), admitted[k], now - Window)
  BY <1>2, <1>3, <1>5, RestTransitive
<1>7. Live(r) = Evict(w, now - Window)
  BY DEF Live, w
<1>8. Live(r) \in Seq(Nat)
  BY <1>6, <1>7 DEF IsRest
<1> QED BY <1>1, <1>5, <1>6, <1>7, <1>8

\* A request that is not admitted only trims its bucket.
LEMMA TrimStep ==
    ASSUME IInv, NEW r \in Reqs, req[r].pc = "allow", Leave(r, Live(r)),
           UNCHANGED <<rate, now, admitted>>
    PROVE  IInv'
<1> DEFINE k == req[r].key
<1>1. /\ k \in Keys /\ Live(r) \in Seq(Nat)
      /\ IsRest(Live(r), admitted[k], now - Window)
  BY LiveRest
<1>2. TypeOK /\ Table(Seq(Nat))
  BY TableOfTimes DEF IInv
<1>3. /\ Table(Seq(Nat))' /\ buckets' = buckets
      /\ buckets[k] # 0
      /\ heap'[buckets[k]] = Live(r)
      /\ \A l \in Keys \ {k} : buckets[l] # 0 => heap'[buckets[l]] = heap[buckets[l]]
  BY <1>1, <1>2, LeaveTable
<1>4. TableInv'
  BY <1>2, <1>3 DEF TableInv, TypeOK, Table
<1>5. BucketsAreRests'
  <2> SUFFICES ASSUME NEW l \in Keys
               PROVE  IF buckets'[l] = 0 THEN admitted'[l] = <<>>
                      ELSE IsRest(heap'[buckets'[l]], admitted'[l], now' - Window)
    BY DEF BucketsAreRests
  <2>1. CASE l = k
    BY <1>1, <1>3, <2>1
  <2>2. CASE l # k
    BY <1>3, <2>2 DEF IInv, BucketsAreRests
  <2> QED BY <2>1, <2>2
<1>6. InOrder' /\ RateBound'
  BY DEF IInv, InOrder, RateBound
<1> QED BY <1>4, <1>5, <1>6 DEF IInv

\* An admission after which the limit still holds: the admissions that are Rate
\* or more back have been evicted, so they are older than the window.
LEMMA AdmitStep ==
    ASSUME IInv, NEW r \in Reqs, Admit(r)
    PROVE  IInv'
<1> DEFINE k == req[r].key
           a == admitted[k]
           v == Append(Live(r), now)
           n == Append(a, now)
<1>1. /\ req[r].pc = "allow" /\ ~(Len(Live(r)) >= rate) /\ Leave(r, v)
      /\ admitted' = [admitted EXCEPT ![k] = n] /\ rate' = rate /\ now' = now
  BY DEF Admit
<1>2. /\ k \in Keys /\ Live(r) \in Seq(Nat)
      /\ IsRest(Live(r), a, now - Window)
  BY <1>1, LiveRest
<1>3. /\ TypeOK /\ Table(Seq(Nat))
      /\ now \in Nat /\ admitted \in [Keys -> Seq(Nat)] /\ now - Window \in Int
  BY TableOfTimes, SlidingWindowAssumption DEF IInv, TypeOK
<1>4. rate \in Int
  BY SlidingWindowAssumption DEF IInv, TableInv, TypeOK
<1>5. a \in Seq(Nat) /\ v \in Seq(Nat)
  BY <1>2, <1>3
<1>6. IsRest(v, n, now - Window)
  BY <1>2, <1>3, RestAppend
<1>7. /\ n \in Seq(Nat) /\ Len(n) = Len(a) + 1 /\ Len(a) \in Nat
      /\ \A i \in 1..Len(a) : n[i] = a[i]
      /\ n[Len(a) + 1] = now
  BY <1>3, <1>5
<1> HIDE DEF v, n
<1>8. \A l \in Keys : admitted'[l] = IF l = k THEN n ELSE admitted[l]
  BY <1>1, <1>3
<1>9. /\ Table(Seq(Nat))' /\ buckets' = buckets
      /\ buckets[k] # 0
      /\ heap'[buckets[k]] = v
      /\ \A l \in Keys \ {k} : buckets[l] # 0 => heap'[buckets[l]] = heap[buckets[l]]
  BY <1>1, <1>3, <1>5, LeaveTable
<1>10. TableInv'
  BY <1>1, <1>3, <1>7, <1>9 DEF TableInv, TypeOK, Table
<1>11. BucketsAreRests'
  <2> SUFFICES ASSUME NEW l \in Keys
               PROVE  IF buckets'[l] = 0 THEN admitted'[l] = <<>>
                      ELSE IsRest(heap'[buckets'[l]], admitted'[l], now' - Window)
    BY DEF BucketsAreRests
  <2>1. CASE l = k
    BY <1>1, <1>6, <1>8, <1>9, <2>1
  <2>2. CASE l # k
    BY <1>1, <1>8, <1>9, <2>2 DEF IInv, BucketsAreRests
  <2> QED BY <2>1, <2>2
<1>12. InOrder'
  <2> SUFFICES ASSUME NEW l \in Keys, NEW j \in DOMAIN admitted'[l]
               PROVE  /\ admitted'[l][j] <= now
                      /\ \A i \in DOMAIN admitted'[l] : i <= j => admitted'[l][i] <= admitted'[l][j]
    BY <1>1 DEF InOrder
  <2>1. CASE l # k
    BY <1>8, <2>1 DEF IInv, InOrder
  <2>2. CASE l = k
    <3>1. admitted'[l] = n /\ DOMAIN n = 1..(Len(a) + 1) /\ DOMAIN a = 1..Len(a)
      BY <1>5, <1>7, <1>8, <2>2
    <3>2. \A i \in 1..Len(a) : n[i] <= now
      BY <1>2, <1>7, <3>1 DEF IInv, InOrder
    <3>3. CASE j = Len(a) + 1
      <4>1. n[j] = now
        BY <1>7, <3>3
      <4>2. \A i \in 1..(Len(a) + 1) : n[i] <= now
        <5> SUFFICES ASSUME NEW i \in 1..(Len(a) + 1) PROVE n[i] <= now
          OBVIOUS
        <5>1. CASE i \in 1..Len(a)
          BY <3>2, <5>1
        <5>2. CASE i = Len(a) + 1
          BY <1>3, <3>3, <4>1, <5>2
        <5>3. Len(a) \in Nat
          BY <1>7
        <5> QED BY <5>1, <5>2, <5>3
      <4> QED BY <3>1, <4>1, <4>2
    <3>4. CASE j \in 1..Len(a)
      <4>1. \A i \in 1..Len(a) : i <= j => a[i] <= a[j]
        BY <1>2, <3>1, <3>4 DEF IInv, InOrder
      <4>2. \A i \in DOMAIN n : i <= j => i \in 1..Len(a)
        BY <1>7, <3>1, <3>4
      <4> QED BY <1>7, <3>1, <3>2, <3>4, <4>1, <4>2
    <3> QED BY <1>7, <3>1, <3>3, <3>4
  <2> QED BY <2>1, <2>2
<1>13. RateBound'
  <2> SUFFICES ASSUME NEW l \in Keys, NEW i \in DOMAIN admitted'[l],
                      NEW j \in DOMAIN admitted'[l], j - i >= rate
               PROVE  admitted'[l][j] - admitted'[l][i] > Window
    BY <1>1 DEF RateBound
  <2>1. CASE l # k
    BY <1>8, <2>1 DEF IInv, RateBound
  <2>2. CASE l = k
    <3>1. admitted'[l] = n /\ DOMAIN n = 1..(Len(a) + 1) /\ DOMAIN a = 1..Len(a)
      BY <1>5, <1>7, <1>8, <2>2, SMTT(30)
    <3>2. /\ Len(Live(r)) \in Nat /\ Len(Live(r)) < rate
          /\ i \in 1..(Len(a) + 1) /\ j \in 1..(Len(a) + 1)
      BY <1>1, <1>2, <1>4, <3>1, SMTT(30)
    <3>3. i <= Len(a)
      BY <1>4, <1>7, <3>2
    <3>4. CASE j \in 1..Len(a)
      <4>1. i \in DOMAIN a /\ j \in DOMAIN a /\ n[i] = a[i] /\ n[j] = a[j]
        <5> HIDE DEF a
        <5>1. i \in 1..Len(a)
          BY <1>7, <3>2, <3>3
        <5> QED BY <1>7, <3>1, <3>4, <5>1
      <4>2. a[j] - a[i] > Window
        BY <1>2, <4>1 DEF IInv, RateBound
      <4> HIDE DEF a
      <4> QED BY <3>1, <4>1, <4>2
    <3>5. CASE j = Len(a) + 1
      <4>1. i \in 1..(Len(a) - Len(Live(r)))
        BY <1>4, <1>7, <3>2, <3>3, <3>5
      <4>2. a[i] < now - Window
        BY <1>2, <4>1 DEF IsRest
      <4>3. n[i] = a[i] /\ n[j] = now /\ a[i] \in Nat
        <5> HIDE DEF a
        <5>1. i \in 1..Len(a)
          BY <1>7, <3>2, <3>3
        <5> QED BY <1>5, <1>7, <3>5, <5>1, SMTT(30)
      <4>4. now - a[i] > Window
        <5> HIDE DEF a
        <5> QED BY <1>3, <4>2, <4>3, SlidingWindowAssumption
      <4>5. n[j] - n[i] > Window
        <5> HIDE DEF a
        <5> QED BY <4>3, <4>4
      <4> QED BY <3>1, <4>5
    <3>6. j \in 1..Len(a) \/ j = Len(a) + 1
      BY <1>7, <3>2, SMTT(30)
    <3> QED BY <3>4, <3>5, <3>6
  <2> QED BY <2>1, <2>2
<1> QED BY <1>10, <1>11, <1>12, <1>13 DEF IInv

LEMMA InitIInv == Init => IInv
<1> SUFFICES ASSUME Init PROVE IInv
  OBVIOUS
<1>1. /\ buckets = [k \in Keys |-> 0] /\ heap = <<>> /\ req = [r \in Reqs |-> Idle]
      /\ rate \in Rates /\ now = 0 /\ admitted = [k \in Keys |-> <<>>]
  BY DEF Init, TableInit
<1>2. <<>> \in Seq(Seq(Nat)) /\ <<>> \in Seq(Nat) /\ Len(<<>>) = 0
  OBVIOUS
<1>3. Idle \in HandlerType /\ Idle.pc = "idle"
  BY DEF Idle, HandlerType
<1>4. TypeOK
  BY <1>1, <1>2, <1>3 DEF TypeOK
<1>5. OneBucketPerKey /\ HasKey
  BY <1>1, <1>3 DEF OneBucketPerKey, HasKey
<1>6. BucketsAreRests /\ InOrder /\ RateBound
  BY <1>1 DEF BucketsAreRests, InOrder, RateBound
<1> QED BY <1>4, <1>5, <1>6 DEF IInv, TableInv

LEMMA StepIInv == IInv /\ [Next]_vars => IInv'
<1> SUFFICES ASSUME IInv, [Next]_vars PROVE IInv'
  OBVIOUS
<1>1. CASE UNCHANGED vars
  BY <1>1 DEF vars, IInv, TableInv, TypeOK, OneBucketPerKey, HasKey,
              BucketsAreRests, InOrder, RateBound
<1>2. CASE Tick /\ UNCHANGED rate
  <2>1. /\ now' = now + 1 /\ now \in Nat
        /\ UNCHANGED <<buckets, heap, req, rate, admitted>>
    BY <1>2 DEF Tick, IInv, TableInv, TypeOK
  <2>2. TableInv'
    BY <2>1 DEF IInv, TableInv, TypeOK, OneBucketPerKey, HasKey
  <2>3. BucketsAreRests'
    <3> SUFFICES ASSUME NEW k \in Keys
                 PROVE  IF buckets[k] = 0 THEN admitted[k] = <<>>
                        ELSE IsRest(heap[buckets[k]], admitted[k], now' - Window)
      BY <2>1 DEF BucketsAreRests
    <3>1. now - Window \in Int /\ now' - Window \in Int /\ now - Window <= now' - Window
      BY <2>1, SlidingWindowAssumption
    <3> QED BY <3>1, RestLater DEF IInv, BucketsAreRests
  <2>4. InOrder'
    <3> SUFFICES ASSUME NEW k \in Keys, NEW j \in DOMAIN admitted[k]
                 PROVE  /\ admitted[k][j] <= now'
                        /\ \A i \in DOMAIN admitted[k] : i <= j => admitted[k][i] <= admitted[k][j]
      BY <2>1 DEF InOrder
    <3>1. admitted[k][j] \in Nat
      BY DEF IInv, TableInv, TypeOK
    <3> QED BY <2>1, <3>1 DEF IInv, InOrder
  <2>5. RateBound'
    BY <2>1 DEF IInv, RateBound
  <2> QED BY <2>2, <2>3, <2>4, <2>5 DEF IInv
<1>3. ASSUME NEW r \in Reqs, NEW k \in Keys, BeginAllow(r, k) PROVE IInv'
  <2>1. TypeOK /\ Table(Seq(Nat)) /\ Lookup(r, k)
    BY <1>3, TableOfTimes DEF IInv, BeginAllow
  <2>2. UNCHANGED <<buckets, heap, rate, now, admitted>>
    BY <1>3 DEF BeginAllow, Lookup
  <2>3. Table(Seq(Nat))'
    BY <2>1, LookupTable
  <2>4. TableInv'
    BY <2>1, <2>2, <2>3 DEF TableInv, TypeOK, Table
  <2> QED BY <2>2, <2>4 DEF IInv, BucketsAreRests, InOrder, RateBound
<1>4. ASSUME NEW r \in Reqs, CreateBucket(r) PROVE IInv'
  <2> DEFINE e == <<>>
  <2>1. e \in Seq(Nat) /\ TypeOK /\ Table(Seq(Nat)) /\ Create(r, e)
        /\ UNCHANGED <<rate, now, admitted>>
    BY <1>4, TableOfTimes DEF IInv, CreateBucket
  <2> HIDE DEF e
  <2>2. /\ Table(Seq(Nat))'
        /\ \A k \in Keys : buckets[k] # 0 =>
              buckets'[k] = buckets[k] /\ heap'[buckets'[k]] = heap[buckets[k]]
        /\ \A k \in Keys : buckets[k] = 0 =>
              buckets'[k] = 0 \/ heap'[buckets'[k]] = e
    BY <2>1, CreateTable
  <2>3. TableInv'
    BY <2>1, <2>2 DEF TableInv, TypeOK, Table
  <2>4. BucketsAreRests'
    <3> SUFFICES ASSUME NEW k \in Keys
                 PROVE  IF buckets'[k] = 0 THEN admitted[k] = <<>>
                        ELSE IsRest(heap'[buckets'[k]], admitted[k], now - Window)
      BY <2>1 DEF BucketsAreRests
    <3>1. CASE buckets[k] # 0
      BY <2>2, <3>1 DEF IInv, BucketsAreRests
    <3>2. CASE buckets[k] = 0
      <4>1. admitted[k] = <<>>
        BY <3>2 DEF IInv, BucketsAreRests
      <4>2. IsRest(<<>>, <<>>, now - Window)
        BY DEF IsRest
      <4> QED BY <2>2, <3>2, <4>1, <4>2 DEF e
    <3> QED BY <3>1, <3>2
  <2> QED BY <2>1, <2>3, <2>4 DEF IInv, InOrder, RateBound
<1>5. ASSUME NEW r \in Reqs, Admit(r) PROVE IInv'
  BY <1>5, AdmitStep
<1>6. ASSUME NEW r \in Reqs, Limit(r) \/ Panic(r) PROVE IInv'
  <2>1. /\ req[r].pc = "allow" /\ Leave(r, Live(r))
        /\ UNCHANGED <<rate, now, admitted>>
    BY <1>6 DEF Limit, Panic
  <2> QED BY <2>1, TrimStep
<1> QED BY <1>1, <1>2, <1>3, <1>4, <1>5, <1>6 DEF Next, Allow

\* The table, the buckets, the handlers and the history keep their types: every
\* bucket that the table or a handler names exists.
THEOREM TypeCorrect == Spec => []TypeOK
<1>1. IInv => TypeOK
  BY DEF IInv, TableInv
<1> QED BY <1>1, InitIInv, StepIInv, PTL DEF Spec

-----------------------------------------------------------------------------
\* Requests of a key never work on two buckets: double-checked locking in
\* swGetOrCreate is right for any number of requests and keys.
THEOREM OneBucketTheorem == Spec => []OneBucketPerKey
<1>1. IInv => OneBucketPerKey
  BY DEF IInv, TableInv
<1> QED BY <1>1, InitIInv, StepIInv, PTL DEF Spec

\* localSlidingWindow.Allow never admits more than the limit in any window.
THEOREM RateBoundTheorem == Spec => []RateBound
<1>1. IInv => RateBound
  BY DEF IInv
<1> QED BY <1>1, InitIInv, StepIInv, PTL DEF Spec

\* What a rejected request finds: the last admissions of its key, exactly as many as
\* the limit allows, the first of them at a time m. Admissions from before m are
\* earlier in the history, and those after that one have not been before m.
LEMMA LimitFinds ==
    ASSUME IInv, NEW r \in Reqs, Limit(r)
    PROVE  LET a == admitted[req[r].key]
               f == Len(a) - Len(Live(r)) + 1
           IN  /\ req[r].key \in Keys /\ now \in Nat /\ rate \in Int
               /\ a \in Seq(Nat) /\ Len(a) \in Nat /\ f \in 1..Len(a)
               /\ Len(a) - f + 1 = rate
               /\ Live(r)[1] = a[f] /\ a[f] \in Nat /\ a[f] >= now - Window
               /\ \A i \in f..Len(a) : a[f] <= a[i]
               /\ \A i \in 1..f : a[i] <= a[f]
<1> DEFINE k == req[r].key
           a == admitted[k]
           n == Len(Live(r))
           f == Len(a) - n + 1
<1>1. req[r].pc = "allow" /\ n >= rate /\ Live(r) # <<>>
  BY DEF Limit
<1>2. /\ k \in Keys
      /\ Live(r) \in Seq(Nat)
      /\ IsRest(Live(r), a, now - Window)
      /\ ~(Live(r)[1] < now - Window)
  BY <1>1, LiveRest
<1>3. now \in Nat /\ rate \in Int /\ Window \in Nat
  BY SlidingWindowAssumption DEF IInv, TableInv, TypeOK
<1>4. /\ a \in Seq(Nat) /\ DOMAIN a = 1..Len(a) /\ Len(a) \in Nat
      /\ n \in Nat \ {0} /\ n <= Len(a)
      /\ Live(r)[1] = a[f]
  <2>1. a \in Seq(Nat) /\ Live(r) \in Seq(Nat) /\ Live(r) # <<>> /\ n <= Len(a)
    BY <1>1, <1>2 DEF IsRest
  <2>2. n \in Nat \ {0} /\ 1 \in 1..n
    BY <2>1
  <2>3. Live(r)[1] = a[Len(a) - n + 1]
    BY <1>2, <2>2 DEF IsRest
  <2> QED BY <2>1, <2>2, <2>3
<1>5. \A i, j \in 1..Len(a) : i <= j => a[i] <= a[j]
  BY <1>2, <1>4 DEF IInv, InOrder
<1>6. Len(a) - f + 1 = n /\ f \in 1..Len(a)
  BY <1>4
<1> HIDE DEF a, n, f
<1>7. a[f] \in Nat /\ a[Len(a)] \in Nat /\ Len(a) \in DOMAIN a
  BY <1>4, <1>6
<1>8. a[f] >= now - Window
  BY <1>2, <1>3, <1>4, <1>7
<1>9. a[Len(a)] <= now
  BY <1>2, <1>7 DEF IInv, InOrder, a
<1>10. ~(Len(a) - f >= rate)
  <2> SUFFICES ASSUME Len(a) - f >= rate PROVE FALSE
    OBVIOUS
  <2>1. a[Len(a)] - a[f] > Window
    BY <1>2, <1>4, <1>6, <1>7 DEF IInv, RateBound, a
  <2> QED BY <1>3, <1>7, <1>8, <1>9, <2>1
<1>11. n = rate
  BY <1>1, <1>3, <1>4, <1>6, <1>10
<1>12. (\A i \in f..Len(a) : a[f] <= a[i]) /\ (\A i \in 1..f : a[i] <= a[f])
  BY <1>4, <1>5, <1>6
<1> QED BY <1>2, <1>3, <1>4, <1>6, <1>7, <1>8, <1>11, <1>12 DEF f, n, a

\* How many admissions of a list are not before the f-th one's time, or are after it.
LEMMA CountFrom ==
    ASSUME NEW a \in Seq(Nat), NEW f \in 1..Len(a), NEW c \in Int,
           \A i \in f..Len(a) : a[f] <= a[i],
           \A i \in 1..f : a[i] <= a[f]
    PROVE  LET counted == {i \in DOMAIN a : a[i] >= c} IN
           /\ Cardinality(counted) \in Nat
           /\ c <= a[f] => Cardinality(counted) >= Len(a) - f + 1
           /\ c > a[f] => Cardinality(counted) <= Len(a) - f
<1> DEFINE counted == {i \in DOMAIN a : a[i] >= c}
           n == Len(a)
<1>1. n \in Nat /\ f \in Nat /\ f >= 1 /\ f <= n /\ \A i \in 1..n : a[i] \in Nat
  OBVIOUS
<1>2. counted = {i \in 1..n : a[i] >= c}
  OBVIOUS
<1>3. \A i \in f..n : a[f] <= a[i]
  OBVIOUS
<1>4. \A i \in 1..f : a[i] <= a[f]
  OBVIOUS
<1> HIDE DEF counted, n
<1>5. IsFiniteSet(1..n) /\ IsFiniteSet(f..n) /\ IsFiniteSet((f + 1)..n)
      /\ Cardinality(f..n) = n - f + 1 /\ Cardinality((f + 1)..n) = n - f
  <2>1. 1 \in Int /\ f \in Int /\ f + 1 \in Int /\ n \in Int
    BY <1>1
  <2>2. Cardinality(f..n) = n - f + 1
    BY <1>1, <2>1, FS_Interval
  <2>3. Cardinality((f + 1)..n) = IF f + 1 > n THEN 0 ELSE n - (f + 1) + 1
    BY <2>1, FS_Interval
  <2>4. Cardinality((f + 1)..n) = n - f
    BY <1>1, <2>3
  <2> QED BY <2>1, <2>2, <2>4, FS_Interval
<1>6. IsFiniteSet(counted) /\ Cardinality(counted) \in Nat
  BY <1>2, <1>5, FS_Subset, FS_CardinalityType
<1>7. ASSUME c <= a[f] PROVE Cardinality(counted) >= n - f + 1
  <2>1. f..n \subseteq counted
    BY <1>1, <1>2, <1>3, <1>7
  <2>2. Cardinality(f..n) <= Cardinality(counted)
    BY <1>6, <2>1, FS_Subset
  <2> QED BY <1>1, <1>5, <1>6, <2>2
<1>8. ASSUME c > a[f] PROVE Cardinality(counted) <= n - f
  <2>1. counted \subseteq (f + 1)..n
    <3> SUFFICES ASSUME NEW i \in 1..n, a[i] >= c, ~(i >= f + 1) PROVE FALSE
      BY <1>1, <1>2
    <3>1. i \in 1..f /\ a[i] \in Nat /\ a[f] \in Nat
      BY <1>1
    <3>2. a[i] <= a[f]
      BY <1>4, <3>1
    <3> QED BY <1>8, <3>1, <3>2
  <2>2. Cardinality(counted) <= Cardinality((f + 1)..n)
    BY <1>5, <2>1, FS_Subset
  <2> QED BY <1>5, <2>2
<1> QED BY <1>6, <1>7, <1>8 DEF counted, n

\* localSlidingWindow.Allow rejects only what the limit forbids: as many requests
\* of the key as it allows were admitted in the window that ends now.
THEOREM RejectionsTheorem == Spec => RejectionsJustified
<1> DEFINE Full(r) == Cardinality({i \in DOMAIN admitted[req[r].key] :
                                     admitted[req[r].key][i] >= now - Window}) >= rate
<1>1. ASSUME IInv, NEW r \in Reqs, Limit(r) PROVE Full(r)
  <2> DEFINE a == admitted[req[r].key]
             f == Len(a) - Len(Live(r)) + 1
             n == Cardinality({i \in DOMAIN a : a[i] >= now - Window})
  <2>1. /\ rate \in Int /\ now - Window \in Int
        /\ a \in Seq(Nat) /\ Len(a) \in Nat /\ f \in 1..Len(a)
        /\ Len(a) - f + 1 = rate
        /\ a[f] \in Nat /\ a[f] >= now - Window
        /\ \A i \in f..Len(a) : a[f] <= a[i]
        /\ \A i \in 1..f : a[i] <= a[f]
    BY <1>1, LimitFinds, SlidingWindowAssumption
  <2> HIDE DEF a, f
  <2>2. n \in Nat /\ n >= rate
    BY <2>1, CountFrom
  <2> QED BY <2>2 DEF a
<1>2. IInv /\ [Next]_vars => [\A r \in Reqs : Limit(r) => Full(r)]_vars
  BY <1>1
<1> QED BY <1>2, InitIInv, StepIInv, PTL DEF Spec, RejectionsJustified

\* The wait that localSlidingWindow.Allow returns is one instant short, and what the
\* client is told falls short of it by half a second at most.
THEOREM RetryTheorem == Spec => RetryHonest
<1> DEFINE Honest(r) ==
             LET k == req[r].key
                 wait == RetryAfter(r)
             IN  /\ Cardinality(Counted(k, now + wait)) >= rate
                 /\ Cardinality(Counted(k, now + wait + 1)) < rate
                 /\ Cardinality(Counted(k, now + Told(wait) + Slack + 1)) < rate
<1>1. ASSUME IInv, NEW r \in Reqs, Limit(r) PROVE Honest(r)
  <2> DEFINE k == req[r].key
             a == admitted[k]
             f == Len(a) - Len(Live(r)) + 1
             m == a[f]
             wait == RetryAfter(r)
  <2>1. /\ rate \in Int /\ now \in Nat /\ Window \in Nat
        /\ a \in Seq(Nat) /\ Len(a) \in Nat /\ f \in 1..Len(a)
        /\ Len(a) - f + 1 = rate
        /\ Live(r)[1] = m /\ m \in Nat
        /\ \A i \in f..Len(a) : a[f] <= a[i]
        /\ \A i \in 1..f : a[i] <= a[f]
    BY <1>1, LimitFinds, SlidingWindowAssumption
  <2>2. wait = m + Window - now
    BY <2>1 DEF RetryAfter
  <2> HIDE DEF f
  <2>3. ASSUME NEW t \in Int
        PROVE  /\ t - Window <= m => Cardinality(Counted(k, t)) >= rate
               /\ t - Window > m => Cardinality(Counted(k, t)) < rate
    <3> DEFINE c == t - Window
               n == Cardinality({i \in DOMAIN a : a[i] >= c})
    <3>1. Cardinality(Counted(k, t)) = n
      BY DEF Counted
    <3>2. c \in Int
      BY <2>1
    <3> HIDE DEF a, c
    <3>3. /\ n \in Nat
          /\ c <= a[f] => n >= Len(a) - f + 1
          /\ c > a[f] => n <= Len(a) - f
      BY <2>1, <3>2, CountFrom
    <3> HIDE DEF n
    <3>4. (c <= a[f] => n >= rate) /\ (c > a[f] => n < rate)
      BY <2>1, <3>3
    <3> QED BY <3>1, <3>4 DEF c
  <2> HIDE DEF a, m, wait
  <2>4. wait \in Int /\ now + wait - Window = m
    BY <2>1, <2>2
  <2>5. Told(wait) \in Int /\ Slack \in Nat /\ wait <= Told(wait) + Slack
    BY <2>4, Rounding
  <2> DEFINE t1 == now + wait
             t2 == now + wait + 1
             t3 == now + Told(wait) + Slack + 1
  <2>6. /\ t1 \in Int /\ t1 - Window <= m
        /\ t2 \in Int /\ t2 - Window > m
        /\ t3 \in Int /\ t3 - Window > m
    <3> DEFINE o == Told(wait)
    <3>1. /\ now \in Nat /\ Window \in Nat /\ m \in Nat /\ wait \in Int /\ now + wait - Window = m
          /\ o \in Int /\ Slack \in Nat /\ wait <= o + Slack
      BY <2>1, <2>4, <2>5
    <3>2. t3 = now + o + Slack + 1
      OBVIOUS
    <3> HIDE DEF o, t3
    <3>3. t3 \in Int /\ t3 - Window > m
      BY <3>1, <3>2
    <3> QED BY <3>1, <3>3
  <2> HIDE DEF t1, t2, t3
  <2>7. /\ Cardinality(Counted(k, t1)) >= rate
        /\ Cardinality(Counted(k, t2)) < rate
        /\ Cardinality(Counted(k, t3)) < rate
    BY <2>3, <2>6
  <2> QED BY <2>7 DEF t1, t2, t3, wait
<1>2. IInv /\ [Next]_vars => [\A r \in Reqs : Limit(r) => Honest(r)]_vars
  BY <1>1
<1> QED BY <1>2, InitIInv, StepIInv, PTL DEF Spec, RetryHonest

-----------------------------------------------------------------------------
\* The token bucket: amounts

\* Tokens of a full bucket, cost of n requests and yield of t ticks, in the unit of
\* TokenBucket.
Full == Burst * Second
Cost(n) == n * Second
Yield(t) == t * Rate

LEMMA Amounts ==
    /\ Full \in Nat
    /\ \A n \in Int : Cost(n) \in Int /\ Cost(n + 1) = Cost(n) + Second
    /\ \A t \in Int : Yield(t) \in Int
    /\ \A t \in Nat : Yield(t) \in Nat
    /\ \A x, y, z \in Int : Yield(x - y) + Yield(y - z) = Yield(x - z)
    /\ Cost(1) = Second /\ Cost(0) = 0 /\ Yield(0) = 0
<1> USE TokenBucketAssumption, RetryHeaderAssumption DEF Full, Cost, Yield
<1>1. Full \in Nat
  OBVIOUS
<1>2. \A n \in Int : Cost(n) \in Int /\ Cost(n + 1) = Cost(n) + Second
  OBVIOUS
<1>3. (\A t \in Int : Yield(t) \in Int) /\ (\A t \in Nat : Yield(t) \in Nat)
  OBVIOUS
<1>4. \A x, y, z \in Int : Yield(x - y) + Yield(y - z) = Yield(x - z)
  OBVIOUS
<1>5. Cost(1) = Second /\ Cost(0) = 0 /\ Yield(0) = 0
  OBVIOUS
<1> QED BY <1>1, <1>2, <1>3, <1>4, <1>5

LEMMA YieldSum ==
    ASSUME NEW x \in Int, NEW y \in Int, NEW z \in Int, x + y = z
    PROVE  Yield(x) \in Int /\ Yield(y) \in Int /\ Yield(x) + Yield(y) = Yield(z)
<1>1. x * Rate + y * Rate = (x + y) * Rate /\ x * Rate \in Int /\ y * Rate \in Int
  BY TokenBucketAssumption
<1> QED BY <1>1 DEF Yield

\* The refill adds the yield since the last one, up to the burst.
LEMMA RefillEffect ==
    ASSUME now \in Nat, NEW b \in BucketType, b.lastFill <= now
    PROVE  LET c == Refill(b) IN
           /\ c \in BucketType
           /\ c.lastFill = now
           /\ c.tokens <= Full
           /\ c.tokens <= b.tokens + Yield(now - b.lastFill)
           /\ c.tokens \in {Full, b.tokens + Yield(now - b.lastFill)}
<1> DEFINE y == Yield(now - b.lastFill)
           c == [tokens |-> IF Full < b.tokens + y THEN Full ELSE b.tokens + y, lastFill |-> now]
<1>1. b.tokens \in 0..Full /\ b.lastFill \in Nat
  BY DEF BucketType, Full
<1>2. y \in Nat /\ Full \in Nat
  <2>1. now - b.lastFill \in Nat
    BY <1>1
  <2> QED BY <2>1, Amounts
<1>3. Refill(b) = c
  BY DEF Refill, Yield, Full
<1> HIDE DEF y
<1>4. c.lastFill = now /\ c.tokens = IF Full < b.tokens + y THEN Full ELSE b.tokens + y
  OBVIOUS
<1>5. c.tokens \in 0..Full /\ c.tokens <= b.tokens + y /\ c.tokens \in {Full, b.tokens + y}
  <2> HIDE DEF c
  <2> QED BY <1>1, <1>2, <1>4
<1>6. c \in BucketType
  BY <1>5 DEF BucketType, Full
<1>7. c.tokens <= Full
  <2> HIDE DEF c
  <2> QED BY <1>2, <1>5
<1> QED BY <1>3, <1>4, <1>5, <1>6, <1>7 DEF y

-----------------------------------------------------------------------------
\* A bucket and the admissions of its key

\* From the i-th admission to the last refill, the requests admitted and the tokens
\* left are no more than a full bucket and the yield.
Bounded(s, b) ==
    \A i \in 1..Len(s) :
        /\ s[i] <= b.lastFill
        /\ Cost(Len(s) - i + 1) + b.tokens <= Full + Yield(b.lastFill - s[i])

\* They are exactly that from some admission on, when the bucket was last full.
Reached(s, b) ==
    \/ b.tokens = Full
    \/ \E i \in 1..Len(s) : Cost(Len(s) - i + 1) + b.tokens = Full + Yield(b.lastFill - s[i])

Level(s, b) == Bounded(s, b) /\ Reached(s, b)

\* A refill keeps the account.
LEMMA RefillLevel ==
    ASSUME now \in Nat, NEW b \in BucketType, b.lastFill <= now,
           NEW s \in Seq(Nat), Level(s, b)
    PROVE  Level(s, Refill(b))
<1> DEFINE c == Refill(b)
<1>1. /\ c \in BucketType
      /\ c.lastFill = now
      /\ c.tokens <= Full
      /\ c.tokens <= b.tokens + Yield(now - b.lastFill)
      /\ c.tokens \in {Full, b.tokens + Yield(now - b.lastFill)}
  BY RefillEffect
<1>2. b.tokens \in Int /\ b.lastFill \in Int /\ c.tokens \in Int /\ Full \in Int
  BY <1>1, Amounts DEF BucketType, Full
<1> HIDE DEF c
<1>3. Yield(now - b.lastFill) \in Nat
  <2>1. now - b.lastFill \in Nat
    BY <1>2
  <2> QED BY <2>1, Amounts
<1>4. ASSUME NEW i \in 1..Len(s)
      PROVE  /\ s[i] \in Nat
             /\ Yield(now - b.lastFill) + Yield(b.lastFill - s[i]) = Yield(now - s[i])
             /\ Yield(b.lastFill - s[i]) \in Int /\ Yield(now - s[i]) \in Int
             /\ Cost(Len(s) - i + 1) \in Int
  <2>1. s[i] \in Nat /\ Len(s) - i + 1 \in Int
    OBVIOUS
  <2>2. b.lastFill - s[i] \in Int /\ now - s[i] \in Int
    BY <1>2, <2>1
  <2>3. Yield(now - b.lastFill) + Yield(b.lastFill - s[i]) = Yield(now - s[i])
    <3>1. now \in Int /\ b.lastFill \in Int /\ s[i] \in Int
      BY <1>2, <2>1
    <3> QED BY <3>1, Amounts
  <2>4. Yield(b.lastFill - s[i]) \in Int /\ Yield(now - s[i]) \in Int
    BY <2>2, Amounts
  <2>5. Cost(Len(s) - i + 1) \in Int
    BY <2>1, Amounts
  <2> QED BY <2>1, <2>3, <2>4, <2>5
<1>5. Bounded(s, c)
  <2> SUFFICES ASSUME NEW i \in 1..Len(s)
               PROVE  /\ s[i] <= now
                      /\ Cost(Len(s) - i + 1) + c.tokens <= Full + Yield(now - s[i])
    BY <1>1 DEF Bounded
  <2>1. s[i] <= b.lastFill /\ Cost(Len(s) - i + 1) + b.tokens <= Full + Yield(b.lastFill - s[i])
    BY DEF Level, Bounded
  <2> DEFINE y == Yield(now - b.lastFill)
             u == Yield(b.lastFill - s[i])
             v == Yield(now - s[i])
             p == Cost(Len(s) - i + 1)
  <2>2. y \in Nat /\ u \in Int /\ v \in Int /\ p \in Int /\ y + u = v /\ s[i] \in Nat
    BY <1>3, <1>4
  <2>3. c.tokens <= b.tokens + y /\ p + b.tokens <= Full + u
    BY <1>1, <2>1
  <2> HIDE DEF y, u, v, p
  <2>4. p + c.tokens <= Full + v
    BY <1>2, <2>2, <2>3
  <2>5. s[i] <= now
    BY <1>2, <2>1, <2>2
  <2> QED BY <2>4, <2>5 DEF v, p
<1>6. Reached(s, c)
  <2>1. CASE c.tokens = Full
    BY <2>1 DEF Reached
  <2>2. CASE c.tokens # Full
    <3>1. c.tokens = b.tokens + Yield(now - b.lastFill) /\ b.tokens # Full
      BY <1>1, <1>2, <1>3, <2>2
    <3>2. PICK i \in 1..Len(s) : Cost(Len(s) - i + 1) + b.tokens = Full + Yield(b.lastFill - s[i])
      BY <3>1 DEF Level, Reached
    <3>3. Cost(Len(s) - i + 1) + c.tokens = Full + Yield(now - s[i])
      <4> DEFINE y == Yield(now - b.lastFill)
                 u == Yield(b.lastFill - s[i])
                 v == Yield(now - s[i])
                 p == Cost(Len(s) - i + 1)
      <4>1. y \in Nat /\ u \in Int /\ v \in Int /\ p \in Int /\ y + u = v
        BY <1>3, <1>4
      <4>2. c.tokens = b.tokens + y /\ p + b.tokens = Full + u
        BY <3>1, <3>2
      <4> HIDE DEF y, u, v, p
      <4>3. p + (b.tokens + y) = Full + v
        <5> DEFINE x == b.tokens
        <5>1. x \in Int /\ p + x = Full + u
          BY <1>2, <4>2
        <5> HIDE DEF x
        <5>2. p + (x + y) = Full + v
          BY <1>2, <4>1, <5>1
        <5> QED BY <5>2 DEF x
      <4> QED BY <4>2, <4>3 DEF v, p
    <3> QED BY <1>1, <3>3 DEF Reached
  <2> QED BY <2>1, <2>2
<1> QED BY <1>5, <1>6 DEF Level, c

\* An admission at the time of the refill keeps it.
LEMMA SpendLevel ==
    ASSUME NEW c \in BucketType, ~(c.tokens < Second),
           NEW s \in Seq(Nat), Level(s, c)
    PROVE  LET d == [c EXCEPT !.tokens = @ - Second] IN
           /\ d \in BucketType /\ d.lastFill = c.lastFill
           /\ Level(Append(s, c.lastFill), d)
<1> DEFINE d == [c EXCEPT !.tokens = @ - Second]
           t == c.lastFill
           n == Append(s, t)
<1>1. c.tokens \in 0..Full /\ t \in Nat /\ Full \in Nat /\ Second \in Nat
  BY Amounts, RetryHeaderAssumption DEF BucketType, Full
<1>2. d.lastFill = t /\ d.tokens = c.tokens - Second
  BY DEF BucketType
<1>3. d \in BucketType
  <2>1. c.tokens - Second \in 0..(Burst * Second)
    BY <1>1 DEF Full
  <2> QED BY <1>1, <2>1 DEF BucketType
<1>4. /\ n \in Seq(Nat) /\ Len(n) = Len(s) + 1 /\ Len(s) \in Nat
      /\ \A i \in 1..Len(s) : n[i] = s[i]
      /\ n[Len(s) + 1] = t
  BY <1>1
<1>5. Full + Yield(t - t) = Full /\ Cost(Len(n) - (Len(s) + 1) + 1) = Second
  <2>1. t - t = 0 /\ Len(n) - (Len(s) + 1) + 1 = 1
    BY <1>1, <1>4
  <2>2. Yield(t - t) = 0 /\ Cost(Len(n) - (Len(s) + 1) + 1) = Second
    BY <2>1, Amounts
  <2> QED BY <1>1, <2>2
<1> HIDE DEF d, n
<1>6. ASSUME NEW i \in 1..Len(s)
      PROVE  /\ s[i] \in Nat
             /\ Cost(Len(n) - i + 1) = Cost(Len(s) - i + 1) + Second
             /\ Cost(Len(s) - i + 1) \in Int /\ Yield(t - s[i]) \in Int
  <2>1. s[i] \in Nat /\ Len(s) - i + 1 \in Int /\ Len(n) - i + 1 = (Len(s) - i + 1) + 1
    BY <1>4
  <2>2. t - s[i] \in Int
    BY <1>1, <2>1
  <2> QED BY <2>1, <2>2, Amounts
<1>7. Bounded(n, d)
  <2> SUFFICES ASSUME NEW i \in 1..Len(n)
               PROVE  n[i] <= t /\ Cost(Len(n) - i + 1) + d.tokens <= Full + Yield(t - n[i])
    BY <1>2 DEF Bounded
  <2>1. CASE i = Len(s) + 1
    BY <1>1, <1>2, <1>4, <1>5, <2>1
  <2>2. CASE i \in 1..Len(s)
    <3>1. n[i] = s[i]
      BY <1>4, <2>2
    <3>2. s[i] <= t /\ Cost(Len(s) - i + 1) + c.tokens <= Full + Yield(t - s[i])
      BY <2>2 DEF Level, Bounded
    <3> DEFINE u == Yield(t - s[i])
               p == Cost(Len(s) - i + 1)
    <3>3. u \in Int /\ p \in Int /\ Cost(Len(n) - i + 1) = p + Second /\ p + c.tokens <= Full + u
      BY <1>6, <2>2, <3>2
    <3> HIDE DEF u, p, t
    <3>4. Cost(Len(n) - i + 1) + d.tokens <= Full + u
      BY <1>1, <1>2, <3>3
    <3> QED BY <3>1, <3>2, <3>4 DEF u
  <2> QED BY <1>4, <2>1, <2>2
<1>8. Reached(n, d)
  <2>1. CASE c.tokens = Full
    <3>1. Len(s) + 1 \in 1..Len(n)
      BY <1>4
    <3>2. Cost(Len(n) - (Len(s) + 1) + 1) + d.tokens = Full + Yield(t - n[Len(s) + 1])
      BY <1>1, <1>2, <1>4, <1>5, <2>1
    <3> QED BY <1>2, <3>1, <3>2 DEF Reached
  <2>2. CASE c.tokens # Full
    <3>1. PICK i \in 1..Len(s) : Cost(Len(s) - i + 1) + c.tokens = Full + Yield(t - s[i])
      BY <2>2 DEF Level, Reached
    <3>2. i \in 1..Len(n) /\ n[i] = s[i]
      BY <1>4
    <3>3. Cost(Len(n) - i + 1) + d.tokens = Full + Yield(t - n[i])
      <4> DEFINE u == Yield(t - s[i])
                 p == Cost(Len(s) - i + 1)
      <4>1. u \in Int /\ p \in Int /\ Cost(Len(n) - i + 1) = p + Second
        BY <1>6
      <4>2. p + c.tokens = Full + u
        BY <3>1
      <4> HIDE DEF u, p, t
      <4>3. Cost(Len(n) - i + 1) + d.tokens = Full + u
        BY <1>1, <1>2, <4>1, <4>2
      <4> QED BY <3>2, <4>3 DEF u
    <3> QED BY <1>2, <3>2, <3>3 DEF Reached
  <2> QED BY <2>1, <2>2
<1> QED BY <1>2, <1>3, <1>7, <1>8 DEF Level, d, n

\* While the account holds, one more admission keeps the promise.
LEMMA SpendConforms ==
    ASSUME NEW s \in Seq(Nat), Conforms(s), NEW t \in Nat,
           NEW d \in BucketType, d.lastFill = t, Level(Append(s, t), d)
    PROVE  Conforms(Append(s, t))
<1> DEFINE n == Append(s, t)
<1>1. /\ n \in Seq(Nat) /\ Len(n) = Len(s) + 1 /\ Len(s) \in Nat
      /\ \A i \in 1..Len(s) : n[i] = s[i]
      /\ n[Len(s) + 1] = t
      /\ DOMAIN s = 1..Len(s) /\ DOMAIN n = 1..(Len(s) + 1)
  OBVIOUS
<1>2. Level(n, d)
  OBVIOUS
<1> HIDE DEF n
<1>3. d.tokens \in Nat /\ Full \in Nat
  BY Amounts DEF BucketType, Full
<1> SUFFICES ASSUME NEW i \in DOMAIN n, NEW j \in DOMAIN n, i <= j
             PROVE  Cost(j - i + 1) <= Full + Yield(n[j] - n[i])
  BY DEF Conforms, Cost, Full, Yield, n
<1>4. CASE j \in 1..Len(s)
  <2>1. i \in 1..Len(s) /\ n[i] = s[i] /\ n[j] = s[j]
    BY <1>1, <1>4
  <2>2. Cost(j - i + 1) <= Full + Yield(s[j] - s[i])
    BY <1>1, <1>4, <2>1 DEF Conforms, Cost, Full, Yield
  <2> QED BY <2>1, <2>2
<1>5. CASE j = Len(s) + 1
  <2>1. Cost(Len(n) - i + 1) + d.tokens <= Full + Yield(t - n[i])
    BY <1>1, <1>2 DEF Level, Bounded
  <2>2. Len(n) - i + 1 = j - i + 1 /\ j - i + 1 \in Int /\ t - n[i] \in Int
    BY <1>1, <1>5
  <2> DEFINE y == Yield(t - n[i])
             x == Cost(j - i + 1)
  <2>3. x \in Int /\ y \in Int
    BY <2>2, Amounts
  <2>4. n[j] = t
    BY <1>1, <1>5
  <2>5. x + d.tokens <= Full + y
    BY <2>1, <2>2
  <2> HIDE DEF x, y
  <2>6. x <= Full + y
    BY <1>3, <2>3, <2>5
  <2> QED BY <2>4, <2>6 DEF x, y
<1> QED BY <1>1, <1>4, <1>5

\* While what is missing of a token has not come, one more admission would break it.
LEMMA ShortBreaks ==
    ASSUME NEW s \in Seq(Nat),
           NEW c \in BucketType, c.tokens < Second, Level(s, c),
           NEW t \in Nat, c.lastFill <= t, c.tokens = Full \/ c.tokens + Yield(t - c.lastFill) < Second
    PROVE  ~Conforms(Append(s, t))
<1> DEFINE n == Append(s, t)
           x == c.tokens
           l == c.lastFill
<1>1. x \in Nat /\ t \in Nat /\ l \in Nat /\ Full \in Nat /\ Second \in Nat
  BY Amounts, RetryHeaderAssumption DEF BucketType, Full
<1>2. /\ n \in Seq(Nat) /\ Len(s) \in Nat
      /\ \A i \in 1..Len(s) : n[i] = s[i]
      /\ n[Len(s) + 1] = t
      /\ DOMAIN n = 1..(Len(s) + 1)
  BY <1>1
<1> HIDE DEF n
<1>3. SUFFICES \E i \in DOMAIN n : \E j \in DOMAIN n :
                  i <= j /\ ~(Cost(j - i + 1) <= Full + Yield(n[j] - n[i]))
  BY DEF Conforms, Cost, Full, Yield, n
<1> DEFINE j == Len(s) + 1
<1>4. j \in DOMAIN n /\ j \in Nat
  BY <1>2
<1>5. CASE x = Full
  <2>1. j - j + 1 = 1 /\ n[j] - n[j] = 0
    BY <1>1, <1>2
  <2>2. Cost(j - j + 1) = Second /\ Yield(n[j] - n[j]) = 0
    BY <2>1, Amounts
  <2>3. ~(Cost(j - j + 1) <= Full + Yield(n[j] - n[j]))
    <3> HIDE DEF j
    <3> QED BY <1>1, <1>5, <2>2
  <2> QED BY <1>4, <2>3
<1>6. CASE x # Full
  <2>1. PICK i \in 1..Len(s) : Cost(Len(s) - i + 1) + x = Full + Yield(l - s[i])
    BY <1>6 DEF Level, Reached
  <2>2. i \in DOMAIN n /\ i <= j /\ n[i] = s[i] /\ n[j] = t /\ j - i + 1 = (Len(s) - i + 1) + 1
    BY <1>2
  <2>3. /\ Len(s) - i + 1 \in Int /\ t - l \in Int /\ l - s[i] \in Int /\ t - s[i] \in Int
        /\ (t - l) + (l - s[i]) = t - s[i]
    <3>1. s[i] \in Int /\ Len(s) \in Int
      OBVIOUS
    <3> HIDE DEF l
    <3> QED BY <1>1, <3>1
  <2>4. /\ Cost(j - i + 1) = Cost(Len(s) - i + 1) + Second
        /\ Yield(t - l) + Yield(l - s[i]) = Yield(t - s[i])
        /\ Cost(Len(s) - i + 1) \in Int /\ Yield(t - l) \in Int /\ Yield(l - s[i]) \in Int
    <3>1. /\ Cost(Len(s) - i + 1) \in Int
          /\ Cost((Len(s) - i + 1) + 1) = Cost(Len(s) - i + 1) + Second
      BY <2>3, Amounts
    <3> DEFINE p == t - l
               q == l - s[i]
               z == t - s[i]
    <3>2. p \in Int /\ q \in Int /\ z \in Int /\ p + q = z
      BY <2>3
    <3> HIDE DEF p, q, z
    <3>3. Yield(p) \in Int /\ Yield(q) \in Int /\ Yield(p) + Yield(q) = Yield(z)
      BY <3>2, YieldSum
    <3> QED BY <2>2, <3>1, <3>3 DEF p, q, z
  <2>5. ~(Cost(j - i + 1) <= Full + Yield(n[j] - n[i]))
    <3> DEFINE u == Yield(l - s[i])
               y == Yield(t - l)
               p == Cost(Len(s) - i + 1)
    <3>1. u \in Int /\ y \in Int /\ p \in Int /\ Cost(j - i + 1) = p + Second /\ p + x = Full + u
      BY <2>1, <2>4
    <3>2. Yield(n[j] - n[i]) = y + u /\ x + y < Second
      BY <1>6, <2>2, <2>4
    <3> HIDE DEF j, u, y, p, x
    <3> QED BY <1>1, <3>1, <3>2
  <2> QED BY <1>4, <2>2, <2>5
<1> QED BY <1>5, <1>6

\* Once it has come, one more admission keeps the promise, if a full bucket has a
\* token at all.
LEMMA LaterConforms ==
    ASSUME NEW s \in Seq(Nat), Conforms(s),
           NEW c \in BucketType, Level(s, c),
           NEW t \in Nat, c.lastFill <= t, c.tokens + Yield(t - c.lastFill) >= Second, Full >= Second
    PROVE  Conforms(Append(s, t))
<1> DEFINE n == Append(s, t)
           x == c.tokens
           l == c.lastFill
<1>1. x \in Nat /\ l \in Nat /\ Full \in Nat /\ Second \in Nat
  BY Amounts, RetryHeaderAssumption DEF BucketType, Full
<1>2. /\ n \in Seq(Nat) /\ Len(s) \in Nat
      /\ \A i \in 1..Len(s) : n[i] = s[i]
      /\ n[Len(s) + 1] = t
      /\ DOMAIN s = 1..Len(s) /\ DOMAIN n = 1..(Len(s) + 1)
  OBVIOUS
<1> HIDE DEF n
<1> SUFFICES ASSUME NEW i \in DOMAIN n, NEW j \in DOMAIN n, i <= j
             PROVE  Cost(j - i + 1) <= Full + Yield(n[j] - n[i])
  BY DEF Conforms, Cost, Full, Yield, n
<1>3. CASE j \in 1..Len(s)
  <2>1. i \in 1..Len(s) /\ n[i] = s[i] /\ n[j] = s[j]
    BY <1>2, <1>3
  <2>2. Cost(j - i + 1) <= Full + Yield(s[j] - s[i])
    BY <1>2, <1>3, <2>1 DEF Conforms, Cost, Full, Yield
  <2> QED BY <2>1, <2>2
<1>4. CASE i = Len(s) + 1
  <2>1. j - i + 1 = 1 /\ n[j] - n[i] = 0
    BY <1>2, <1>4
  <2>2. Cost(j - i + 1) = Second /\ Yield(n[j] - n[i]) = 0
    BY <2>1, Amounts
  <2> QED BY <1>1, <2>2
<1>5. CASE i \in 1..Len(s) /\ j = Len(s) + 1
  <2>1. n[i] = s[i] /\ n[j] = t /\ j - i + 1 = (Len(s) - i + 1) + 1
    BY <1>2, <1>5
  <2>2. /\ Len(s) - i + 1 \in Int /\ t - l \in Int /\ l - s[i] \in Int /\ t - s[i] \in Int
        /\ (t - l) + (l - s[i]) = t - s[i]
    <3>1. s[i] \in Nat /\ Len(s) \in Nat /\ i \in Int
      BY <1>5
    <3>2. Len(s) - i + 1 \in Int
      BY <3>1
    <3> DEFINE o == s[i]
    <3>3. o \in Nat /\ l \in Nat /\ t \in Nat
      BY <1>1, <3>1
    <3> HIDE DEF l, o
    <3>4. t - l \in Int /\ l - o \in Int /\ t - o \in Int /\ (t - l) + (l - o) = t - o
      BY <3>3
    <3> QED BY <3>2, <3>4 DEF o
  <2>3. /\ Cost(j - i + 1) = Cost(Len(s) - i + 1) + Second
        /\ Yield(t - l) + Yield(l - s[i]) = Yield(t - s[i])
        /\ Cost(Len(s) - i + 1) \in Int /\ Yield(t - l) \in Int /\ Yield(l - s[i]) \in Int
    <3>1. /\ Cost(Len(s) - i + 1) \in Int
          /\ Cost((Len(s) - i + 1) + 1) = Cost(Len(s) - i + 1) + Second
      BY <2>2, Amounts
    <3> DEFINE p == t - l
               q == l - s[i]
               z == t - s[i]
    <3>2. p \in Int /\ q \in Int /\ z \in Int /\ p + q = z
      BY <2>2
    <3> HIDE DEF p, q, z
    <3>3. Yield(p) \in Int /\ Yield(q) \in Int /\ Yield(p) + Yield(q) = Yield(z)
      BY <3>2, YieldSum
    <3> QED BY <2>1, <3>1, <3>3 DEF p, q, z
  <2>4. Cost(Len(s) - i + 1) + x <= Full + Yield(l - s[i])
    BY <1>5 DEF Level, Bounded
  <2> DEFINE u == Yield(l - s[i])
             y == Yield(t - l)
             p == Cost(Len(s) - i + 1)
  <2>5. /\ u \in Int /\ y \in Int /\ p \in Int /\ Cost(j - i + 1) = p + Second /\ p + x <= Full + u
        /\ Yield(n[j] - n[i]) = y + u /\ x + y >= Second
    BY <2>1, <2>3, <2>4
  <2> HIDE DEF u, y, p, x
  <2> QED BY <1>1, <2>5
<1> QED BY <1>2, <1>3, <1>4, <1>5

-----------------------------------------------------------------------------
\* The inductive invariant of the token bucket

\* A key without a bucket has no admissions; a bucket was last filled in the past
\* and accounts for its key's admissions.
Accounts ==
    \A k \in Keys :
        IF buckets[k] = 0 THEN admitted[k] = <<>>
        ELSE /\ heap[buckets[k]].lastFill <= now
             /\ Level(admitted[k], heap[buckets[k]])

TokenInv ==
    /\ Table(BucketType)
    /\ now \in Nat
    /\ admitted \in [Keys -> Seq(Nat)]
    /\ Accounts
    /\ TokenRateBound

\* What a request finds in its bucket after the refill.
LEMMA FilledLevel ==
    ASSUME TokenInv, NEW r \in Reqs, req[r].pc = "allow"
    PROVE  /\ req[r].key \in Keys
           /\ Filled(r) \in BucketType
           /\ Filled(r).lastFill = now
           /\ Level(admitted[req[r].key], Filled(r))
<1> DEFINE k == req[r].key
           b == heap[req[r].bucket]
<1>1. k \in Keys /\ req[r].bucket # 0 /\ req[r].bucket = buckets[k]
  BY DEF TokenInv, Table, HasKey, OneBucketPerKey
<1>2. b \in BucketType
  <2>1. req[r].bucket \in 1..Len(heap)
    BY <1>1 DEF TokenInv, Table
  <2> QED BY <2>1 DEF TokenInv, Table
<1>3. b.lastFill <= now /\ Level(admitted[k], b) /\ now \in Nat /\ admitted[k] \in Seq(Nat)
  BY <1>1 DEF TokenInv, Accounts
<1>4. Filled(r) = Refill(b)
  BY DEF Filled
<1> HIDE DEF b
<1>5. Refill(b) \in BucketType /\ Refill(b).lastFill = now
  BY <1>2, <1>3, RefillEffect
<1>6. Level(admitted[k], Refill(b))
  BY <1>2, <1>3, RefillLevel
<1> QED BY <1>1, <1>4, <1>5, <1>6

\* Allow ends, with an account for what has been admitted to the key by now.
LEMMA LeaveAccounts ==
    ASSUME TokenInv, NEW r \in Reqs, req[r].pc = "allow",
           NEW b \in BucketType, Leave(r, b), b.lastFill = now,
           now' = now, admitted' \in [Keys -> Seq(Nat)],
           \A l \in Keys \ {req[r].key} : admitted'[l] = admitted[l],
           Level(admitted'[req[r].key], b)
    PROVE  Table(BucketType)' /\ Accounts'
<1> DEFINE k == req[r].key
<1>1. Leave(r, b) /\ Table(BucketType) /\ now \in Nat
  BY DEF Leave, Idle, NoKey, TokenInv
<1>2. /\ Table(BucketType)'
      /\ buckets' = buckets
      /\ k \in Keys /\ buckets[k] # 0
      /\ heap'[buckets[k]] = b
      /\ \A l \in Keys \ {k} : buckets[l] # 0 => heap'[buckets[l]] = heap[buckets[l]]
  BY <1>1, LeaveTable
<1>3. Accounts'
  <2> SUFFICES ASSUME NEW l \in Keys
               PROVE  IF buckets'[l] = 0 THEN admitted'[l] = <<>>
                      ELSE /\ heap'[buckets'[l]].lastFill <= now'
                           /\ Level(admitted'[l], heap'[buckets'[l]])
    BY DEF Accounts
  <2>1. CASE l = k
    BY <1>1, <1>2, <2>1
  <2>2. CASE l # k
    BY <1>2, <2>2 DEF TokenInv, Accounts
  <2> QED BY <2>1, <2>2
<1> QED BY <1>2, <1>3

LEMMA InitTokenInv == TokenInit => TokenInv
<1> SUFFICES ASSUME TokenInit PROVE TokenInv
  OBVIOUS
<1>1. /\ buckets = [k \in Keys |-> 0] /\ heap = <<>> /\ req = [r \in Reqs |-> Idle]
      /\ now = 0 /\ admitted = [k \in Keys |-> <<>>]
  BY DEF TokenInit, TableInit, Idle, NoKey
<1>2. Idle \in HandlerType /\ Idle.pc = "idle"
  BY DEF Idle, HandlerType
<1>3. heap \in Seq(BucketType) /\ Len(heap) = 0
  BY <1>1
<1>4. buckets \in [Keys -> 0..Len(heap)] /\ req \in [Reqs -> HandlerType]
  BY <1>1, <1>2, <1>3
<1>5. OneBucketPerKey /\ HasKey
  BY <1>1, <1>2 DEF OneBucketPerKey, HasKey
<1>6. Accounts /\ TokenRateBound /\ admitted \in [Keys -> Seq(Nat)] /\ now \in Nat
  BY <1>1 DEF Accounts, TokenRateBound, Conforms
<1> QED BY <1>3, <1>4, <1>5, <1>6 DEF TokenInv, Table

LEMMA StepTokenInv == TokenInv /\ [TokenNext]_tokenVars => TokenInv'
<1> SUFFICES ASSUME TokenInv, [TokenNext]_tokenVars PROVE TokenInv'
  OBVIOUS
<1> DEFINE T == BucketType
<1>1. CASE UNCHANGED tokenVars
  BY <1>1 DEF tokenVars, TokenInv, Table, OneBucketPerKey, HasKey, Accounts,
              TokenRateBound
<1>2. CASE Tick
  <2>1. /\ now' = now + 1 /\ now \in Nat
        /\ UNCHANGED <<buckets, heap, req, admitted>>
    BY <1>2 DEF Tick, TokenInv
  <2>2. Table(BucketType)'
    BY <2>1 DEF TokenInv, Table, OneBucketPerKey, HasKey
  <2>3. Accounts'
    <3> SUFFICES ASSUME NEW k \in Keys, buckets[k] # 0
                 PROVE  /\ heap[buckets[k]].lastFill <= now'
                        /\ Level(admitted[k], heap[buckets[k]])
      BY <2>1 DEF TokenInv, Accounts
    <3>1. heap[buckets[k]].lastFill <= now /\ Level(admitted[k], heap[buckets[k]])
      BY DEF TokenInv, Accounts
    <3>2. buckets[k] \in 1..Len(heap)
      BY DEF TokenInv, Table
    <3>3. heap[buckets[k]].lastFill \in Nat
      <4>1. heap[buckets[k]] \in BucketType
        BY <3>2 DEF TokenInv, Table
      <4> QED BY <4>1 DEF BucketType
    <3> QED BY <2>1, <3>1, <3>3
  <2> QED BY <2>1, <2>2, <2>3 DEF TokenInv, TokenRateBound
<1>3. ASSUME NEW r \in Reqs, NEW k \in Keys, BeginTokenAllow(r, k) PROVE TokenInv'
  <2>1. Lookup(r, k) /\ Table(T) /\ UNCHANGED <<buckets, heap, now, admitted>>
    BY <1>3 DEF BeginTokenAllow, Lookup, TokenInv
  <2>2. Table(T)'
    BY <2>1, LookupTable
  <2> QED BY <2>1, <2>2 DEF TokenInv, Accounts, TokenRateBound
<1>4. ASSUME NEW r \in Reqs, CreateTokenBucket(r) PROVE TokenInv'
  <2> DEFINE f == [tokens |-> Burst * Second, lastFill |-> now]
  <2>1. f \in T /\ f.lastFill = now /\ f.tokens = Full /\ now \in Nat
    <3>1. Burst * Second \in 0..(Burst * Second)
      BY Amounts DEF Full
    <3> QED BY <3>1 DEF TokenInv, BucketType, Full
  <2>2. Create(r, f) /\ Table(T) /\ UNCHANGED <<now, admitted>>
    BY <1>4 DEF CreateTokenBucket, Create, TokenInv
  <2> HIDE DEF f
  <2>3. /\ Table(T)'
        /\ \A k \in Keys : buckets[k] # 0 =>
              buckets'[k] = buckets[k] /\ heap'[buckets'[k]] = heap[buckets[k]]
        /\ \A k \in Keys : buckets[k] = 0 =>
              buckets'[k] = 0 \/ heap'[buckets'[k]] = f
    BY <2>1, <2>2, CreateTable
  <2>4. Level(<<>>, f)
    BY <2>1 DEF Level, Bounded, Reached
  <2>5. Accounts'
    <3> SUFFICES ASSUME NEW k \in Keys
                 PROVE  IF buckets'[k] = 0 THEN admitted[k] = <<>>
                        ELSE /\ heap'[buckets'[k]].lastFill <= now
                             /\ Level(admitted[k], heap'[buckets'[k]])
      BY <2>2 DEF Accounts
    <3>1. CASE buckets[k] # 0
      BY <2>3, <3>1 DEF TokenInv, Accounts
    <3>2. CASE buckets[k] = 0
      <4>1. admitted[k] = <<>>
        BY <3>2 DEF TokenInv, Accounts
      <4>2. f.lastFill <= now
        BY <2>1
      <4> QED BY <2>3, <2>4, <3>2, <4>1, <4>2
    <3> QED BY <3>1, <3>2
  <2> QED BY <2>2, <2>3, <2>5 DEF TokenInv, TokenRateBound
<1>5. ASSUME NEW r \in Reqs, TakeToken(r) PROVE TokenInv'
  <2> DEFINE k == req[r].key
             c == Filled(r)
             d == [c EXCEPT !.tokens = @ - Second]
             s == admitted[k]
  <2>1. /\ req[r].pc = "allow" /\ ~(c.tokens < Second) /\ Leave(r, d)
        /\ admitted' = [admitted EXCEPT ![k] = Append(s, now)] /\ now' = now
    BY <1>5 DEF TakeToken
  <2>2. k \in Keys /\ c \in T /\ c.lastFill = now /\ Level(s, c)
    BY <2>1, FilledLevel
  <2>3. s \in Seq(Nat) /\ now \in Nat /\ admitted \in [Keys -> Seq(Nat)]
    BY <2>2 DEF TokenInv
  <2> HIDE DEF c
  <2>4. d \in T /\ d.lastFill = now /\ Level(Append(s, now), d)
    BY <2>1, <2>2, <2>3, SpendLevel
  <2> HIDE DEF d, s
  <2>5. /\ admitted' \in [Keys -> Seq(Nat)]
        /\ admitted'[k] = Append(s, now)
        /\ \A l \in Keys \ {k} : admitted'[l] = admitted[l]
    BY <2>1, <2>2, <2>3
  <2>6. Table(T)' /\ Accounts'
    BY <2>1, <2>4, <2>5, LeaveAccounts
  <2>7. Conforms(s)
    BY <2>2 DEF s, TokenInv, TokenRateBound
  <2>8. Conforms(Append(s, now))
    BY <2>3, <2>4, <2>7, SpendConforms
  <2>9. \A l \in Keys : Conforms(admitted'[l])
    BY <2>5, <2>8 DEF TokenInv, TokenRateBound
  <2>10. TokenRateBound'
    BY <2>9 DEF TokenRateBound, Conforms
  <2> QED BY <2>1, <2>3, <2>5, <2>6, <2>10 DEF TokenInv
<1>6. ASSUME NEW r \in Reqs, LackToken(r) PROVE TokenInv'
  <2> DEFINE c == Filled(r)
  <2>1. /\ req[r].pc = "allow" /\ Leave(r, c)
        /\ UNCHANGED <<now, admitted>>
    BY <1>6 DEF LackToken
  <2>2. req[r].key \in Keys /\ c \in T /\ c.lastFill = now /\ Level(admitted[req[r].key], c)
    BY <2>1, FilledLevel
  <2> HIDE DEF c
  <2>3. admitted' \in [Keys -> Seq(Nat)]
    BY <2>1 DEF TokenInv
  <2>4. Table(T)' /\ Accounts'
    BY <2>1, <2>2, <2>3, LeaveAccounts
  <2> QED BY <2>1, <2>3, <2>4 DEF TokenInv, TokenRateBound
<1> QED BY <1>1, <1>2, <1>3, <1>4, <1>5, <1>6 DEF TokenNext, TokenAllow

\* The table of the token bucket is sound too: getOrCreate gives all requests of a
\* key one bucket, whose tokens stay between none and the burst.
THEOREM TokenTableTheorem == TokenSpec => [](TokenTypeOK /\ OneBucketPerKey)
<1>1. TokenInv => TokenTypeOK /\ OneBucketPerKey
  BY DEF TokenInv, Table, TokenTypeOK
<1> QED BY <1>1, InitTokenInv, StepTokenInv, PTL DEF TokenSpec

\* localTokenBucket.Allow never admits more than the burst and what the rate yields,
\* between any two admissions of a key.
THEOREM TokenRateTheorem == TokenSpec => []TokenRateBound
<1>1. TokenInv => TokenRateBound
  BY DEF TokenInv
<1> QED BY <1>1, InitTokenInv, StepTokenInv, PTL DEF TokenSpec

\* localTokenBucket.Allow rejects only what the burst and the rate forbid: refills,
\* those of rejected requests included, lose nothing.
THEOREM TokenRejectionsTheorem == TokenSpec => TokenRejectionsJustified
<1>1. ASSUME TokenInv, NEW r \in Reqs, LackToken(r)
      PROVE  ~Conforms(Append(admitted[req[r].key], now))
  <2> DEFINE c == Filled(r)
             s == admitted[req[r].key]
  <2>1. req[r].pc = "allow" /\ c.tokens < Second
    BY <1>1 DEF LackToken
  <2>2. req[r].key \in Keys /\ c \in BucketType /\ c.lastFill = now /\ Level(s, c)
    BY <1>1, <2>1, FilledLevel
  <2>3. s \in Seq(Nat)
    BY <1>1, <2>2 DEF TokenInv
  <2> HIDE DEF c, s
  <2>4. /\ c.lastFill \in Nat /\ now - c.lastFill = 0
        /\ c.tokens + Yield(now - c.lastFill) < Second
    <3>1. c.tokens \in Nat /\ c.lastFill \in Nat
      BY <2>2 DEF BucketType
    <3>2. now - c.lastFill = 0 /\ Yield(0) = 0
      BY <2>2, <3>1, Amounts
    <3> QED BY <2>1, <3>1, <3>2
  <2>5. ~Conforms(Append(s, now))
    BY <2>1, <2>2, <2>3, <2>4, ShortBreaks
  <2> QED BY <2>5 DEF s
<1>2. TokenInv /\ [TokenNext]_tokenVars =>
        [\A r \in Reqs : LackToken(r) =>
            ~Conforms(Append(admitted[req[r].key], now))]_tokenVars
  BY <1>1
<1> QED BY <1>2, InitTokenInv, StepTokenInv, PTL DEF TokenSpec, TokenRejectionsJustified

\* The wait that localTokenBucket.Allow returns is the time to the next token, and
\* what the client is told falls short of it by half a second at most.
THEOREM TokenRetryTheorem == TokenSpec => TokenRetryHonest
<1> DEFINE Honest(r) ==
             \A wait \in Waits(r) :
                LET conforms(t) == Conforms(Append(admitted[req[r].key], t))
                IN  /\ \A d \in 0..(wait - 1) : ~conforms(now + d)
                    /\ conforms(now + wait + 1)
                    /\ conforms(now + Told(wait) + Slack + 1)
<1>1. ASSUME TokenInv, NEW r \in Reqs, LackToken(r), Rate > 0, Burst > 0 PROVE Honest(r)
  <2> DEFINE c == Filled(r)
             s == admitted[req[r].key]
             lack == Second - c.tokens
             w == lack \div Rate
  <2>1. req[r].pc = "allow" /\ c.tokens < Second
    BY <1>1 DEF LackToken
  <2>2. req[r].key \in Keys /\ c \in BucketType /\ c.lastFill = now /\ Level(s, c)
    BY <1>1, <2>1, FilledLevel
  <2>3. s \in Seq(Nat) /\ Conforms(s) /\ now \in Nat
    BY <1>1, <2>2 DEF TokenInv, TokenRateBound
  <2>4. Waits(r) = {w}
    BY <1>1 DEF Waits
  <2> HIDE DEF c, s
  <2>5. c.tokens \in Nat /\ Second \in Nat /\ Rate \in Nat /\ Burst \in Nat /\ lack \in Nat
    BY <2>1, <2>2, TokenBucketAssumption, RetryHeaderAssumption DEF BucketType
  <2>6. Full >= Second
    <3>1. Full = (Burst - 1) * Second + Second /\ (Burst - 1) * Second \in Nat
      BY <1>1, <2>5 DEF Full
    <3> QED BY <2>5, <3>1
  <2> HIDE DEF lack
  <2>7. w \in Nat /\ Yield(w) <= lack /\ lack < Yield(w + 1)
    <3> DEFINE m == lack % Rate
               x == w * Rate
    <3>1. w \in Nat /\ m \in 0..(Rate - 1) /\ lack = x + m
      BY <1>1, <2>5
    <3> HIDE DEF w, m
    <3>2. Yield(w) = x /\ Yield(w + 1) = x + Rate /\ x \in Nat
      BY <2>5, <3>1 DEF Yield
    <3> HIDE DEF x
    <3> QED BY <2>5, <3>1, <3>2
  <2> HIDE DEF w
  <2>8. ASSUME NEW d \in 0..(w - 1) PROVE ~Conforms(Append(s, now + d))
    <3> DEFINE e == w - d - 1
    <3>1. d \in Nat /\ e \in Nat /\ d + 1 \in Int /\ e + (d + 1) = w
      BY <2>7
    <3> HIDE DEF e
    <3>2. Yield(e) + Yield(d + 1) = Yield(w) /\ Yield(d) + Yield(1) = Yield(d + 1)
      <4>1. Yield(e) + Yield(d + 1) = Yield(w)
        <5> DEFINE g == d + 1
        <5>1. e \in Int /\ g \in Int /\ w \in Int /\ e + g = w
          BY <2>7, <3>1
        <5> HIDE DEF g
        <5>2. Yield(e) + Yield(g) = Yield(w)
          BY <5>1, YieldSum
        <5> QED BY <5>2 DEF g
      <4>2. Yield(d) + Yield(1) = Yield(d + 1)
        BY <3>1, YieldSum
      <4> QED BY <4>1, <4>2
    <3>3. Yield(e) \in Nat /\ Yield(d) \in Nat /\ Yield(1) = Rate
      BY <2>5, <3>1, Amounts DEF Yield
    <3>4. Yield(w) \in Nat
      BY <2>7, Amounts
    <3>5. Yield(d) + Rate <= Yield(w)
      BY <2>5, <3>2, <3>3, <3>4
    <3>6. now + d \in Nat /\ c.lastFill <= now + d /\ (now + d) - c.lastFill = d
      BY <2>2, <2>3, <3>1
    <3>7. c.tokens + Yield((now + d) - c.lastFill) < Second
      <4>1. Yield(d) < lack
        BY <1>1, <2>5, <2>7, <3>3, <3>4, <3>5
      <4> QED BY <2>5, <3>3, <3>6, <4>1 DEF lack
    <3> QED BY <2>1, <2>2, <2>3, <3>6, <3>7, ShortBreaks
  <2>9. ASSUME NEW u \in Int, u >= w + 1 PROVE Conforms(Append(s, now + u))
    <3> DEFINE e == u - (w + 1)
    <3>1. u \in Nat /\ e \in Nat /\ w + 1 \in Nat /\ e + (w + 1) = u
      BY <2>7, <2>9
    <3> HIDE DEF e
    <3>2. Yield(e) + Yield(w + 1) = Yield(u)
      BY <3>1, YieldSum
    <3>3. Yield(e) \in Nat /\ Yield(u) \in Nat /\ Yield(w + 1) \in Nat
      BY <3>1, Amounts
    <3>4. Yield(u) >= Yield(w + 1)
      BY <3>2, <3>3
    <3>5. now + u \in Nat /\ c.lastFill <= now + u /\ (now + u) - c.lastFill = u
      BY <2>2, <2>3, <3>1
    <3>6. c.tokens + Yield((now + u) - c.lastFill) >= Second
      <4>1. Yield(u) > lack
        BY <2>5, <2>7, <3>3, <3>4
      <4> QED BY <2>5, <3>3, <3>5, <4>1 DEF lack
    <3> QED BY <2>2, <2>3, <2>6, <3>5, <3>6, LaterConforms
  <2>10. Told(w) \in Int /\ Slack \in Nat /\ w <= Told(w) + Slack
    BY <2>7, Rounding
  <2> DEFINE u == w + 1
             v == Told(w) + Slack + 1
  <2>11. u \in Int /\ v \in Int /\ u >= w + 1 /\ v >= w + 1
    BY <2>7, <2>10
  <2>12. now + u = now + w + 1 /\ now + v = now + Told(w) + Slack + 1
    BY <2>3, <2>7, <2>10
  <2> HIDE DEF u, v
  <2>13. Conforms(Append(s, now + u)) /\ Conforms(Append(s, now + v))
    BY <2>9, <2>11
  <2>14. /\ \A d \in 0..(w - 1) : ~Conforms(Append(s, now + d))
         /\ Conforms(Append(s, now + w + 1))
         /\ Conforms(Append(s, now + Told(w) + Slack + 1))
    BY <2>8, <2>12, <2>13
  <2> QED BY <2>4, <2>14 DEF s
<1>2. TokenInv /\ [TokenNext]_tokenVars =>
        [\A r \in Reqs : LackToken(r) /\ Rate > 0 /\ Burst > 0 => Honest(r)]_tokenVars
  BY <1>1
<1> QED BY <1>2, InitTokenInv, StepTokenInv, PTL DEF TokenSpec, TokenRetryHonest
=============================================================================
