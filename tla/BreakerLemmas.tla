---------------------------- MODULE BreakerLemmas ----------------------------
(***************************************************************************)
(* What the operators of Breaker do to a breaker record, for every         *)
(* configuration: the facts that CircuitBreakerProofs and RouteProofs rest *)
(* on.                                                                     *)
(***************************************************************************)
EXTENDS Breaker, SequenceTheorems, FiniteSetTheorems, WellFoundedInduction,
        TLAPS

\* A non-empty set of naturals has a least element, and Min selects it.
LEMMA MinNat ==
    ASSUME NEW S \in SUBSET Nat, S # {}
    PROVE  Min(S) \in S /\ \A y \in S : Min(S) <= y
<1>1. PICK x \in S : \A y \in S : ~(<<y, x>> \in OpToRel(<, Nat))
  BY WFMin, NatLessThanWellFounded, Zenon
<1>2. \A y \in S : x <= y
  <2> SUFFICES ASSUME NEW y \in S PROVE x <= y
    OBVIOUS
  <2>1. ~(y < x)
    BY <1>1 DEF OpToRel
  <2> QED BY <2>1
<1> QED BY <1>2 DEF Min

\* New's defaults keep the configuration's type.
LEMMA ConfigTyped == cfg \in ConfigType
BY BreakerAssumption DEF cfg, OrDefault, ConfigType

\* Evicting old observations leaves a window that is no longer.
LEMMA EvictTyped ==
    ASSUME NEW w \in Seq(Observation), NEW c \in Int
    PROVE  EvictBefore(w, c) \in Seq(Observation) /\ Len(EvictBefore(w, c)) <= Len(w)
<1> DEFINE fresh == {i \in DOMAIN w : ~(w[i].at < c)}
<1>1. CASE fresh = {}
  BY <1>1 DEF EvictBefore
<1>2. CASE fresh # {}
  <2>1. fresh \in SUBSET Nat /\ fresh \subseteq 1..Len(w)
    OBVIOUS
  <2>2. Min(fresh) \in 1..Len(w)
    BY <2>1, <1>2, MinNat
  <2>3. /\ SubSeq(w, Min(fresh), Len(w)) \in Seq(Observation)
        /\ Len(SubSeq(w, Min(fresh), Len(w))) <= Len(w)
    <3>1. \A i \in Min(fresh)..Len(w) : w[i] \in Observation
      BY <2>2
    <3> HIDE DEF fresh
    <3> QED BY <2>2, <3>1, SubSeqProperties
  <2> QED BY <2>3, <1>2 DEF EvictBefore
<1> QED BY <1>1, <1>2

\* What transitionTo does to each field.
LEMMA TransitionEffect ==
    ASSUME NEW b \in BreakerType, NEW t \in Nat,
           NEW s \in {"closed", "open", "half-open"}
    PROVE  LET n == TransitionTo(b, s, t) IN
           /\ n \in BreakerType
           /\ n.state = s
           /\ s \in {"closed", "open"} => n.window = <<>>
           /\ s = "half-open" => n.window = b.window
           /\ s = "half-open" => n.halfOpenTotal = 0 /\ n.halfOpenFailures = 0
           /\ s = "open" => n.openAt = t
           /\ s # "open" => n.openAt = b.openAt
<1>0. <<>> \in Seq(Observation)
  OBVIOUS
<1>1. CASE s = "closed"
  <2>1. TransitionTo(b, s, t) = [b EXCEPT !.state = "closed", !.window = <<>>]
    BY <1>1 DEF TransitionTo
  <2> QED BY <1>0, <1>1, <2>1 DEF BreakerType
<1>2. CASE s = "open"
  <2>1. TransitionTo(b, s, t) = [b EXCEPT !.state = "open", !.openAt = t, !.window = <<>>]
    BY <1>2 DEF TransitionTo
  <2> QED BY <1>0, <1>2, <2>1 DEF BreakerType
<1>3. CASE s = "half-open"
  BY <1>3 DEF TransitionTo, BreakerType
<1> QED BY <1>1, <1>2, <1>3

\* What record does: only the window changes, and it grows by at most one.
LEMMA RecordEffect ==
    ASSUME NEW b \in BreakerType, NEW t \in Nat, NEW ok \in BOOLEAN
    PROVE  /\ Record(b, ok, t) \in BreakerType
           /\ Record(b, ok, t).state = b.state
           /\ Record(b, ok, t).openAt = b.openAt
           /\ Len(Record(b, ok, t).window) <= Len(b.window) + 1
<1> DEFINE o == [at |-> t, success |-> ok]
           w == EvictBefore(Append(b.window, o), t - RollingWindow)
<1>1. o \in Observation
  BY DEF Observation
<1>2. b.window \in Seq(Observation)
  BY DEF BreakerType
<1>3. /\ Append(b.window, o) \in Seq(Observation)
      /\ Len(Append(b.window, o)) = Len(b.window) + 1
  BY <1>1, <1>2
<1>4. t - RollingWindow \in Int
  BY BreakerAssumption
<1>5. w \in Seq(Observation) /\ Len(w) <= Len(b.window) + 1
  BY <1>3, <1>4, EvictTyped
<1>6. Record(b, ok, t) = [b EXCEPT !.window = w]
  BY DEF Record
<1> HIDE DEF w
<1> QED BY <1>5, <1>6 DEF BreakerType

\* What Allow does when it admits.
LEMMA AllowEffect ==
    ASSUME NEW b \in BreakerType, NEW t \in Nat, Admits(b, t)
    PROVE  LET n == Allow(b, t) IN
           /\ n \in BreakerType
           /\ b.state = "closed" => n = b
           /\ b.state = "open" =>
                /\ OpenPeriodOver(b, t)
                /\ n.state = "half-open"
                /\ n.window = b.window
                /\ n.halfOpenTotal = 0 /\ n.halfOpenFailures = 0
           /\ b.state = "half-open" =>
                /\ b.halfOpenTotal < cfg.HalfOpenRequests
                /\ n.state = "half-open"
                /\ n.window = b.window
                /\ n.halfOpenTotal = b.halfOpenTotal + 1
                /\ n.halfOpenFailures = b.halfOpenFailures
<1>1. CASE b.state = "closed"
  BY <1>1 DEF Allow
<1>2. CASE b.state = "open"
  <2>1. Allow(b, t) = TransitionTo(b, "half-open", t)
    BY <1>2 DEF Allow
  <2> QED BY <1>2, <2>1, TransitionEffect DEF Admits
<1>3. CASE b.state = "half-open"
  <2>1. Allow(b, t) = [b EXCEPT !.halfOpenTotal = @ + 1]
    BY <1>3 DEF Allow
  <2> QED BY <1>3, <2>1 DEF Admits, BreakerType
<1> QED BY <1>1, <1>2, <1>3 DEF BreakerType

\* What RecordSuccess does in each state.
LEMMA SuccessEffect ==
    ASSUME NEW b \in BreakerType, NEW t \in Nat
    PROVE  LET n == RecordSuccess(b, t)
               full == b.halfOpenTotal - b.halfOpenFailures >= cfg.HalfOpenRequests
           IN
           /\ n \in BreakerType
           /\ Len(n.window) <= Len(b.window) + 1
           /\ b.state = "closed" => n.state = "closed"
           /\ b.state = "open" => n = b
           /\ b.state = "half-open" /\ full => n.state = "closed"
           /\ b.state = "half-open" /\ ~full => n = b
<1>1. CASE b.state = "closed"
  BY <1>1, RecordEffect DEF RecordSuccess
<1>2. CASE b.state = "open"
  BY <1>2 DEF RecordSuccess
<1>3. CASE b.state = "half-open"
  BY <1>3, TransitionEffect DEF RecordSuccess
<1> QED BY <1>1, <1>2, <1>3 DEF BreakerType

\* What RecordFailure does in each state.
LEMMA FailureEffect ==
    ASSUME NEW b \in BreakerType, NEW t \in Nat
    PROVE  LET n == RecordFailure(b, t) IN
           /\ n \in BreakerType
           /\ Len(n.window) <= Len(b.window) + 1
           /\ b.state = "closed" =>
                \/ n.state = "closed"
                \/ n.state = "open" /\ n.openAt = t /\ n.window = <<>>
           /\ b.state = "open" => n = b
           /\ b.state = "half-open" =>
                n.state = "open" /\ n.openAt = t /\ n.window = <<>>
<1>0. Len(<<>>) = 0 /\ Len(b.window) \in Nat
  BY DEF BreakerType
<1>1. CASE b.state = "closed"
  <2> DEFINE rec == Record(b, FALSE, t)
  <2>1. /\ rec \in BreakerType /\ rec.state = "closed"
        /\ Len(rec.window) <= Len(b.window) + 1
    BY <1>1, RecordEffect
  <2>2. RecordFailure(b, t) = MaybeTrip(rec, t)
    BY <1>1 DEF RecordFailure
  <2> HIDE DEF rec
  <2>3. \/ MaybeTrip(rec, t) = rec
        \/ MaybeTrip(rec, t) = TransitionTo(rec, "open", t)
    BY DEF MaybeTrip
  <2> DEFINE n == TransitionTo(rec, "open", t)
  <2>4. /\ n \in BreakerType
        /\ n.state = "open" /\ n.openAt = t /\ n.window = <<>>
    BY <2>1, TransitionEffect
  <2> HIDE DEF n
  <2>5. CASE MaybeTrip(rec, t) = rec
    BY <1>1, <2>1, <2>2, <2>5
  <2>6. CASE MaybeTrip(rec, t) = n
    BY <1>0, <1>1, <2>2, <2>4, <2>6
  <2> QED BY <2>3, <2>5, <2>6 DEF n
<1>2. CASE b.state = "open"
  BY <1>2 DEF RecordFailure
<1>3. CASE b.state = "half-open"
  <2> DEFINE c == [b EXCEPT !.halfOpenFailures = @ + 1]
  <2>1. c \in BreakerType
    BY DEF BreakerType
  <2>2. RecordFailure(b, t) = TransitionTo(c, "open", t)
    BY <1>3 DEF RecordFailure
  <2> HIDE DEF c
  <2> DEFINE n == TransitionTo(c, "open", t)
  <2>3. /\ n \in BreakerType
        /\ n.state = "open" /\ n.openAt = t /\ n.window = <<>>
    BY <2>1, TransitionEffect
  <2> QED BY <1>0, <1>3, <2>2, <2>3
<1> QED BY <1>1, <1>2, <1>3 DEF BreakerType

-----------------------------------------------------------------------------
\* The rolling window against the list of all observations

\* w is what is left of the observations s when leading ones are dropped, all of
\* them from before the cutoff c.
IsRest(w, s, c) ==
    /\ w \in Seq(Observation)
    /\ s \in Seq(Observation)
    /\ Len(w) <= Len(s)
    /\ \A i \in 1..Len(w) : w[i] = s[Len(s) - Len(w) + i]
    /\ \A i \in 1..(Len(s) - Len(w)) : s[i].at < c

\* The observations s were made in order, up to time t.
Chronicle(s, t) ==
    /\ \A i, j \in DOMAIN s : i <= j => s[i].at <= s[j].at
    /\ \A i \in DOMAIN s : s[i].at <= t

\* The loop of record drops leading observations only, all of them from before the
\* cutoff, and the first that it keeps is not.
LEMMA EvictRest ==
    ASSUME NEW w \in Seq(Observation), NEW c \in Int
    PROVE  LET e == EvictBefore(w, c) IN
           /\ IsRest(e, w, c)
           /\ e # <<>> => ~(e[1].at < c)
<1> DEFINE fresh == {i \in DOMAIN w : ~(w[i].at < c)}
<1>1. CASE fresh = {}
  <2>1. EvictBefore(w, c) = <<>>
    BY <1>1 DEF EvictBefore
  <2>2. \A i \in 1..Len(w) : w[i].at < c
    BY <1>1
  <2> QED BY <2>1, <2>2 DEF IsRest
<1>2. CASE fresh # {}
  <2>1. fresh \in SUBSET Nat /\ fresh \subseteq 1..Len(w)
    OBVIOUS
  <2> DEFINE m == Min(fresh)
             e == SubSeq(w, m, Len(w))
  <2>2. m \in fresh /\ \A y \in fresh : m <= y
    BY <2>1, <1>2, MinNat
  <2>3. EvictBefore(w, c) = e
    BY <1>2 DEF EvictBefore
  <2>4. m \in 1..Len(w) /\ ~(w[m].at < c)
    BY <2>2
  <2>5. \A i \in 1..(m - 1) : w[i].at < c
    <3> SUFFICES ASSUME NEW i \in 1..(m - 1), ~(w[i].at < c) PROVE FALSE
      OBVIOUS
    <3>1. i \in fresh
      BY <2>4
    <3>2. m <= i
      BY <2>2, <3>1
    <3> HIDE DEF m
    <3> QED BY <2>4, <3>2
  <2> HIDE DEF m
  <2>6. /\ e \in Seq(Observation)
        /\ Len(e) = Len(w) - m + 1
        /\ \A i \in 1..(Len(w) - m + 1) : e[i] = w[m + i - 1]
    <3>1. \A i \in m..Len(w) : w[i] \in Observation
      BY <2>4
    <3> QED BY <2>4, <3>1, SubSeqProperties
  <2> HIDE DEF e
  <2>7. IsRest(e, w, c)
    BY <2>4, <2>5, <2>6 DEF IsRest
  <2>8. ~(e[1].at < c)
    BY <2>4, <2>6
  <2> QED BY <2>3, <2>7, <2>8
<1> QED BY <1>1, <1>2

\* The rest of a rest is a rest.
LEMMA RestTransitive ==
    ASSUME NEW c \in Int, NEW w, NEW v, NEW s, IsRest(w, s, c), IsRest(v, w, c)
    PROVE  IsRest(v, s, c)
<1>1. \A i \in 1..Len(v) : v[i] = s[Len(s) - Len(v) + i]
  <2> SUFFICES ASSUME NEW i \in 1..Len(v) PROVE v[i] = s[Len(s) - Len(v) + i]
    OBVIOUS
  <2> DEFINE j == Len(w) - Len(v) + i
  <2>1. j \in 1..Len(w) /\ v[i] = w[j]
    BY DEF IsRest
  <2>2. w[j] = s[Len(s) - Len(w) + j]
    BY <2>1 DEF IsRest
  <2>3. Len(s) - Len(w) + j = Len(s) - Len(v) + i
    BY DEF IsRest
  <2> QED BY <2>1, <2>2, <2>3
<1>2. \A i \in 1..(Len(s) - Len(v)) : s[i].at < c
  <2> SUFFICES ASSUME NEW i \in 1..(Len(s) - Len(v)) PROVE s[i].at < c
    OBVIOUS
  <2>2. CASE i <= Len(s) - Len(w)
    BY <2>2 DEF IsRest
  <2>3. CASE i > Len(s) - Len(w)
    <3> DEFINE j == i - (Len(s) - Len(w))
    <3>1. j \in 1..(Len(w) - Len(v)) /\ j \in 1..Len(w) /\ Len(s) - Len(w) + j = i
      BY <2>3 DEF IsRest
    <3>2. w[j].at < c
      BY <3>1 DEF IsRest
    <3>3. w[j] = s[Len(s) - Len(w) + j]
      BY <3>1 DEF IsRest
    <3> QED BY <3>1, <3>2, <3>3
  <2> QED BY <2>2, <2>3 DEF IsRest
<1> QED BY <1>1, <1>2 DEF IsRest

\* The same observation appended to both.
LEMMA RestAppend ==
    ASSUME NEW c \in Int, NEW w, NEW s, IsRest(w, s, c), NEW o \in Observation
    PROVE  IsRest(Append(w, o), Append(s, o), c)
<1> DEFINE aw == Append(w, o)
           av == Append(s, o)
<1>1. /\ aw \in Seq(Observation) /\ Len(aw) = Len(w) + 1
      /\ \A i \in 1..Len(w) : aw[i] = w[i]
      /\ aw[Len(w) + 1] = o
  BY DEF IsRest
<1>2. /\ av \in Seq(Observation) /\ Len(av) = Len(s) + 1
      /\ \A i \in 1..Len(s) : av[i] = s[i]
      /\ av[Len(s) + 1] = o
  BY DEF IsRest
<1> HIDE DEF aw, av
<1>3. /\ Len(w) \in Nat /\ Len(s) \in Nat /\ Len(w) <= Len(s)
      /\ \A i \in 1..Len(w) : w[i] = s[Len(s) - Len(w) + i]
      /\ \A i \in 1..(Len(s) - Len(w)) : s[i].at < c
  BY DEF IsRest
<1> DEFINE d == Len(s) - Len(w)
<1>4. d \in Nat /\ Len(av) - Len(aw) = d
  BY <1>1, <1>2, <1>3
<1>5. \A i \in 1..Len(aw) : aw[i] = av[d + i]
  <2> SUFFICES ASSUME NEW i \in 1..Len(aw) PROVE aw[i] = av[d + i]
    OBVIOUS
  <2>1. CASE i = Len(w) + 1
    <3>1. d + i = Len(s) + 1
      BY <1>3, <2>1
    <3> QED BY <1>1, <1>2, <2>1, <3>1
  <2>2. CASE i \in 1..Len(w)
    <3>1. d + i \in 1..Len(s)
      BY <1>3, <2>2
    <3>2. aw[i] = w[i] /\ w[i] = s[d + i] /\ av[d + i] = s[d + i]
      BY <1>1, <1>2, <1>3, <2>2, <3>1
    <3> QED BY <3>2
  <2>3. i = Len(w) + 1 \/ i \in 1..Len(w)
    BY <1>1, <1>3
  <2> QED BY <2>1, <2>2, <2>3
<1>6. \A i \in 1..d : av[i].at < c
  <2> SUFFICES ASSUME NEW i \in 1..d PROVE av[i].at < c
    OBVIOUS
  <2>1. i \in 1..Len(s)
    BY <1>3
  <2> QED BY <1>2, <1>3, <2>1
<1>7. Len(aw) <= Len(av)
  BY <1>1, <1>2, <1>3
<1> HIDE DEF d
<1>8. IsRest(aw, av, c)
  BY <1>1, <1>2, <1>4, <1>5, <1>6, <1>7 DEF IsRest
<1> QED BY <1>8 DEF aw, av

\* Observing at time t continues a chronicle up to t.
LEMMA ChronicleAppend ==
    ASSUME NEW s \in Seq(Observation), NEW t \in Nat, Chronicle(s, t),
           NEW o \in Observation, o.at = t
    PROVE  Chronicle(Append(s, o), t)
<1> DEFINE u == Append(s, o)
<1>1. /\ u \in Seq(Observation) /\ Len(u) = Len(s) + 1 /\ DOMAIN u = 1..(Len(s) + 1)
      /\ \A i \in 1..Len(s) : u[i] = s[i]
      /\ u[Len(s) + 1] = o
  OBVIOUS
<1> HIDE DEF u
<1>2. ASSUME NEW i \in DOMAIN u PROVE u[i].at <= t
  <2>1. CASE i \in 1..Len(s)
    BY <1>1, <2>1 DEF Chronicle
  <2>2. CASE i = Len(s) + 1
    BY <1>1, <2>2
  <2> QED BY <1>1, <2>1, <2>2
<1>3. ASSUME NEW i \in DOMAIN u, NEW j \in DOMAIN u, i <= j PROVE u[i].at <= u[j].at
  <2>1. CASE j = Len(s) + 1
    BY <1>1, <1>2, <2>1
  <2>2. CASE j \in 1..Len(s)
    <3>1. i \in 1..Len(s)
      BY <1>1, <1>3, <2>2
    <3> QED BY <1>1, <1>3, <2>2, <3>1 DEF Chronicle
  <2> QED BY <1>1, <2>1, <2>2
<1>4. Chronicle(u, t)
  BY <1>2, <1>3 DEF Chronicle
<1> QED BY <1>4 DEF u

\* What record leaves in the window are the observations that are not older than
\* the cutoff, no more and no less.
LEMMA RecordExact ==
    ASSUME NEW w, NEW s, NEW t \in Nat, IsRest(w, s, t - RollingWindow),
           Chronicle(s, t), NEW o \in Observation, o.at = t
    PROVE  LET e == EvictBefore(Append(w, o), t - RollingWindow)
               u == Append(s, o)
           IN  /\ IsRest(e, u, t - RollingWindow)
               /\ Chronicle(u, t)
               /\ Len(e) > 0
               /\ \A i \in 1..Len(e) : ~(e[i].at < t - RollingWindow)
<1> DEFINE c == t - RollingWindow
           x == Append(w, o)
           e == EvictBefore(x, c)
           u == Append(s, o)
<1>0. RollingWindow \in Nat /\ c \in Int
  BY BreakerAssumption
<1>1. IsRest(x, u, c)
  BY <1>0, RestAppend
<1>2. x \in Seq(Observation)
  BY <1>1 DEF IsRest
<1>3. IsRest(e, x, c) /\ (e # <<>> => ~(e[1].at < c))
  BY <1>0, <1>2, EvictRest
<1>4. Chronicle(u, t)
  BY ChronicleAppend DEF IsRest
<1>5. Len(x) > 0 /\ x[Len(x)] = o
  BY DEF IsRest
<1>6. c <= t
  BY <1>0
<1> HIDE DEF c, x, e, u
<1>7. Len(e) > 0
  <2> SUFFICES ASSUME ~(Len(e) > 0) PROVE FALSE
    OBVIOUS
  <2>1. Len(e) = 0 /\ Len(x) \in 1..(Len(x) - Len(e))
    BY <1>3, <1>5 DEF IsRest
  <2>2. x[Len(x)].at < c
    BY <1>3, <2>1 DEF IsRest
  <2> QED BY <1>0, <1>5, <1>6, <2>2
<1>8. IsRest(e, u, c)
  BY <1>0, <1>1, <1>3, RestTransitive
<1>9. ASSUME NEW i \in 1..Len(e) PROVE ~(e[i].at < c)
  <2> DEFINE d == Len(u) - Len(e)
  <2>1. d + 1 \in DOMAIN u /\ d + i \in DOMAIN u /\ d + 1 <= d + i /\ 1 \in 1..Len(e)
    BY <1>7, <1>8 DEF IsRest
  <2>2. e[1] = u[d + 1] /\ e[i] = u[d + i]
    BY <1>8, <2>1 DEF IsRest
  <2>3. u[d + 1].at <= u[d + i].at
    BY <1>4, <2>1 DEF Chronicle
  <2>4. ~(e[1].at < c)
    BY <1>3, <1>7
  <2>5. e[1] \in Observation /\ e[i] \in Observation
    BY <1>8, <2>1 DEF IsRest
  <2>6. e[1].at \in Nat /\ e[i].at \in Nat
    BY <2>5 DEF Observation
  <2> QED BY <1>0, <2>2, <2>3, <2>4, <2>6
<1> QED BY <1>4, <1>7, <1>8, <1>9 DEF c, x, e, u

\* Shifting a finite set of numbers keeps its cardinality.
LEMMA ShiftCardinality ==
    ASSUME NEW S \in SUBSET Nat, NEW T \in SUBSET Nat, NEW d \in Nat, IsFiniteSet(S),
           \A i \in S : d + i \in T,
           \A j \in T : j >= d /\ j - d \in S
    PROVE  Cardinality(T) = Cardinality(S)
<1> DEFINE f == [i \in S |-> d + i]
<1>1. f \in [S -> T]
  OBVIOUS
<1>2. \A a, b \in S : f[a] = f[b] => a = b
  OBVIOUS
<1>3. \A j \in T : \E i \in S : f[i] = j
  <2> SUFFICES ASSUME NEW j \in T PROVE f[j - d] = j /\ j - d \in S
    OBVIOUS
  <2> QED OBVIOUS
<1> HIDE DEF f
<1>4. f \in Bijection(S, T)
  BY <1>1, <1>2, <1>3 DEF Bijection, Injection, Surjection, IsInjective
<1>5. ExistsBijection(S, T)
  BY <1>4 DEF ExistsBijection
<1> QED BY <1>5, FS_Bijection

\* A rest that holds exactly the observations from the cutoff on has as many of
\* them, and as many failures among them, as the whole list.
LEMMA RestCounts ==
    ASSUME NEW c \in Int, NEW e, NEW u, IsRest(e, u, c),
           \A i \in 1..Len(e) : ~(e[i].at < c)
    PROVE  LET young == {i \in DOMAIN u : ~(u[i].at < c)} IN
           /\ Cardinality(young) = Len(e)
           /\ Cardinality({i \in young : ~u[i].success}) = FailureCount(e)
           /\ FailureCount(e) \in Nat
<1> DEFINE young == {i \in DOMAIN u : ~(u[i].at < c)}
           bad == {i \in young : ~u[i].success}
           d == Len(u) - Len(e)
           B == {i \in DOMAIN e : ~e[i].success}
<1>1. /\ Len(e) \in Nat /\ Len(u) \in Nat /\ d \in Nat
      /\ DOMAIN e = 1..Len(e) /\ DOMAIN u = 1..Len(u)
  BY DEF IsRest
<1>2. \A i \in 1..Len(e) : d + i \in DOMAIN u /\ e[i] = u[d + i]
  BY DEF IsRest
<1>3. \A i \in 1..d : u[i].at < c
  BY DEF IsRest
<1>4. Len(u) = d + Len(e)
  BY <1>1
<1>5. IsFiniteSet(1..Len(e)) /\ Cardinality(1..Len(e)) = Len(e)
  <2> DEFINE n == Len(e)
  <2>1. n \in Nat /\ n \in Int
    BY <1>1
  <2> HIDE DEF n
  <2>2. IsFiniteSet(1..n) /\ Cardinality(1..n) = n
    BY <2>1, FS_Interval
  <2> QED BY <2>2 DEF n
<1> HIDE DEF d
<1>6. \A i \in 1..Len(e) : d + i \in young
  BY <1>2
<1>7. \A j \in young : j >= d /\ j - d \in 1..Len(e)
  <2> SUFFICES ASSUME NEW j \in young PROVE j > d /\ j <= d + Len(e) /\ j \in Nat
    BY <1>1
  <2>1. j \in 1..Len(u)
    BY <1>1
  <2>2. j \notin 1..d
    BY <1>3
  <2> QED BY <1>1, <1>4, <2>1, <2>2
<1>8. young \in SUBSET Nat /\ 1..Len(e) \in SUBSET Nat
  BY <1>1
<1>9. Cardinality(young) = Len(e)
  <2> HIDE DEF young
  <2> QED BY <1>1, <1>5, <1>6, <1>7, <1>8, ShiftCardinality
<1>10. B \in SUBSET (1..Len(e)) /\ bad \in SUBSET young
  BY <1>1
<1>11. IsFiniteSet(B)
  BY <1>5, <1>10, FS_Subset
<1>12. \A i \in B : d + i \in bad
  BY <1>1, <1>2, <1>6
<1>13. \A j \in bad : j >= d /\ j - d \in B
  <2> SUFFICES ASSUME NEW j \in bad PROVE j >= d /\ j - d \in B
    OBVIOUS
  <2>1. j \in young /\ ~u[j].success
    OBVIOUS
  <2>2. j >= d /\ j - d \in 1..Len(e) /\ j \in Nat
    BY <1>7, <1>8, <2>1
  <2>3. d + (j - d) = j
    BY <1>1, <2>2
  <2>4. e[j - d] = u[j]
    BY <1>2, <2>2, <2>3
  <2> QED BY <1>1, <2>1, <2>2, <2>4
<1>14. B \in SUBSET Nat /\ bad \in SUBSET Nat
  BY <1>8, <1>10
<1>15. Cardinality(bad) = Cardinality(B)
  <2> HIDE DEF bad, B
  <2> QED BY <1>1, <1>11, <1>12, <1>13, <1>14, ShiftCardinality
<1>16. FailureCount(e) = Cardinality(B)
  BY DEF FailureCount
<1>17. Cardinality(B) \in Nat
  BY <1>11, FS_CardinalityType
<1> QED BY <1>9, <1>15, <1>16, <1>17

\* Rounding the percentage down does not matter to a whole threshold: the quotient
\* reaches it if and only if the products compare.
LEMMA PercentThreshold ==
    ASSUME NEW a \in Nat, NEW n \in Nat, n > 0, NEW T \in Int
    PROVE  a \div n >= T <=> a >= T * n
<1> DEFINE q == a \div n
           r == a % n
<1>1. q \in Int /\ r \in 0..(n - 1) /\ a = q * n + r
  OBVIOUS
<1> HIDE DEF q, r
<1>2. CASE q >= T
  <2>1. (q - T) * n >= 0
    BY <1>1, <1>2
  <2>2. (q - T) * n = q * n - T * n
    BY <1>1
  <2> QED BY <1>1, <1>2, <2>1, <2>2 DEF q
<1>3. CASE q < T
  <2>1. (T - q - 1) * n >= 0
    BY <1>1, <1>3
  <2>2. (T - q - 1) * n = T * n - q * n - n
    BY <1>1
  <2>3. T * n \in Int /\ q * n \in Int
    BY <1>1
  <2>4. a < T * n
    BY <1>1, <2>1, <2>2, <2>3
  <2> QED BY <1>1, <1>3, <2>3, <2>4 DEF q
<1> QED BY <1>1, <1>2, <1>3
=============================================================================
