---------------------------- MODULE BalancerProofs ----------------------------
(***************************************************************************)
(* What the balancers promise although they read flags and counters one    *)
(* after the other: for any number of backends, callers and changes, for a *)
(* counter of any width that can number the backends, and for any weights. *)
(***************************************************************************)
EXTENDS Balancer, Weighted, FiniteSetTheorems, WellFoundedInduction, TLAPS

-----------------------------------------------------------------------------
\* The inductive invariant

\* The live ones of the first k backends, by their place, how many live backends
\* there are, and how many of them are before place i.
Live(k) == {i \in 1..k : alive[Backends[i]]}
LiveCount == Cardinality(Live(Len(Backends)))
Rank(i) == Cardinality(Live(i - 1))

\* A backend that has been alive since the call began is alive, and was found so
\* if the loop has passed it.
ScanInv ==
    /\ \A r \in Reqs : \A b \in through[r] : alive[b]
    /\ \A r \in Reqs : call[r].pc = "scan" =>
          \A i \in 1..call[r].cursor : Backends[i] \in through[r] =>
              \E m \in DOMAIN call[r].seen : call[r].seen[m] = Backends[i]

\* Whatever flags change meanwhile, the slice has a backend once at most.
SeenInv ==
    \A r \in Reqs :
        /\ \A i, j \in DOMAIN call[r].seen : call[r].seen[i] = call[r].seen[j] => i = j
        /\ Len(call[r].seen) <= Len(Backends)
        /\ call[r].pc = "scan" =>
              /\ Len(call[r].seen) <= call[r].cursor
              /\ \A m \in DOMAIN call[r].seen :
                    \E i \in 1..call[r].cursor : call[r].seen[m] = Backends[i]

\* If none changes, the slice has each live backend that the loop has passed, at its
\* rank.
FreshInv ==
    \A r \in Reqs : call[r].pc = "scan" /\ fresh[r] =>
        /\ Len(call[r].seen) = Cardinality(Live(call[r].cursor))
        /\ \A i \in Live(call[r].cursor) : call[r].seen[Rank(i) + 1] = Backends[i]
        /\ \A m \in DOMAIN call[r].seen :
              \E i \in Live(call[r].cursor) : call[r].seen[m] = Backends[i] /\ Rank(i) = m - 1

\* The locals that a call has where it is.
CallOK(r) ==
    /\ call[r].pc \in {"picked", "serving"} => call[r].best \in Backend
    /\ call[r].pc = "least" => call[r].cursor \in 1..Len(call[r].seen)
    /\ call[r].pc = "compare" => call[r].cursor \in 1..(Len(call[r].seen) - 1)
    /\ call[r].pc \in {"least", "compare"} =>
          \E j \in 1..call[r].cursor : call[r].best = call[r].seen[j]
    /\ call[r].pc = "scan" /\ algorithm = "ip_hash" =>
          call[r].client \in Clients /\ call[r].port \in Ports

CallInv == \A r \in Reqs : CallOK(r)

\* A count is that of the handlers, and of the connections that stay open.
Serving(b) == {r \in Reqs : call[r].pc = "serving" /\ call[r].best = b}

CountInv == \A b \in Backend : conns[b] - Cardinality(Serving(b)) \in 0..Standing

\* The best so far is close to each backend that it was compared with. While a
\* loaded count waits for its comparison, it and the best together are.
Close(r, b) == conns[call[r].best] <= conns[b] + drift[r]

Loaded(r) ==
    LET new == call[r].seen[call[r].cursor + 1]
    IN  /\ call[r].load <= conns[new] + drift[r]
        /\ \A j \in 1..call[r].cursor :
              conns[new] + conns[call[r].best] <= call[r].load + conns[call[r].seen[j]] + drift[r]

LeastOK(r) ==
    /\ call[r].pc \in {"least", "compare"} =>
          \A j \in 1..call[r].cursor : Close(r, call[r].seen[j])
    /\ call[r].pc = "picked" => \A j \in DOMAIN call[r].seen : Close(r, call[r].seen[j])
    /\ call[r].pc = "compare" /\ drift[r] < MaxDrift => Loaded(r)

LeastInv == algorithm = "least_conn" => \A r \in Reqs : LeastOK(r)

\* How many picks of others come before the turn of rank i among n: the distance
\* from the counter, unless the counter wraps before.
Distance(c, n, i) == IF c % n <= i THEN i - (c % n) ELSE i - (c % n) + n

Before(c, n, i) ==
    IF Distance(c, n, i) < Modulus - c THEN Distance(c, n, i) ELSE Modulus - c + i

TurnInv ==
    \A i \in Live(Len(Backends)) :
        passed[Backends[i]] + Before(counter, LiveCount, Rank(i))
            <= (LiveCount - 1) + (Modulus % LiveCount)

\* A client's home is the live backend whose rank is the client's hash.
HomeInv ==
    \A c \in Forwarded : home[c] # None =>
        \E i \in Live(Len(Backends)) :
            home[c] = Backends[i] /\ Rank(i) = Hash[<<c, 0>>] % LiveCount

IInv ==
    /\ TypeOK /\ ScanInv /\ SeenInv /\ FreshInv /\ CallInv
    /\ CountInv /\ LeastInv /\ TurnInv /\ HomeInv

-----------------------------------------------------------------------------
\* Remainders

LEMMA DivMod ==
    ASSUME NEW c \in Nat, NEW n \in Nat \ {0}
    PROVE  c % n \in 0..(n - 1) /\ (c \div n) \in Nat /\ c = (n * (c \div n)) + (c % n)
OBVIOUS

\* A number has one remainder.
LEMMA Remainder ==
    ASSUME NEW n \in Nat \ {0}, NEW q \in Int, NEW s \in Int,
           NEW a \in 0..(n - 1), NEW b \in 0..(n - 1),
           n * q + a = n * s + b
    PROVE  a = b
<1>1. CASE q = s
  BY <1>1
<1>2. CASE q >= s + 1
  <2>1. PICK e \in Nat : q = s + 1 + e
    <3>1. q - s - 1 \in Nat /\ q = s + 1 + (q - s - 1)
      BY <1>2
    <3> QED BY <3>1
  <2>2. n * q = n * s + n + n * e /\ n * e \in Nat /\ n * s \in Int
    BY <2>1
  <2> QED BY <2>2
<1>3. CASE s >= q + 1
  <2>1. PICK e \in Nat : s = q + 1 + e
    <3>1. s - q - 1 \in Nat /\ s = q + 1 + (s - q - 1)
      BY <1>3
    <3> QED BY <3>1
  <2>2. n * s = n * q + n + n * e /\ n * e \in Nat /\ n * q \in Int
    BY <2>1
  <2> QED BY <2>2
<1> QED BY <1>1, <1>2, <1>3

LEMMA ModAdd ==
    ASSUME NEW c \in Nat, NEW k \in Nat, NEW n \in Nat \ {0}, k <= n
    PROVE  (c + k) % n = IF (c % n) + k < n THEN (c % n) + k ELSE (c % n) + k - n
<1> DEFINE a == c \div n
           b == (c + k) \div n
           x == c % n
           y == (c + k) % n
<1>1. a \in Nat /\ x \in 0..(n - 1) /\ c = n * a + x
  BY DivMod
<1>2. b \in Nat /\ y \in 0..(n - 1) /\ c + k = n * b + y
  BY DivMod, c + k \in Nat
<1> HIDE DEF a, b, x, y
<1>3. CASE x + k < n
  <2>1. x + k \in 0..(n - 1) /\ n * a + (x + k) = n * b + y
    BY <1>1, <1>2, <1>3
  <2>2. x + k = y
    BY <2>1, <1>1, <1>2, Remainder
  <2> QED BY <2>2, <1>3 DEF x, y
<1>4. CASE ~(x + k < n)
  <2>1. x + k - n \in 0..(n - 1)
    BY <1>1, <1>2, <1>4
  <2>2. n * (a + 1) = n * a + n
    BY <1>1
  <2>3. n * (a + 1) + (x + k - n) = n * b + y
    BY <1>1, <1>2, <2>2
  <2>4. x + k - n = y
    BY <2>1, <2>3, <1>1, <1>2, a + 1 \in Int, b \in Int, Remainder
  <2> QED BY <2>4, <1>4 DEF x, y
<1> QED BY <1>3, <1>4

LEMMA Widths == Modulus \in Nat \ {0} /\ Len(Backends) \in Nat /\ Len(Backends) <= Modulus
BY PoolAssumption, BalancerAssumption

\* A turn comes after at most n - 1 others, and what is left of the counter's range.
LEMMA TurnBound ==
    ASSUME NEW n \in Nat \ {0}, NEW i \in 0..(n - 1), NEW c \in 0..(Modulus - 1)
    PROVE  Before(c, n, i) \in Nat /\ Before(c, n, i) <= (n - 1) + (Modulus % n)
<1> DEFINE p == c % n
           k == Modulus - c
           rho == Modulus % n
           d == Distance(c, n, i)
<1>1. /\ Modulus \in Nat /\ c \in Nat /\ p \in 0..(n - 1) /\ rho \in 0..(n - 1)
      /\ k \in Nat /\ k >= 1
  <2>1. Modulus \in Nat /\ c \in Nat /\ k \in Nat /\ k >= 1
    BY Widths
  <2> QED BY <2>1, DivMod
<1>2. d = IF p <= i THEN i - p ELSE i - p + n
  BY DEF Distance
<1>3. Before(c, n, i) = IF d < k THEN d ELSE k + i
  BY DEF Before
<1>4. k <= n => rho = IF p + k < n THEN p + k ELSE p + k - n
  <2> SUFFICES ASSUME k <= n PROVE rho = IF p + k < n THEN p + k ELSE p + k - n
    OBVIOUS
  <2>1. (c + k) % n = IF p + k < n THEN p + k ELSE p + k - n
    BY <1>1, ModAdd
  <2>2. c + k = Modulus
    BY <1>1
  <2> QED BY <2>1, <2>2
<1> HIDE DEF p, k, rho, d
<1>5. Before(c, n, i) \in Nat /\ Before(c, n, i) <= (n - 1) + rho
  BY <1>1, <1>2, <1>3, <1>4
<1> QED BY <1>5 DEF rho

\* A pick brings every other turn nearer by one.
LEMMA TurnStep ==
    ASSUME NEW n \in Nat \ {0}, n <= Modulus, NEW i \in 0..(n - 1), NEW c \in 0..(Modulus - 1),
           i # c % n
    PROVE  Before((c + 1) % Modulus, n, i) + 1 = Before(c, n, i)
<1> DEFINE p == c % n
           s == (c + 1) % Modulus
           t == s % n
<1>1. Modulus \in Nat \ {0} /\ c \in Nat /\ p \in 0..(n - 1)
  <2>1. Modulus \in Nat \ {0} /\ c \in Nat
    BY Widths
  <2> QED BY <2>1, DivMod
<1>2. Distance(c, n, i) = IF p <= i THEN i - p ELSE i - p + n
  BY DEF Distance
<1>3. Before(c, n, i) = IF Distance(c, n, i) < Modulus - c THEN Distance(c, n, i) ELSE Modulus - c + i
  BY DEF Before
<1>4. Distance(s, n, i) = IF t <= i THEN i - t ELSE i - t + n
  BY DEF Distance
<1>5. Before(s, n, i) = IF Distance(s, n, i) < Modulus - s THEN Distance(s, n, i) ELSE Modulus - s + i
  BY DEF Before
<1>6. i # p
  OBVIOUS
<1>7. CASE c + 1 < Modulus
  <2>1. s = c + 1
    BY <1>1, <1>7
  <2>2. t = IF p + 1 < n THEN p + 1 ELSE p + 1 - n
    <3>1. 1 \in Nat /\ 1 <= n
      OBVIOUS
    <3>2. (c + 1) % n = IF (c % n) + 1 < n THEN (c % n) + 1 ELSE (c % n) + 1 - n
      BY <1>1, <3>1, ModAdd
    <3>3. t = (c + 1) % n
      BY <2>1
    <3> QED BY <3>2, <3>3
  <2> HIDE DEF p, s, t
  <2>3. Before(s, n, i) + 1 = Before(c, n, i)
    BY <1>1, <1>2, <1>3, <1>4, <1>5, <1>6, <1>7, <2>1, <2>2
  <2> QED BY <2>3 DEF s
<1>8. CASE c + 1 = Modulus
  <2>1. s = 0
    BY <1>1, <1>8
  <2>2. t = 0
    <3> DEFINE q == 0 \div n
               z == 0 % n
    <3>1. q \in Nat /\ z \in 0..(n - 1) /\ 0 = (n * q) + z
      BY DivMod
    <3> HIDE DEF q, z
    <3>2. n * q + z = n * 0 + 0 /\ 0 \in 0..(n - 1)
      BY <3>1
    <3>3. z = 0
      BY <3>1, <3>2, Remainder
    <3> QED BY <2>1, <3>3 DEF z
  <2> HIDE DEF p, s, t
  <2>3. Before(s, n, i) + 1 = Before(c, n, i)
    BY <1>1, <1>2, <1>3, <1>4, <1>5, <1>6, <1>8, <2>1, <2>2
  <2> QED BY <2>3 DEF s
<1> QED BY <1>1, <1>7, <1>8

-----------------------------------------------------------------------------
\* Ranks of live backends

LEMMA BackendsTyped ==
    /\ Backends \in Seq(Backend) /\ Len(Backends) \in Nat
    /\ \A i \in 1..Len(Backends) : Backends[i] \in Backend
    /\ \A i, j \in 1..Len(Backends) : Backends[i] = Backends[j] => i = j
    /\ \A b \in Backend : \E i \in 1..Len(Backends) : b = Backends[i]
BY PoolAssumption, BalancerAssumption DEF Backend

LEMMA LiveFinite ==
    ASSUME NEW k \in Int
    PROVE  IsFiniteSet(Live(k)) /\ Cardinality(Live(k)) \in Nat
<1>1. IsFiniteSet(1..k) /\ Live(k) \in SUBSET (1..k)
  BY FS_Interval DEF Live
<1> QED BY <1>1, FS_Subset, FS_CardinalityType

\* A live backend is one more.
LEMMA LiveNext ==
    ASSUME NEW k \in Nat
    PROVE  /\ Live(0) = {} /\ Cardinality(Live(0)) = 0
           /\ Live(k + 1) = IF alive[Backends[k + 1]] THEN Live(k) \cup {k + 1} ELSE Live(k)
           /\ Cardinality(Live(k + 1)) = IF alive[Backends[k + 1]] THEN Cardinality(Live(k)) + 1
                                         ELSE Cardinality(Live(k))
<1>1. Live(0) = {} /\ Cardinality(Live(0)) = 0
  <2>1. Live(0) = {}
    BY 1..0 = {} DEF Live
  <2> QED BY <2>1, FS_EmptySet
<1>2. 1..(k + 1) = (1..k) \cup {k + 1} /\ k + 1 \notin 1..k
  OBVIOUS
<1>3. Live(k + 1) = IF alive[Backends[k + 1]] THEN Live(k) \cup {k + 1} ELSE Live(k)
  BY <1>2 DEF Live
<1>4. k + 1 \notin Live(k) /\ IsFiniteSet(Live(k))
  BY <1>2, LiveFinite DEF Live
<1>5. Cardinality(Live(k) \cup {k + 1}) = Cardinality(Live(k)) + 1
  BY <1>4, FS_AddElement
<1> QED BY <1>1, <1>3, <1>5

\* The rank of a live backend is below their number.
LEMMA RankBound ==
    ASSUME NEW k \in Nat, NEW i \in Live(k)
    PROVE  Rank(i) \in 0..(Cardinality(Live(k)) - 1) /\ i \in 1..k
<1>1. i \in 1..k
  BY DEF Live
<1>2. Live(i - 1) \in SUBSET (Live(k) \ {i})
  BY <1>1 DEF Live
<1>3. IsFiniteSet(Live(k) \ {i}) /\ Cardinality(Live(k) \ {i}) = Cardinality(Live(k)) - 1
  <2>1. IsFiniteSet(Live(k))
    BY LiveFinite
  <2> QED BY <2>1, FS_RemoveElement
<1>4. Cardinality(Live(i - 1)) <= Cardinality(Live(k)) - 1
  BY <1>2, <1>3, FS_Subset
<1>5. Cardinality(Live(i - 1)) \in Nat /\ Cardinality(Live(k)) \in Nat
  BY <1>1, LiveFinite
<1> QED BY <1>1, <1>4, <1>5 DEF Rank

\* There are as many live places as live backends.
LEMMA LiveCountIs == Cardinality({b \in Backend : alive[b]}) = LiveCount
<1> DEFINE L == Live(Len(Backends))
           B == {b \in Backend : alive[b]}
           f == [i \in L |-> Backends[i]]
<1>1. f \in [L -> B]
  BY BackendsTyped DEF Live
<1>2. \A i, j \in L : f[i] = f[j] => i = j
  BY BackendsTyped DEF Live
<1>3. \A b \in B : \E i \in L : f[i] = b
  <2> SUFFICES ASSUME NEW b \in B PROVE \E i \in L : f[i] = b
    OBVIOUS
  <2>1. b \in Backend /\ alive[b]
    OBVIOUS
  <2>2. PICK i \in 1..Len(Backends) : b = Backends[i]
    BY <2>1, BackendsTyped
  <2>3. i \in L
    BY <2>1, <2>2 DEF Live
  <2>4. f[i] = b
    BY <2>2, <2>3
  <2> QED BY <2>3, <2>4
<1> HIDE DEF f, B, L
<1>4. ExistsBijection(L, B)
  BY <1>1, <1>2, <1>3 DEF ExistsBijection, Bijection, Injection, Surjection, IsInjective
<1>5. IsFiniteSet(L)
  BY LiveFinite, BackendsTyped DEF L
<1>6. Cardinality(B) = Cardinality(L)
  BY <1>4, <1>5, FS_Bijection
<1> QED BY <1>6 DEF LiveCount, L, B

-----------------------------------------------------------------------------
\* What a step does to a handler

LEMMA Update ==
    ASSUME call \in [Reqs -> CallType], NEW r \in Reqs, NEW h \in CallType,
           call' = [call EXCEPT ![r] = h]
    PROVE  /\ call' \in [Reqs -> CallType] /\ call'[r] = h
           /\ \A q \in Reqs : q # r => call'[q] = call[q]
OBVIOUS

LEMMA IdleTyped ==
    /\ Idle \in CallType /\ Idle.pc = "idle" /\ Idle.seen = <<>> /\ Idle.cursor = 0
    /\ DOMAIN Idle.seen = {} /\ Len(Idle.seen) = 0
BY BackendsTyped DEF Idle, CallType

\* Only handler r moves, and neither a flag nor the algorithm changes.
Frame(r) ==
    /\ algorithm' = algorithm /\ alive' = alive
    /\ call' \in [Reqs -> CallType]
    /\ \A q \in Reqs : q # r =>
          call'[q] = call[q] /\ through'[q] = through[q] /\ fresh'[q] = fresh[q]

LEMMA BeginEffect ==
    ASSUME TypeOK, NEW r \in Reqs, NEW c \in Clients, NEW p \in Ports, Begin(r, c, p)
    PROVE  /\ Frame(r) /\ UNCHANGED <<conns, counter, drift, passed, home>>
           /\ call[r].pc = "idle" /\ call'[r].pc = "scan" /\ call'[r].cursor = 0 /\ call'[r].seen = <<>>
           /\ algorithm = "ip_hash" => call'[r].client = c /\ call'[r].port = p
           /\ through' = [through EXCEPT ![r] = {b \in Backend : alive[b]}]
           /\ fresh' = [fresh EXCEPT ![r] = TRUE]
<1> DEFINE h == IF algorithm = "ip_hash" THEN [Idle EXCEPT !.pc = "scan", !.client = c, !.port = p]
                ELSE [Idle EXCEPT !.pc = "scan"]
<1>1. /\ h \in CallType /\ h.pc = "scan" /\ h.cursor = 0 /\ h.seen = <<>>
      /\ algorithm = "ip_hash" => h.client = c /\ h.port = p
  BY IdleTyped DEF Idle, CallType
<1>2. call' = [call EXCEPT ![r] = h]
  BY DEF Begin
<1> HIDE DEF h
<1>3. /\ call' \in [Reqs -> CallType] /\ call'[r] = h
      /\ \A q \in Reqs : q # r => call'[q] = call[q]
  BY <1>1, <1>2, Update DEF TypeOK
<1>4. /\ \A q \in Reqs : q # r => through'[q] = through[q] /\ fresh'[q] = fresh[q]
      /\ algorithm' = algorithm /\ alive' = alive
  BY DEF Begin, TypeOK
<1> QED BY <1>1, <1>3, <1>4 DEF Begin, Frame

LEMMA ScanEffect ==
    ASSUME TypeOK, NEW r \in Reqs, Scan(r), NEW k, k = call[r].cursor + 1, NEW b, b = Backends[k]
    PROVE  /\ Frame(r) /\ UNCHANGED <<conns, counter, history>>
           /\ k \in 1..Len(Backends) /\ b \in Backend
           /\ call[r].pc = "scan" /\ call'[r].pc = "scan" /\ call'[r].cursor = k
           /\ call'[r].seen = IF alive[b] THEN Append(call[r].seen, b) ELSE call[r].seen
           /\ call'[r].client = call[r].client /\ call'[r].port = call[r].port
<1>1. call[r] \in CallType
  BY DEF TypeOK
<1>2. k \in 1..Len(Backends) /\ b \in Backend
  <2>1. call[r].cursor \in 0..Len(Backends) /\ call[r].cursor < Len(Backends)
    BY <1>1 DEF Scan, CallType
  <2>2. k \in 1..Len(Backends)
    BY <2>1, Widths
  <2> QED BY <2>2, BackendsTyped
<1> DEFINE s == IF alive[b] THEN Append(call[r].seen, b) ELSE call[r].seen
           h == [call[r] EXCEPT !.cursor = k, !.seen = s]
<1>3. s \in Seq(Backend) /\ k \in 0..Len(Backends)
  <2>1. call[r].seen \in Seq(Backend)
    BY <1>1 DEF CallType
  <2> QED BY <1>2, <2>1, Widths
<1>4. call' = [call EXCEPT ![r] = h]
  BY DEF Scan
<1> HIDE DEF s
<1>5. /\ h \in CallType /\ h.pc = call[r].pc /\ h.cursor = k /\ h.seen = s
      /\ h.client = call[r].client /\ h.port = call[r].port
  BY <1>1, <1>3 DEF CallType
<1> HIDE DEF h
<1>6. /\ call' \in [Reqs -> CallType] /\ call'[r] = h
      /\ \A q \in Reqs : q # r => call'[q] = call[q]
  BY <1>4, <1>5, Update DEF TypeOK
<1>7. call[r].pc = "scan" /\ UNCHANGED <<algorithm, alive, conns, counter, history>>
  BY DEF Scan
<1> QED BY <1>2, <1>5, <1>6, <1>7 DEF Frame, s, history

\* Next returns.
LEMMA ReturnEffect ==
    ASSUME TypeOK, NEW r \in Reqs, NEW b \in Backend, Return(r, b)
    PROVE  /\ call' \in [Reqs -> CallType]
           /\ \A q \in Reqs : q # r => call'[q] = call[q]
           /\ call'[r].pc = "picked" /\ call'[r].best = b /\ call'[r].seen = call[r].seen
<1> DEFINE h == [call[r] EXCEPT !.pc = "picked", !.best = b, !.cursor = 0, !.load = 0]
<1>1. call[r] \in CallType /\ 0 \in 0..Len(Backends) /\ 0 \in Nat
  BY Widths DEF TypeOK
<1>2. h \in CallType /\ h.pc = "picked" /\ h.best = b /\ h.seen = call[r].seen
  BY <1>1 DEF CallType
<1>3. call' = [call EXCEPT ![r] = h]
  BY DEF Return
<1> HIDE DEF h
<1> QED BY <1>2, <1>3, Update DEF TypeOK

\* The pick from a list that is not empty is one of the list.
LEMMA PickTyped ==
    ASSUME NEW s \in Seq(Backend), s # <<>>, NEW c \in Nat
    PROVE  /\ Len(s) \in Nat \ {0} /\ c % Len(s) \in 0..(Len(s) - 1)
           /\ (c % Len(s)) + 1 \in DOMAIN s /\ s[(c % Len(s)) + 1] \in Backend
<1>1. Len(s) \in Nat \ {0}
  OBVIOUS
<1>2. c % Len(s) \in 0..(Len(s) - 1)
  BY <1>1, DivMod
<1> QED BY <1>1, <1>2

LEMMA BeginLeastEffect ==
    ASSUME TypeOK, NEW r \in Reqs, BeginLeast(r)
    PROVE  /\ Frame(r) /\ UNCHANGED <<conns, counter, history>>
           /\ call[r].pc = "scan" /\ Len(call[r].seen) >= 1
           /\ call'[r].pc = "least" /\ call'[r].cursor = 1
           /\ call'[r].best = call[r].seen[1] /\ call'[r].seen = call[r].seen
<1>1. call[r] \in CallType /\ call[r].pc = "scan" /\ call[r].cursor = Len(Backends)
  BY DEF TypeOK, BeginLeast, Scanned
<1>2. call[r].seen # <<>> /\ call[r].seen \in Seq(Backend)
  BY <1>1 DEF BeginLeast, CallType
<1>3. Head(call[r].seen) = call[r].seen[1] /\ call[r].seen[1] \in Backend /\ Len(call[r].seen) >= 1
  BY <1>2
<1> DEFINE h == [call[r] EXCEPT !.pc = "least", !.cursor = 1, !.best = call[r].seen[1]]
<1>4. 1 \in 0..Len(Backends)
  <2>1. Len(Backends) # 0
    <3> SUFFICES ASSUME Len(Backends) = 0 PROVE FALSE
      OBVIOUS
    <3>1. Backend = {}
      BY BackendsTyped, 1..0 = {}
    <3> QED BY <1>3, <3>1
  <2> QED BY <2>1, BackendsTyped
<1>5. /\ h \in CallType /\ h.pc = "least" /\ h.cursor = 1 /\ h.best = call[r].seen[1]
      /\ h.seen = call[r].seen
  BY <1>1, <1>3, <1>4 DEF CallType
<1>6. call' = [call EXCEPT ![r] = h]
  BY <1>3 DEF BeginLeast
<1> HIDE DEF h
<1>7. /\ call' \in [Reqs -> CallType] /\ call'[r] = h
      /\ \A q \in Reqs : q # r => call'[q] = call[q]
  BY <1>5, <1>6, Update DEF TypeOK
<1>8. UNCHANGED <<algorithm, alive, conns, counter, history>>
  BY DEF BeginLeast
<1> QED BY <1>1, <1>3, <1>5, <1>7, <1>8 DEF Frame, history

LEMMA LoadOtherEffect ==
    ASSUME TypeOK, CallInv, NEW r \in Reqs, LoadOther(r), NEW k, k = call[r].cursor
    PROVE  /\ Frame(r) /\ UNCHANGED <<conns, counter, history>>
           /\ call[r].pc = "least" /\ k \in 1..(Len(call[r].seen) - 1)
           /\ call'[r].pc = "compare" /\ call'[r].cursor = k
           /\ call'[r].load = conns[call[r].seen[k + 1]]
           /\ call'[r].best = call[r].best /\ call'[r].seen = call[r].seen
<1>1. /\ call[r] \in CallType /\ call[r].pc = "least" /\ k < Len(call[r].seen)
      /\ k \in 1..Len(call[r].seen)
  BY DEF TypeOK, LoadOther, CallInv, CallOK
<1>2. call[r].seen \in Seq(Backend) /\ conns \in [Backend -> Nat]
  BY <1>1 DEF CallType, TypeOK
<1>3. k \in 1..(Len(call[r].seen) - 1) /\ conns[call[r].seen[k + 1]] \in Nat
  BY <1>1, <1>2
<1> DEFINE h == [call[r] EXCEPT !.pc = "compare", !.load = conns[call[r].seen[k + 1]]]
<1>4. /\ h \in CallType /\ h.pc = "compare" /\ h.cursor = k /\ h.best = call[r].best
      /\ h.seen = call[r].seen /\ h.load = conns[call[r].seen[k + 1]]
  BY <1>1, <1>3 DEF CallType
<1>5. call' = [call EXCEPT ![r] = h]
  BY DEF LoadOther
<1> HIDE DEF h
<1>6. /\ call' \in [Reqs -> CallType] /\ call'[r] = h
      /\ \A q \in Reqs : q # r => call'[q] = call[q]
  BY <1>4, <1>5, Update DEF TypeOK
<1>7. UNCHANGED <<algorithm, alive, conns, counter, history>>
  BY DEF LoadOther
<1> QED BY <1>1, <1>3, <1>4, <1>6, <1>7 DEF Frame, history

LEMMA CompareEffect ==
    ASSUME TypeOK, CallInv, SeenInv, NEW r \in Reqs, Compare(r), NEW k, k = call[r].cursor
    PROVE  /\ Frame(r) /\ UNCHANGED <<conns, counter, history>>
           /\ call[r].pc = "compare" /\ k \in 1..(Len(call[r].seen) - 1)
           /\ call'[r].pc = "least" /\ call'[r].cursor = k + 1
           /\ call'[r].best = IF call[r].load < conns[call[r].best]
                              THEN call[r].seen[k + 1] ELSE call[r].best
           /\ call'[r].seen = call[r].seen
<1>1. /\ call[r] \in CallType /\ call[r].pc = "compare"
      /\ k \in 1..(Len(call[r].seen) - 1)
      /\ Len(call[r].seen) <= Len(Backends)
  BY DEF TypeOK, Compare, CallInv, CallOK, SeenInv
<1>2. call[r].seen \in Seq(Backend)
  BY <1>1 DEF CallType
<1>3. call[r].seen[k + 1] \in Backend /\ k + 1 \in 0..Len(Backends)
  <2> DEFINE s == call[r].seen
             n == Len(s)
  <2>1. s \in Seq(Backend) /\ n \in Nat /\ k \in 1..(n - 1) /\ n <= Len(Backends)
    BY <1>1, <1>2
  <2>2. \A i \in 1..n : s[i] \in Backend
    BY <2>1
  <2> HIDE DEF s, n
  <2>3. k + 1 \in 1..n /\ k + 1 \in 0..Len(Backends)
    BY <2>1, Widths
  <2> QED BY <2>2, <2>3 DEF s
<1> DEFINE best == IF call[r].load < conns[call[r].best] THEN call[r].seen[k + 1] ELSE call[r].best
           h == [call[r] EXCEPT !.pc = "least", !.cursor = k + 1, !.load = 0, !.best = best]
<1>4. best \in Backend \cup {None}
  BY <1>1, <1>3 DEF CallType
<1>5. call' = [call EXCEPT ![r] = h]
  BY DEF Compare
<1> HIDE DEF best
<1>6. /\ h \in CallType /\ h.pc = "least" /\ h.cursor = k + 1 /\ h.best = best
      /\ h.seen = call[r].seen
  BY <1>1, <1>3, <1>4 DEF CallType
<1> HIDE DEF h
<1>7. /\ call' \in [Reqs -> CallType] /\ call'[r] = h
      /\ \A q \in Reqs : q # r => call'[q] = call[q]
  BY <1>5, <1>6, Update DEF TypeOK
<1>8. UNCHANGED <<algorithm, alive, conns, counter, history>>
  BY DEF Compare
<1> QED BY <1>1, <1>6, <1>7, <1>8 DEF Frame, history, best

LEMMA PickLeastEffect ==
    ASSUME TypeOK, CallInv, NEW r \in Reqs, PickLeast(r)
    PROVE  /\ Frame(r) /\ UNCHANGED <<conns, counter, history>>
           /\ call[r].pc = "least" /\ call[r].cursor = Len(call[r].seen)
           /\ call[r].best \in Backend
           /\ call'[r].pc = "picked" /\ call'[r].best = call[r].best /\ call'[r].seen = call[r].seen
<1>1. call[r].pc = "least" /\ call[r].cursor = Len(call[r].seen) /\ call[r].seen \in Seq(Backend)
  BY DEF PickLeast, TypeOK, CallType
<1>2. call[r].best \in Backend
  BY <1>1 DEF CallInv, CallOK
<1>3. Return(r, call[r].best) /\ UNCHANGED <<algorithm, alive, conns, counter, history>>
  BY DEF PickLeast
<1>4. PICK b \in Backend : b = call[r].best
  BY <1>2
<1> QED BY <1>1, <1>3, <1>4, ReturnEffect DEF Frame, history

\* A call that ends.
LEMMA IdleEffect ==
    ASSUME TypeOK, NEW r \in Reqs, call' = [call EXCEPT ![r] = Idle],
           algorithm' = algorithm, alive' = alive,
           \/ UNCHANGED <<through, fresh>>
           \/ through' = [through EXCEPT ![r] = {}] /\ fresh' = [fresh EXCEPT ![r] = TRUE]
    PROVE  Frame(r) /\ call'[r] = Idle
<1>1. /\ call' \in [Reqs -> CallType] /\ call'[r] = Idle
      /\ \A q \in Reqs : q # r => call'[q] = call[q]
  BY IdleTyped, Update DEF TypeOK
<1>2. \A q \in Reqs : q # r => through'[q] = through[q] /\ fresh'[q] = fresh[q]
  BY DEF TypeOK
<1> QED BY <1>1, <1>2 DEF Frame

LEMMA IncEffect ==
    ASSUME TypeOK, CallInv, NEW r \in Reqs, Inc(r), NEW b, b = call[r].best
    PROVE  /\ Frame(r) /\ UNCHANGED <<counter, passed, home>>
           /\ call[r].pc = "picked" /\ b \in Backend
           /\ call'[r].pc = "serving" /\ call'[r].best = b /\ call'[r].seen = <<>>
           /\ conns' = [conns EXCEPT ![b] = @ + 1]
           /\ drift' = [Drifted(CountsMatter(Choosing \ {r})) EXCEPT ![r] = 0]
           /\ through' = [through EXCEPT ![r] = {}] /\ fresh' = [fresh EXCEPT ![r] = TRUE]
<1>1. call[r].pc = "picked" /\ b \in Backend
  BY DEF Inc, CallInv, CallOK
<1> DEFINE h == [Idle EXCEPT !.pc = "serving", !.best = b]
<1>2. h \in CallType /\ h.pc = "serving" /\ h.best = b /\ h.seen = <<>>
  BY <1>1, IdleTyped DEF CallType, Idle
<1>3. call' = [call EXCEPT ![r] = h]
  BY DEF Inc
<1> HIDE DEF h
<1>4. /\ call' \in [Reqs -> CallType] /\ call'[r] = h
      /\ \A q \in Reqs : q # r => call'[q] = call[q]
  BY <1>2, <1>3, Update DEF TypeOK
<1>5. /\ \A q \in Reqs : q # r => through'[q] = through[q] /\ fresh'[q] = fresh[q]
      /\ algorithm' = algorithm /\ alive' = alive
  BY DEF Inc, TypeOK
<1> QED BY <1>1, <1>2, <1>4, <1>5 DEF Frame, Inc

LEMMA PickRoundRobinEffect ==
    ASSUME TypeOK, NEW r \in Reqs, PickRoundRobin(r),
           NEW b, b = call[r].seen[(counter % Len(call[r].seen)) + 1]
    PROVE  /\ Frame(r) /\ UNCHANGED <<conns, through, fresh, drift, home>>
           /\ algorithm # "least_conn"
           /\ call[r].pc = "scan" /\ call[r].cursor = Len(Backends) /\ call[r].seen # <<>>
           /\ b \in Backend
           /\ call'[r].pc = "picked" /\ call'[r].best = b /\ call'[r].seen = call[r].seen
           /\ counter' = (counter + 1) % Modulus /\ TakeTurn(r, b)
<1>1. call[r].seen \in Seq(Backend) /\ call[r].seen # <<>> /\ counter \in Nat
  BY Widths DEF TypeOK, CallType, PickRoundRobin
<1>2. b \in Backend
  BY <1>1, PickTyped
<1>3. /\ Return(r, b) /\ TakeTurn(r, b) /\ counter' = (counter + 1) % Modulus
      /\ algorithm # "least_conn" /\ call[r].pc = "scan" /\ call[r].cursor = Len(Backends)
      /\ UNCHANGED <<algorithm, alive, conns, through, fresh, drift, home>>
  BY DEF PickRoundRobin, Scanned
<1> QED BY <1>1, <1>2, <1>3, ReturnEffect DEF Frame

LEMMA PickHashEffect ==
    ASSUME TypeOK, CallInv, NEW r \in Reqs, PickHash(r),
           NEW h, h = Hash[ClientIP(call[r].client, call[r].port)],
           NEW b, b = call[r].seen[(h % Len(call[r].seen)) + 1]
    PROVE  /\ Frame(r) /\ UNCHANGED <<conns, counter, through, fresh, drift, passed>>
           /\ algorithm # "least_conn" /\ h \in Nat
           /\ call[r].pc = "scan" /\ call[r].cursor = Len(Backends) /\ call[r].seen # <<>>
           /\ b \in Backend /\ call[r].client \in Clients
           /\ call'[r].pc = "picked" /\ call'[r].best = b /\ call'[r].seen = call[r].seen
           /\ home' = IF fresh[r] THEN [home EXCEPT ![call[r].client] = b] ELSE home
<1>1. /\ call[r].seen \in Seq(Backend) /\ call[r].seen # <<>>
      /\ algorithm = "ip_hash" /\ call[r].pc = "scan" /\ call[r].cursor = Len(Backends)
  BY DEF TypeOK, CallType, PickHash, Scanned
<1>2. call[r].client \in Clients /\ call[r].port \in Ports
  BY <1>1 DEF CallInv, CallOK
<1>3. h \in Nat
  BY <1>2, PoolAssumption, BalancerAssumption DEF ClientIP
<1>4. b \in Backend
  BY <1>1, <1>3, PickTyped
<1>5. /\ Return(r, b)
      /\ home' = IF fresh[r] THEN [home EXCEPT ![call[r].client] = b] ELSE home
      /\ UNCHANGED <<algorithm, alive, conns, counter, through, fresh, drift, passed>>
  BY DEF PickHash
<1> QED BY <1>1, <1>2, <1>3, <1>4, <1>5, ReturnEffect DEF Frame

\* A step of a handler is one of these, and those that end a call are alike.
Ends(r) == NoHealthyBackend(r) \/ CircuitOpen(r) \/ Dec(r)

LEMMA EndsEffect ==
    ASSUME TypeOK, NEW r \in Reqs, Ends(r)
    PROVE  /\ Frame(r) /\ call'[r] = Idle /\ UNCHANGED <<counter, passed, home>>
           /\ through'[r] = through[r] \/ through'[r] = {}
           /\ ~Dec(r) => conns' = conns /\ drift' = [drift EXCEPT ![r] = 0]
                         /\ call[r].pc \in {"scan", "picked"}
<1>1. CASE NoHealthyBackend(r)
  BY <1>1, IdleEffect DEF NoHealthyBackend, Forget, Scanned, TypeOK
<1>2. CASE CircuitOpen(r)
  BY <1>2, IdleEffect DEF CircuitOpen, Forget, TypeOK
<1>3. CASE Dec(r)
  BY <1>3, IdleEffect DEF Dec, TypeOK
<1> QED BY <1>1, <1>2, <1>3 DEF Ends

\* Beyond the scan nothing happens to what was seen.
LEMMA OtherEffect ==
    ASSUME TypeOK, CallInv, SeenInv, NEW r \in Reqs, Handle(r),
           ~ \E c \in Clients, p \in Ports : Begin(r, c, p), ~ Scan(r)
    PROVE  /\ Frame(r) /\ call'[r].pc # "scan"
           /\ call'[r].seen = call[r].seen \/ call'[r].seen = <<>>
           /\ through'[r] = through[r] \/ through'[r] = {}
<1>1. CASE Ends(r)
  BY <1>1, EndsEffect, IdleTyped
<1>2. CASE PickRoundRobin(r)
  BY <1>2, PickRoundRobinEffect
<1>3. CASE PickHash(r)
  BY <1>3, PickHashEffect
<1>4. CASE BeginLeast(r)
  BY <1>4, BeginLeastEffect DEF history
<1>5. CASE LoadOther(r)
  BY <1>5, LoadOtherEffect DEF history
<1>6. CASE Compare(r)
  BY <1>6, CompareEffect DEF history
<1>7. CASE PickLeast(r)
  BY <1>7, PickLeastEffect DEF history
<1>8. CASE Inc(r)
  <2>1. Frame(r) /\ call'[r].pc = "serving" /\ call'[r].seen = <<>>
        /\ through' = [through EXCEPT ![r] = {}]
    BY <1>8, IncEffect
  <2>2. through \in [Reqs -> SUBSET Backend]
    BY DEF TypeOK
  <2> QED BY <2>1, <2>2
<1> QED
  BY <1>1, <1>2, <1>3, <1>4, <1>5, <1>6, <1>7, <1>8 DEF Handle, Ends

-----------------------------------------------------------------------------
\* Type correctness

LEMMA DriftTyped ==
    ASSUME TypeOK, NEW S
    PROVE  MaxDrift \in Nat /\ Drifted(S) \in [Reqs -> 0..MaxDrift]
<1>1. MaxDrift \in Nat
  BY PoolAssumption, BalancerAssumption, FS_CardinalityType DEF MaxDrift
<1>2. \A q \in Reqs : drift[q] \in 0..MaxDrift
  BY DEF TypeOK
<1> QED BY <1>1, <1>2 DEF Drifted

\* There is no more to take away than handlers have added.
LEMMA Counts ==
    ASSUME CountInv, TypeOK, NEW b \in Backend
    PROVE  /\ IsFiniteSet(Serving(b)) /\ Cardinality(Serving(b)) \in Nat
           /\ \A r \in Serving(b) : Cardinality(Serving(b)) >= 1
           /\ conns[b] \in Nat /\ Cardinality(Serving(b)) <= conns[b] /\ conns[b] <= MaxDrift
<1>1. IsFiniteSet(Reqs) /\ Standing \in Nat
  BY PoolAssumption, BalancerAssumption
<1>2. Serving(b) \in SUBSET Reqs
  BY DEF Serving
<1>3. /\ IsFiniteSet(Serving(b)) /\ Cardinality(Serving(b)) <= Cardinality(Reqs)
      /\ Cardinality(Serving(b)) \in Nat /\ Cardinality(Reqs) \in Nat
  BY <1>1, <1>2, FS_Subset, FS_CardinalityType
<1>4. Serving(b) # {} => Cardinality(Serving(b)) # 0
  BY <1>3, FS_EmptySet
<1>5. \A r \in Serving(b) : Cardinality(Serving(b)) >= 1
  BY <1>3, <1>4
<1>6. conns[b] \in Nat /\ conns[b] - Cardinality(Serving(b)) \in 0..Standing
  BY DEF TypeOK, CountInv
<1> QED BY <1>1, <1>3, <1>5, <1>6 DEF MaxDrift

LEMMA HandleType ==
    ASSUME IInv, NEW r \in Reqs, Handle(r)
    PROVE  TypeOK'
<1>1. TypeOK /\ CallInv /\ SeenInv /\ CountInv
  BY DEF IInv
<1>2. CASE \E c \in Clients, p \in Ports : Begin(r, c, p)
  <2>1. PICK c \in Clients, p \in Ports : Begin(r, c, p)
    BY <1>2
  <2>2. /\ Frame(r) /\ UNCHANGED <<conns, counter, drift, passed, home>>
        /\ through' = [through EXCEPT ![r] = {b \in Backend : alive[b]}]
        /\ fresh' = [fresh EXCEPT ![r] = TRUE]
    BY <1>1, <2>1, BeginEffect
  <2> QED BY <1>1, <2>2 DEF TypeOK, Frame
<1>3. CASE Scan(r)
  <2>1. Frame(r) /\ UNCHANGED <<conns, counter, history>>
    BY <1>1, <1>3, ScanEffect
  <2> QED BY <1>1, <2>1 DEF TypeOK, Frame, history
<1>4. CASE NoHealthyBackend(r) \/ CircuitOpen(r)
  <2>1. /\ Frame(r) /\ UNCHANGED <<conns, counter, passed, home>>
        /\ through' = [through EXCEPT ![r] = {}] /\ fresh' = [fresh EXCEPT ![r] = TRUE]
        /\ drift' = [drift EXCEPT ![r] = 0]
    BY <1>1, <1>4, EndsEffect DEF Ends, NoHealthyBackend, CircuitOpen, Forget
  <2>2. 0 \in 0..MaxDrift
    BY <1>1, DriftTyped
  <2> QED BY <1>1, <2>1, <2>2 DEF TypeOK, Frame
<1>5. CASE Dec(r)
  <2>1. Frame(r) /\ UNCHANGED <<counter, passed, home, through, fresh>>
    BY <1>1, <1>5, EndsEffect DEF Ends, Dec
  <2>2. drift' \in [Reqs -> 0..MaxDrift]
    BY <1>1, <1>5, DriftTyped DEF Dec
  <2>3. PICK b : b = call[r].best
    OBVIOUS
  <2>4. r \in Serving(b) /\ b \in Backend /\ conns' = [conns EXCEPT ![b] = @ - 1]
    BY <1>1, <1>5, <2>3 DEF Dec, Serving, CallInv, CallOK
  <2>5. conns[b] \in Nat /\ conns[b] >= 1
    BY <1>1, <2>4, Counts
  <2>6. conns' \in [Backend -> Nat]
    BY <1>1, <2>4, <2>5 DEF TypeOK
  <2> QED BY <1>1, <2>1, <2>2, <2>6 DEF TypeOK, Frame
<1>6. CASE PickRoundRobin(r)
  <2>1. PICK b : b = call[r].seen[(counter % Len(call[r].seen)) + 1]
    OBVIOUS
  <2>2. /\ Frame(r) /\ UNCHANGED <<conns, through, fresh, drift, home>>
        /\ counter' = (counter + 1) % Modulus /\ TakeTurn(r, b)
    BY <1>1, <1>6, <2>1, PickRoundRobinEffect
  <2>3. counter' \in 0..(Modulus - 1)
    <3>1. counter + 1 \in Nat /\ Modulus \in Nat \ {0}
      BY <1>1, Widths DEF TypeOK
    <3> QED BY <2>2, <3>1, DivMod
  <2>4. passed' \in [Backend -> Nat]
    BY <1>1, <2>2 DEF TypeOK, TakeTurn
  <2> QED BY <1>1, <2>2, <2>3, <2>4 DEF TypeOK, Frame
<1>7. CASE PickHash(r)
  <2>1. PICK h : h = Hash[ClientIP(call[r].client, call[r].port)]
    OBVIOUS
  <2>2. PICK b : b = call[r].seen[(h % Len(call[r].seen)) + 1]
    OBVIOUS
  <2>3. /\ Frame(r) /\ UNCHANGED <<conns, counter, through, fresh, drift, passed>>
        /\ b \in Backend
        /\ home' = IF fresh[r] THEN [home EXCEPT ![call[r].client] = b] ELSE home
    BY <1>1, <1>7, <2>1, <2>2, PickHashEffect
  <2>4. home' \in [Clients -> Backend \cup {None}]
    BY <1>1, <2>3 DEF TypeOK
  <2> QED BY <1>1, <2>3, <2>4 DEF TypeOK, Frame
<1>8. CASE BeginLeast(r) \/ LoadOther(r) \/ Compare(r) \/ PickLeast(r)
  <2>1. Frame(r) /\ UNCHANGED <<conns, counter, history>>
    BY <1>1, <1>8, BeginLeastEffect, LoadOtherEffect, CompareEffect, PickLeastEffect
  <2> QED BY <1>1, <2>1 DEF TypeOK, Frame, history
<1>9. CASE Inc(r)
  <2>1. PICK b : b = call[r].best
    OBVIOUS
  <2>2. /\ Frame(r) /\ UNCHANGED <<counter, passed, home>> /\ b \in Backend
        /\ conns' = [conns EXCEPT ![b] = @ + 1]
        /\ drift' = [Drifted(CountsMatter(Choosing \ {r})) EXCEPT ![r] = 0]
        /\ through' = [through EXCEPT ![r] = {}] /\ fresh' = [fresh EXCEPT ![r] = TRUE]
    BY <1>1, <1>9, <2>1, IncEffect
  <2>3. drift' \in [Reqs -> 0..MaxDrift]
    <3>1. 0 \in 0..MaxDrift
      BY <1>1, DriftTyped
    <3> QED BY <1>1, <2>2, <3>1, DriftTyped
  <2>4. conns' \in [Backend -> Nat]
    BY <1>1, <2>2 DEF TypeOK
  <2> QED BY <1>1, <2>2, <2>3, <2>4 DEF TypeOK, Frame
<1> QED BY <1>2, <1>3, <1>4, <1>5, <1>6, <1>7, <1>8, <1>9 DEF Handle

-----------------------------------------------------------------------------
\* The scan

\* What a call has seen is kept, or forgotten, by steps that are not of its scan.
LEMMA OtherScan ==
    ASSUME IInv, NEW r \in Reqs, Handle(r),
           ~ \E c \in Clients, p \in Ports : Begin(r, c, p), ~ Scan(r)
    PROVE  ScanInv' /\ SeenInv' /\ FreshInv'
<1>1. TypeOK /\ CallInv /\ SeenInv /\ ScanInv /\ FreshInv
  BY DEF IInv
<1>2. /\ Frame(r) /\ call'[r].pc # "scan"
      /\ call'[r].seen = call[r].seen \/ call'[r].seen = <<>>
      /\ through'[r] = through[r] \/ through'[r] = {}
  BY <1>1, OtherEffect
<1>3. ScanInv'
  BY <1>1, <1>2 DEF ScanInv, Frame
<1>4. SeenInv'
  <2>1. DOMAIN <<>> = {} /\ Len(<<>>) <= Len(Backends)
    BY Widths
  <2> QED BY <1>1, <1>2, <2>1 DEF SeenInv, Frame
<1>5. FreshInv'
  <2>1. \A i : Live(i)' = Live(i) /\ Rank(i)' = Rank(i)
    BY <1>2 DEF Live, Rank, Frame
  <2> QED BY <1>1, <1>2, <2>1 DEF FreshInv, Frame
<1> QED BY <1>3, <1>4, <1>5

LEMMA BeginScan ==
    ASSUME IInv, NEW r \in Reqs, NEW c \in Clients, NEW p \in Ports, Begin(r, c, p)
    PROVE  ScanInv' /\ SeenInv' /\ FreshInv'
<1>1. TypeOK /\ SeenInv /\ ScanInv /\ FreshInv
  BY DEF IInv
<1>2. /\ Frame(r) /\ call'[r].cursor = 0 /\ call'[r].seen = <<>>
      /\ through' = [through EXCEPT ![r] = {b \in Backend : alive[b]}]
  BY <1>1, BeginEffect
<1>3. through'[r] = {b \in Backend : alive[b]}
  BY <1>1, <1>2 DEF TypeOK
<1>4. DOMAIN <<>> = {} /\ Len(<<>>) = 0 /\ 0 <= Len(Backends) /\ 1..0 = {}
  BY Widths
<1>5. ScanInv'
  BY <1>1, <1>2, <1>3, <1>4 DEF ScanInv, Frame
<1>6. SeenInv'
  BY <1>1, <1>2, <1>4 DEF SeenInv, Frame
<1>7. Live(0) = {} /\ Cardinality(Live(0)) = 0
  BY <1>4, FS_EmptySet DEF Live
<1>8. FreshInv'
  <2>1. \A i : Live(i)' = Live(i) /\ Rank(i)' = Rank(i)
    BY <1>2 DEF Live, Rank, Frame
  <2> SUFFICES ASSUME NEW q \in Reqs, call'[q].pc = "scan", fresh'[q]
               PROVE  /\ Len(call'[q].seen) = Cardinality(Live(call'[q].cursor))
                      /\ \A i \in Live(call'[q].cursor) :
                            call'[q].seen[Rank(i) + 1] = Backends[i]
                      /\ \A m \in DOMAIN call'[q].seen :
                            \E i \in Live(call'[q].cursor) :
                                call'[q].seen[m] = Backends[i] /\ Rank(i) = m - 1
    BY <2>1 DEF FreshInv
  <2>2. CASE q = r
    <3>1. /\ Len(call'[q].seen) = 0 /\ DOMAIN call'[q].seen = {}
          /\ call'[q].cursor = 0
      BY <1>2, <1>4, <2>2
    <3> QED BY <1>7, <3>1
  <2>3. CASE q # r
    <3>1. call'[q] = call[q] /\ call[q].pc = "scan" /\ fresh[q]
      BY <1>2, <2>3 DEF Frame
    <3>2. /\ Len(call[q].seen) = Cardinality(Live(call[q].cursor))
          /\ \A i \in Live(call[q].cursor) : call[q].seen[Rank(i) + 1] = Backends[i]
          /\ \A m \in DOMAIN call[q].seen :
                \E i \in Live(call[q].cursor) :
                    call[q].seen[m] = Backends[i] /\ Rank(i) = m - 1
      BY <1>1, <3>1 DEF FreshInv
    <3> QED BY <3>1, <3>2
  <2> QED BY <2>2, <2>3
<1> QED BY <1>5, <1>6, <1>8

\* The loop moves on by one flag: what is alive now is seen, and what has been
\* alive throughout is alive now.
LEMMA ScanScan ==
    ASSUME IInv, NEW r \in Reqs, Scan(r)
    PROVE  ScanInv' /\ SeenInv' /\ FreshInv'
<1>1. TypeOK /\ SeenInv /\ ScanInv /\ FreshInv
  BY DEF IInv
<1>2. PICK k : k = call[r].cursor + 1
  OBVIOUS
<1>3. PICK b : b = Backends[k]
  OBVIOUS
<1>4. /\ Frame(r) /\ UNCHANGED <<through, fresh>>
      /\ k \in 1..Len(Backends) /\ b \in Backend
      /\ call[r].pc = "scan" /\ call'[r].cursor = k
      /\ call'[r].seen = IF alive[b] THEN Append(call[r].seen, b) ELSE call[r].seen
  BY <1>1, <1>2, <1>3, ScanEffect DEF history
<1> DEFINE s == call[r].seen
           n == Len(s)
<1>5. s \in Seq(Backend) /\ n \in Nat /\ DOMAIN s = 1..n /\ call[r].cursor \in Nat
      /\ call[r].cursor = k - 1 /\ k \in Nat /\ k - 1 \in Nat /\ Len(Backends) \in Nat
  <2>1. s \in Seq(Backend) /\ call[r].cursor \in Nat /\ Len(Backends) \in Nat
    BY <1>1, Widths DEF TypeOK, CallType
  <2>2. call[r].cursor = k - 1 /\ k \in Nat /\ k - 1 \in Nat
    BY <1>2, <2>1
  <2> QED BY <2>1, <2>2
<1>6. /\ \A i, j \in 1..n : s[i] = s[j] => i = j
      /\ n <= k - 1
      /\ \A m \in 1..n : \E i \in 1..(k - 1) : s[m] = Backends[i]
  BY <1>1, <1>4, <1>5 DEF SeenInv
<1>7. \A i \in 1..(k - 1) : Backends[i] \in through[r] => \E m \in 1..n : s[m] = Backends[i]
  <2>1. \A i \in 1..call[r].cursor : Backends[i] \in through[r] =>
           \E m \in DOMAIN call[r].seen : call[r].seen[m] = Backends[i]
    BY <1>1, <1>4 DEF ScanInv
  <2> QED BY <1>5, <2>1
<1>8. fresh[r] =>
        /\ n = Cardinality(Live(k - 1))
        /\ \A i \in Live(k - 1) : s[Rank(i) + 1] = Backends[i]
        /\ \A m \in 1..n : \E i \in Live(k - 1) : s[m] = Backends[i] /\ Rank(i) = m - 1
  BY <1>1, <1>4, <1>5 DEF FreshInv
<1>9. /\ Live(k) = IF alive[b] THEN Live(k - 1) \cup {k} ELSE Live(k - 1)
      /\ Cardinality(Live(k)) = IF alive[b] THEN Cardinality(Live(k - 1)) + 1
                                ELSE Cardinality(Live(k - 1))
  <2>1. PICK j \in Nat : j = k - 1
    BY <1>5
  <2>2. j + 1 = k
    BY <1>5, <2>1
  <2> QED BY <1>3, <2>1, <2>2, LiveNext
<1>10. \A i : Live(i)' = Live(i) /\ Rank(i)' = Rank(i)
  BY <1>4 DEF Live, Rank, Frame
<1>11. \A q \in Reqs : \A c \in through'[q] : alive'[c]
  BY <1>1, <1>4 DEF ScanInv, Frame
<1>12. CASE alive[b]
  <2> DEFINE t == Append(s, b)
  <2>1. call'[r].seen = t
    BY <1>4, <1>12
  <2>2. /\ t \in Seq(Backend) /\ Len(t) = n + 1 /\ DOMAIN t = 1..(n + 1)
        /\ t[n + 1] = b /\ \A m \in 1..n : t[m] = s[m]
    BY <1>4, <1>5
  <2> HIDE DEF t, s, n
  <2>3. \A m \in 1..n : s[m] # b
    <3> SUFFICES ASSUME NEW m \in 1..n, s[m] = b PROVE FALSE
      OBVIOUS
    <3>1. PICK i \in 1..(k - 1) : s[m] = Backends[i]
      BY <1>6
    <3>2. i \in 1..Len(Backends) /\ i # k
      BY <1>4, <1>5
    <3> QED BY <1>3, <1>4, <3>1, <3>2, BackendsTyped
  <2>4. \A i, j \in 1..(n + 1) : t[i] = t[j] => i = j
    <3> TAKE i, j \in 1..(n + 1)
    <3> HAVE t[i] = t[j]
    <3>1. (i \in 1..n \/ i = n + 1) /\ (j \in 1..n \/ j = n + 1)
      BY <1>5
    <3> QED BY <1>6, <2>2, <2>3, <3>1
  <2>5. \A m \in 1..(n + 1) : \E i \in 1..k : t[m] = Backends[i]
    <3> TAKE m \in 1..(n + 1)
    <3>1. CASE m \in 1..n
      <4>1. PICK i \in 1..(k - 1) : s[m] = Backends[i]
        BY <1>6, <3>1
      <4>2. i \in 1..k
        BY <1>5
      <4> QED BY <2>2, <3>1, <4>1, <4>2
    <3>2. CASE m = n + 1
      <4>1. k \in 1..k
        BY <1>4, <1>5
      <4> QED BY <1>3, <2>2, <3>2, <4>1
    <3>3. m \in 1..n \/ m = n + 1
      BY <1>5
    <3> QED BY <3>1, <3>2, <3>3
  <2>6. n + 1 <= k /\ n + 1 <= Len(Backends)
    BY <1>4, <1>5, <1>6
  <2>7. \A i \in 1..k : Backends[i] \in through[r] => \E m \in 1..(n + 1) : t[m] = Backends[i]
    <3> TAKE i \in 1..k
    <3> HAVE Backends[i] \in through[r]
    <3>1. CASE i \in 1..(k - 1)
      <4>1. PICK m \in 1..n : s[m] = Backends[i]
        BY <1>7, <3>1
      <4>2. m \in 1..(n + 1)
        BY <1>5
      <4> QED BY <2>2, <4>1, <4>2
    <3>2. CASE i = k
      <4>1. n + 1 \in 1..(n + 1)
        BY <1>5
      <4> QED BY <1>3, <2>2, <3>2, <4>1
    <3>3. i \in 1..(k - 1) \/ i = k
      BY <1>5
    <3> QED BY <3>1, <3>2, <3>3
  <2>8. ASSUME fresh[r]
        PROVE  /\ n + 1 = Cardinality(Live(k))
               /\ \A i \in Live(k) : t[Rank(i) + 1] = Backends[i]
               /\ \A m \in 1..(n + 1) : \E i \in Live(k) : t[m] = Backends[i] /\ Rank(i) = m - 1
    <3>1. n + 1 = Cardinality(Live(k)) /\ Rank(k) = n /\ k \in Live(k)
      BY <1>8, <1>9, <1>12, <2>8 DEF Rank
    <3>2. ASSUME NEW i \in Live(k) PROVE t[Rank(i) + 1] = Backends[i]
      <4>1. CASE i = k
        BY <1>3, <2>2, <3>1, <4>1
      <4>2. CASE i \in Live(k - 1)
        <5>1. Rank(i) \in 0..(n - 1)
          BY <1>5, <1>8, <2>8, <4>2, RankBound
        <5>2. Rank(i) + 1 \in 1..n
          BY <1>5, <5>1
        <5> QED BY <1>8, <2>2, <2>8, <4>2, <5>2
      <4> QED BY <1>9, <1>12, <4>1, <4>2
    <3>3. ASSUME NEW m \in 1..(n + 1)
          PROVE  \E i \in Live(k) : t[m] = Backends[i] /\ Rank(i) = m - 1
      <4>1. CASE m \in 1..n
        <5>1. PICK i \in Live(k - 1) : s[m] = Backends[i] /\ Rank(i) = m - 1
          BY <1>8, <2>8, <4>1
        <5>2. i \in Live(k)
          BY <1>9, <1>12
        <5> QED BY <2>2, <4>1, <5>1, <5>2
      <4>2. CASE m = n + 1
        <5>1. n = m - 1
          BY <1>5, <4>2
        <5> QED BY <1>3, <2>2, <3>1, <4>2, <5>1
      <4>3. m \in 1..n \/ m = n + 1
        BY <1>5
      <4> QED BY <4>1, <4>2, <4>3
    <3> QED BY <3>1, <3>2, <3>3
  <2>9. ScanInv'
    BY <1>1, <1>4, <1>11, <2>1, <2>2, <2>7 DEF ScanInv, Frame
  <2>10. SeenInv'
    <3> SUFFICES ASSUME NEW q \in Reqs
                 PROVE  (/\ \A i, j \in DOMAIN call[q].seen : call[q].seen[i] = call[q].seen[j] => i = j
                         /\ Len(call[q].seen) <= Len(Backends)
                         /\ call[q].pc = "scan" =>
                               /\ Len(call[q].seen) <= call[q].cursor
                               /\ \A m \in DOMAIN call[q].seen :
                                     \E i \in 1..call[q].cursor : call[q].seen[m] = Backends[i])'
      BY DEF SeenInv
    <3>1. CASE q = r
      <4>1. /\ DOMAIN call'[r].seen = 1..(n + 1) /\ Len(call'[r].seen) = n + 1
            /\ call'[r].cursor = k
        BY <1>4, <2>1, <2>2
      <4>2. /\ \A i, j \in 1..(n + 1) : call'[r].seen[i] = call'[r].seen[j] => i = j
            /\ \A m \in 1..(n + 1) : \E i \in 1..k : call'[r].seen[m] = Backends[i]
        BY <2>1, <2>4, <2>5
      <4> QED BY <2>6, <3>1, <4>1, <4>2
    <3>2. CASE q # r
      <4>1. call'[q] = call[q]
        BY <1>4, <3>2 DEF Frame
      <4> QED BY <1>1, <4>1 DEF SeenInv
    <3> QED BY <3>1, <3>2
  <2>11. FreshInv'
    BY <1>1, <1>4, <1>10, <2>1, <2>2, <2>8 DEF FreshInv, Frame
  <2> QED BY <2>9, <2>10, <2>11
<1>13. CASE ~alive[b]
  <2>1. call'[r].seen = s
    BY <1>4, <1>13
  <2> HIDE DEF s, n
  <2>2. 1..(k - 1) \subseteq 1..k /\ \A i \in 1..k : i \in 1..(k - 1) \/ i = k
    BY <1>5
  <2>3. b \notin through[r]
    BY <1>1, <1>13 DEF ScanInv
  <2>4. \A i \in 1..k : Backends[i] \in through[r] => \E m \in 1..n : s[m] = Backends[i]
    BY <1>3, <1>7, <2>2, <2>3
  <2>5. ScanInv'
    <3>1. \A q \in Reqs : \A d \in through'[q] : alive'[d]
      BY <1>1, <1>4 DEF ScanInv, Frame
    <3>2. ASSUME NEW q \in Reqs, call'[q].pc = "scan"
          PROVE  \A i \in 1..call'[q].cursor : Backends[i] \in through'[q] =>
                    \E m \in DOMAIN call'[q].seen : call'[q].seen[m] = Backends[i]
      <4>1. CASE q = r
        <5>1. call'[r].seen = s /\ DOMAIN s = 1..n
          BY <1>5, <2>1
        <5>2. call'[r].cursor = k /\ through'[r] = through[r]
          BY <1>4
        <5> QED BY <2>4, <4>1, <5>1, <5>2
      <4>2. CASE q # r
        <5>1. call'[q] = call[q] /\ through'[q] = through[q]
          BY <1>4, <4>2 DEF Frame
        <5> QED BY <1>1, <3>2, <5>1 DEF ScanInv
      <4> QED BY <4>1, <4>2
    <3> QED BY <3>1, <3>2 DEF ScanInv
  <2>6. n <= k /\ n <= Len(Backends) /\ \A m \in 1..n : \E i \in 1..k : s[m] = Backends[i]
    <3>1. n <= k /\ n <= Len(Backends)
      BY <1>4, <1>5, <1>6
    <3> QED BY <1>6, <2>2, <3>1
  <2>7. SeenInv'
    <3> SUFFICES ASSUME NEW q \in Reqs
                 PROVE  (/\ \A i, j \in DOMAIN call[q].seen : call[q].seen[i] = call[q].seen[j] => i = j
                         /\ Len(call[q].seen) <= Len(Backends)
                         /\ call[q].pc = "scan" =>
                               /\ Len(call[q].seen) <= call[q].cursor
                               /\ \A m \in DOMAIN call[q].seen :
                                     \E i \in 1..call[q].cursor : call[q].seen[m] = Backends[i])'
      BY DEF SeenInv
    <3>1. CASE q = r
      <4>1. DOMAIN s = 1..n /\ Len(s) = n
        BY <1>5 DEF n
      <4>2. call'[q].seen = s /\ call'[q].cursor = k
        BY <1>4, <2>1, <3>1
      <4>3. \A i, j \in DOMAIN call'[q].seen : call'[q].seen[i] = call'[q].seen[j] => i = j
        BY <1>6, <4>1, <4>2
      <4> QED BY <2>6, <4>1, <4>2, <4>3
    <3>2. CASE q # r
      <4>1. call'[q] = call[q]
        BY <1>4, <3>2 DEF Frame
      <4> QED BY <1>1, <4>1 DEF SeenInv
    <3> QED BY <3>1, <3>2
  <2>8. FreshInv'
    BY <1>1, <1>4, <1>5, <1>8, <1>9, <1>10, <1>13, <2>1 DEF FreshInv, Frame, n
  <2> QED BY <2>5, <2>7, <2>8
<1> QED BY <1>12, <1>13

\* A backend that dies leaves every call's set, and no call that is under way is
\* fresh any more.
LEMMA FlipScan ==
    ASSUME IInv, NEW b \in Backend, Flip(b)
    PROVE  ScanInv' /\ SeenInv' /\ FreshInv'
<1>1. /\ call' = call /\ alive' \in [Backend -> BOOLEAN]
      /\ alive'[b] = ~alive[b]
      /\ \A c \in Backend : c # b => alive'[c] = alive[c]
  BY DEF IInv, TypeOK, Flip
<1>2. /\ through' \in [Reqs -> SUBSET Backend]
      /\ \A q \in Reqs : through'[q] \subseteq through[q] /\ (alive[b] => b \notin through'[q])
  BY DEF IInv, TypeOK, Flip
<1>3. \A q \in Reqs : \A c \in through'[q] : alive'[c]
  <2> TAKE q \in Reqs
  <2> TAKE c \in through'[q]
  <2>1. c \in Backend /\ c \in through[q] /\ alive[c]
    BY <1>2 DEF IInv, ScanInv
  <2>2. c # b
    BY <1>2, <2>1
  <2> QED BY <1>1, <2>1, <2>2
<1>4. ScanInv'
  BY <1>1, <1>2, <1>3 DEF IInv, ScanInv
<1>5. SeenInv'
  BY <1>1 DEF IInv, SeenInv
<1>6. \A q \in Reqs : call[q].pc = "scan" => ~fresh'[q]
  BY DEF Flip
<1>7. FreshInv'
  BY <1>1, <1>6 DEF FreshInv
<1> QED BY <1>4, <1>5, <1>7

-----------------------------------------------------------------------------
\* The locals and the counts

LEMMA HandleCall ==
    ASSUME IInv, NEW r \in Reqs, Handle(r)
    PROVE  CallInv'
<1>1. TypeOK /\ CallInv /\ SeenInv /\ CallOK(r)
  BY DEF IInv, CallInv
<1>2. ASSUME Frame(r), CallOK(r)' PROVE CallInv'
  BY <1>1, <1>2 DEF CallInv, CallOK, Frame
<1>3. CASE \E c \in Clients, p \in Ports : Begin(r, c, p)
  <2>1. PICK c \in Clients, p \in Ports : Begin(r, c, p)
    BY <1>3
  <2>2. /\ Frame(r) /\ call'[r].pc = "scan"
        /\ algorithm = "ip_hash" => call'[r].client = c /\ call'[r].port = p
    BY <1>1, <2>1, BeginEffect
  <2> QED BY <1>2, <2>2 DEF CallOK, Frame
<1>4. CASE Scan(r)
  <2>1. /\ Frame(r) /\ call[r].pc = "scan" /\ call'[r].pc = "scan"
        /\ call'[r].client = call[r].client /\ call'[r].port = call[r].port
    BY <1>1, <1>4, ScanEffect
  <2> QED BY <1>1, <1>2, <2>1 DEF CallOK, Frame
<1>5. CASE Ends(r)
  <2>1. Frame(r) /\ call'[r].pc = "idle"
    BY <1>1, <1>5, EndsEffect, IdleTyped
  <2> QED BY <1>2, <2>1 DEF CallOK
<1>6. CASE PickRoundRobin(r) \/ PickHash(r)
  <2>1. Frame(r) /\ call'[r].pc = "picked" /\ call'[r].best \in Backend
    BY <1>1, <1>6, PickRoundRobinEffect, PickHashEffect
  <2> QED BY <1>2, <2>1 DEF CallOK
<1>7. CASE BeginLeast(r)
  <2>1. /\ Frame(r) /\ Len(call[r].seen) >= 1 /\ call'[r].pc = "least" /\ call'[r].cursor = 1
        /\ call'[r].best = call[r].seen[1] /\ call'[r].seen = call[r].seen
    BY <1>1, <1>7, BeginLeastEffect
  <2>2. Len(call[r].seen) \in Nat
    BY <1>1 DEF TypeOK, CallType
  <2>3. 1 \in 1..Len(call[r].seen) /\ 1 \in 1..1
    BY <2>1, <2>2
  <2> QED BY <1>2, <2>1, <2>3 DEF CallOK
<1>8. CASE LoadOther(r)
  <2>1. /\ Frame(r) /\ call[r].pc = "least" /\ call'[r].pc = "compare"
        /\ call'[r].cursor = call[r].cursor /\ call[r].cursor \in 1..(Len(call[r].seen) - 1)
        /\ call'[r].best = call[r].best /\ call'[r].seen = call[r].seen
    BY <1>1, <1>8, LoadOtherEffect
  <2> QED BY <1>1, <1>2, <2>1 DEF CallOK
<1>9. CASE Compare(r)
  <2>1. PICK k : k = call[r].cursor
    OBVIOUS
  <2>2. /\ Frame(r) /\ call[r].pc = "compare" /\ call'[r].pc = "least"
        /\ call'[r].cursor = k + 1 /\ k \in 1..(Len(call[r].seen) - 1)
        /\ call'[r].best \in {call[r].seen[k + 1], call[r].best} /\ call'[r].seen = call[r].seen
    BY <1>1, <1>9, <2>1, CompareEffect
  <2>3. PICK j \in 1..k : call[r].best = call[r].seen[j]
    BY <1>1, <2>1, <2>2 DEF CallOK
  <2>4. Len(call[r].seen) \in Nat
    BY <1>1 DEF TypeOK, CallType
  <2>5. j \in 1..(k + 1) /\ k + 1 \in 1..(k + 1) /\ k + 1 \in 1..Len(call[r].seen)
    BY <2>2, <2>3, <2>4
  <2> QED BY <1>2, <2>2, <2>3, <2>5 DEF CallOK
<1>10. CASE PickLeast(r)
  <2>1. Frame(r) /\ call'[r].pc = "picked" /\ call'[r].best \in Backend
    BY <1>1, <1>10, PickLeastEffect
  <2> QED BY <1>2, <2>1 DEF CallOK
<1>11. CASE Inc(r)
  <2>1. Frame(r) /\ call'[r].pc = "serving" /\ call'[r].best \in Backend
    BY <1>1, <1>11, IncEffect
  <2> QED BY <1>2, <2>1 DEF CallOK
<1> QED
  BY <1>3, <1>4, <1>5, <1>6, <1>7, <1>8, <1>9, <1>10, <1>11 DEF Handle, Ends

\* Only Inc and Dec change a count, or who is served.
LEMMA QuietEffect ==
    ASSUME TypeOK, CallInv, SeenInv, NEW r \in Reqs, Handle(r), ~Inc(r), ~Dec(r)
    PROVE  /\ Frame(r) /\ conns' = conns
           /\ call[r].pc # "serving" /\ call'[r].pc # "serving"
           /\ \A q \in Reqs : q # r => drift'[q] = drift[q]
<1>1. CASE \E c \in Clients, p \in Ports : Begin(r, c, p)
  BY <1>1, BeginEffect
<1>2. CASE Scan(r)
  BY <1>2, ScanEffect DEF history
<1>3. CASE NoHealthyBackend(r) \/ CircuitOpen(r)
  <2>1. /\ Frame(r) /\ call'[r] = Idle /\ conns' = conns /\ drift' = [drift EXCEPT ![r] = 0]
        /\ call[r].pc \in {"scan", "picked"}
    BY <1>3, EndsEffect DEF Ends
  <2> QED BY <2>1, IdleTyped DEF TypeOK
<1>4. CASE PickRoundRobin(r) \/ PickHash(r)
  BY <1>4, PickRoundRobinEffect, PickHashEffect
<1>5. CASE BeginLeast(r) \/ LoadOther(r) \/ Compare(r) \/ PickLeast(r)
  BY <1>5, BeginLeastEffect, LoadOtherEffect, CompareEffect, PickLeastEffect DEF history
<1> QED BY <1>1, <1>2, <1>3, <1>4, <1>5 DEF Handle

LEMMA HandleCount ==
    ASSUME IInv, NEW r \in Reqs, Handle(r)
    PROVE  CountInv'
<1>1. TypeOK /\ CallInv /\ SeenInv /\ CountInv
  BY DEF IInv
<1>2. CASE Inc(r)
  <2>1. PICK b : b = call[r].best
    OBVIOUS
  <2>2. /\ Frame(r) /\ call[r].pc = "picked" /\ b \in Backend
        /\ call'[r].pc = "serving" /\ call'[r].best = b /\ conns' = [conns EXCEPT ![b] = @ + 1]
    BY <1>1, <1>2, <2>1, IncEffect
  <2> SUFFICES ASSUME NEW c \in Backend
               PROVE  conns'[c] - Cardinality(Serving(c)') \in 0..Standing
    BY DEF CountInv
  <2>3. /\ IsFiniteSet(Serving(c)) /\ Cardinality(Serving(c)) \in Nat /\ conns[c] \in Nat
        /\ conns[c] - Cardinality(Serving(c)) \in 0..Standing
    BY <1>1, Counts DEF CountInv
  <2>4. CASE c = b
    <3>1. Serving(c)' = Serving(c) \cup {r} /\ r \notin Serving(c)
      BY <2>2, <2>4 DEF Serving, Frame
    <3>2. Cardinality(Serving(c)') = Cardinality(Serving(c)) + 1
      BY <2>3, <3>1, FS_AddElement
    <3>3. conns'[c] = conns[c] + 1
      BY <1>1, <2>2, <2>4 DEF TypeOK
    <3> QED BY <2>3, <3>2, <3>3
  <2>5. CASE c # b
    <3>1. Serving(c)' = Serving(c)
      BY <2>2, <2>5 DEF Serving, Frame
    <3>2. conns'[c] = conns[c]
      BY <1>1, <2>2, <2>5 DEF TypeOK
    <3> QED BY <2>3, <3>1, <3>2
  <2> QED BY <2>4, <2>5
<1>3. CASE Dec(r)
  <2>1. PICK b : b = call[r].best
    OBVIOUS
  <2>2. /\ Frame(r) /\ call[r].pc = "serving" /\ b \in Backend
        /\ call'[r].pc = "idle" /\ conns' = [conns EXCEPT ![b] = @ - 1]
    BY <1>1, <1>3, <2>1, EndsEffect, IdleTyped DEF Ends, Dec, CallInv, CallOK
  <2> SUFFICES ASSUME NEW c \in Backend
               PROVE  conns'[c] - Cardinality(Serving(c)') \in 0..Standing
    BY DEF CountInv
  <2>3. /\ IsFiniteSet(Serving(c)) /\ Cardinality(Serving(c)) \in Nat /\ conns[c] \in Nat
        /\ conns[c] - Cardinality(Serving(c)) \in 0..Standing
    BY <1>1, Counts DEF CountInv
  <2>4. CASE c = b
    <3>1. Serving(c)' = Serving(c) \ {r} /\ r \in Serving(c)
      BY <2>1, <2>2, <2>4 DEF Serving, Frame
    <3>2. Cardinality(Serving(c)') = Cardinality(Serving(c)) - 1
      BY <2>3, <3>1, FS_RemoveElement
    <3>3. conns'[c] = conns[c] - 1
      BY <1>1, <2>2, <2>4 DEF TypeOK
    <3> QED BY <2>3, <3>2, <3>3
  <2>5. CASE c # b
    <3>1. Serving(c)' = Serving(c)
      BY <2>1, <2>2, <2>5 DEF Serving, Frame
    <3>2. conns'[c] = conns[c]
      BY <1>1, <2>2, <2>5 DEF TypeOK
    <3> QED BY <2>3, <3>1, <3>2
  <2> QED BY <2>4, <2>5
<1>4. CASE ~Inc(r) /\ ~Dec(r)
  <2>1. Frame(r) /\ conns' = conns /\ call[r].pc # "serving" /\ call'[r].pc # "serving"
    BY <1>1, <1>4, QuietEffect
  <2>2. \A b \in Backend : Serving(b)' = Serving(b)
    BY <2>1 DEF Serving, Frame
  <2> QED BY <1>1, <2>1, <2>2 DEF CountInv
<1> QED BY <1>2, <1>3, <1>4

-----------------------------------------------------------------------------
\* Least connections

\* The backends that a comparison is about are backends, and the new one is none of
\* the others.
LEMMA Compared ==
    ASSUME TypeOK, CallInv, SeenInv, NEW r \in Reqs, call[r].pc \in {"least", "compare", "picked"}
    PROVE  /\ call[r].best \in Backend /\ call[r].seen \in Seq(Backend)
           /\ \A j \in DOMAIN call[r].seen : call[r].seen[j] \in Backend
           /\ call[r].pc \in {"least", "compare"} => 1..call[r].cursor \subseteq DOMAIN call[r].seen
           /\ call[r].pc = "compare" =>
                 LET new == call[r].seen[call[r].cursor + 1]
                 IN  /\ new \in Backend /\ new # call[r].best
                     /\ \A j \in 1..call[r].cursor : new # call[r].seen[j]
<1> DEFINE s == call[r].seen
           k == call[r].cursor
<1>1. s \in Seq(Backend) /\ Len(s) \in Nat /\ DOMAIN s = 1..Len(s) /\ k \in Nat
  BY Widths DEF TypeOK, CallType
<1>2. \A i, j \in 1..Len(s) : s[i] = s[j] => i = j
  BY <1>1 DEF SeenInv
<1>3. call[r].pc \in {"least", "compare"} =>
        k \in 1..Len(s) /\ \E j \in 1..k : call[r].best = s[j]
  BY <1>1 DEF CallInv, CallOK
<1>4. call[r].pc = "picked" => call[r].best \in Backend
  BY DEF CallInv, CallOK
<1>5. call[r].pc = "compare" => k + 1 \in 1..Len(s) /\ k + 1 \notin 1..k
  BY <1>1 DEF CallInv, CallOK
<1> HIDE DEF s, k
<1>6. \A j \in 1..Len(s) : s[j] \in Backend
  BY <1>1
<1>7. call[r].pc \in {"least", "compare"} => 1..k \subseteq 1..Len(s)
  BY <1>1, <1>3
<1>8. call[r].best \in Backend
  BY <1>3, <1>4, <1>6, <1>7
<1>9. call[r].pc = "compare" => /\ s[k + 1] \in Backend /\ s[k + 1] # call[r].best
                                /\ \A j \in 1..k : s[k + 1] # s[j]
  BY <1>2, <1>3, <1>5, <1>6, <1>7
<1> QED BY <1>1, <1>6, <1>7, <1>8, <1>9 DEF s, k

\* Where the drift has reached its bound, nothing is far from anything.
Far ==
    \A r \in Reqs : drift[r] = MaxDrift =>
        \A b, c \in Backend : conns[b] <= conns[c] + drift[r]

LEMMA FarDrift == TypeOK /\ CountInv => Far
<1> SUFFICES ASSUME TypeOK, CountInv, NEW r \in Reqs, drift[r] = MaxDrift,
                    NEW b \in Backend, NEW c \in Backend
             PROVE  conns[b] <= conns[c] + drift[r]
  BY DEF Far
<1>1. conns[b] \in Nat /\ conns[b] <= MaxDrift /\ conns[c] \in Nat
  BY Counts
<1>2. MaxDrift \in Nat
  BY DriftTyped
<1> QED BY <1>1, <1>2

\* A count changes by one under a handler that is choosing, and so does its drift.
LEMMA DriftStep ==
    ASSUME TypeOK, CallInv, SeenInv, TypeOK', Far', NEW q \in Reqs, LeastOK(q),
           call'[q] = call[q], q \in Choosing, NEW b \in Backend, NEW e \in {1, -1},
           conns' = [conns EXCEPT ![b] = @ + e],
           drift'[q] = IF drift[q] < MaxDrift THEN drift[q] + 1 ELSE drift[q]
    PROVE  LeastOK(q)'
<1> DEFINE s == call[q].seen
           k == call[q].cursor
           best == call[q].best
           new == s[k + 1]
           d == drift[q]
<1>1. /\ best \in Backend /\ \A j \in DOMAIN s : s[j] \in Backend
      /\ call[q].pc \in {"least", "compare"} => 1..k \subseteq DOMAIN s
      /\ call[q].pc = "compare" =>
            new \in Backend /\ new # best /\ \A j \in 1..k : new # s[j]
  BY Compared DEF Choosing
<1>2. MaxDrift \in Nat /\ d \in Nat /\ d <= MaxDrift /\ MaxDrift' = MaxDrift
  <2>1. MaxDrift \in Nat
    BY DriftTyped
  <2>2. d \in 0..MaxDrift
    BY DEF TypeOK
  <2>3. MaxDrift' = MaxDrift
    BY DEF MaxDrift
  <2> QED BY <2>1, <2>2, <2>3
<1>3. \A c \in Backend : conns[c] \in Nat /\ conns'[c] = IF c = b THEN conns[c] + e ELSE conns[c]
  BY DEF TypeOK
<1>4. call[q].load \in Nat
  BY DEF TypeOK, CallType
<1>5. CASE d = MaxDrift \/ d + 1 = MaxDrift
  <2>1. drift'[q] = MaxDrift
    BY <1>2, <1>5
  <2>2. \A j \in DOMAIN s : Close(q, s[j])'
    BY <1>1, <1>2, <2>1 DEF Far, Close
  <2>3. ~(drift'[q] < MaxDrift')
    BY <1>2, <2>1
  <2> QED BY <1>1, <2>2, <2>3 DEF LeastOK
<1>6. CASE d + 1 < MaxDrift
  <2>1. drift'[q] = d + 1 /\ d < MaxDrift
    BY <1>2, <1>6
  <2>2. ASSUME NEW c \in Backend, conns[best] <= conns[c] + d PROVE Close(q, c)'
    <3>1. conns'[best] <= conns'[c] + (d + 1)
      BY <1>1, <1>2, <1>3, <2>2
    <3> QED BY <2>1, <3>1 DEF Close
  <2>3. call[q].pc \in {"least", "compare"} => \A j \in 1..k : Close(q, s[j])'
    BY <1>1, <2>2 DEF LeastOK, Close
  <2>4. call[q].pc = "picked" => \A j \in DOMAIN s : Close(q, s[j])'
    BY <1>1, <2>2 DEF LeastOK, Close
  <2>5. ASSUME call[q].pc = "compare" PROVE Loaded(q)'
    <3>1. /\ call[q].load <= conns[new] + d
          /\ \A j \in 1..k : conns[new] + conns[best] <= call[q].load + conns[s[j]] + d
      BY <2>1, <2>5 DEF LeastOK, Loaded
    <3>2. call[q].load <= conns'[new] + (d + 1)
      BY <1>1, <1>2, <1>3, <1>4, <2>5, <3>1
    <3>3. ASSUME NEW j \in 1..k
          PROVE  conns'[new] + conns'[best] <= call[q].load + conns'[s[j]] + (d + 1)
      <4>1. s[j] \in Backend /\ new \in Backend /\ new # best /\ new # s[j]
        BY <1>1, <2>5
      <4>2. conns[new] + conns[best] <= call[q].load + conns[s[j]] + d
        BY <3>1
      <4> QED BY <1>1, <1>2, <1>3, <1>4, <4>1, <4>2
    <3> QED BY <2>1, <3>2, <3>3 DEF Loaded
  <2> QED BY <2>3, <2>4, <2>5 DEF LeastOK
<1> QED BY <1>2, <1>5, <1>6

LEMMA HandleLeast ==
    ASSUME IInv, NEW r \in Reqs, Handle(r), TypeOK', CountInv', CallInv', SeenInv'
    PROVE  LeastInv'
<1>1. TypeOK /\ CallInv /\ SeenInv /\ CountInv /\ LeastInv
  BY DEF IInv
<1>2. Far'
  BY FarDrift, PTL
<1>3. MaxDrift' = MaxDrift
  BY DEF MaxDrift
<1> SUFFICES ASSUME algorithm' = "least_conn", NEW q \in Reqs PROVE LeastOK(q)'
  BY DEF LeastInv
<1>4. algorithm = "least_conn" /\ Frame(r) /\ \A p \in Reqs : LeastOK(p)
  <2>1. Frame(r)
    <3>1. CASE Inc(r)
      BY <1>1, <3>1, IncEffect
    <3>2. CASE Dec(r)
      BY <1>1, <3>2, EndsEffect DEF Ends
    <3> QED BY <1>1, <3>1, <3>2, QuietEffect
  <2> QED BY <1>1, <2>1 DEF Frame, LeastInv
<1>5. CASE q # r
  <2>1. call'[q] = call[q] /\ LeastOK(q)
    BY <1>4, <1>5 DEF Frame
  <2>2. CASE q \notin Choosing
    BY <2>1, <2>2 DEF Choosing, LeastOK
  <2>3. CASE q \in Choosing /\ Inc(r)
    <3>1. PICK b : b = call[r].best
      OBVIOUS
    <3>2. /\ b \in Backend /\ conns' = [conns EXCEPT ![b] = @ + 1]
          /\ drift' = [Drifted(CountsMatter(Choosing \ {r})) EXCEPT ![r] = 0]
      BY <1>1, <2>3, <3>1, IncEffect
    <3>3. drift'[q] = Drifted(Choosing \ {r})[q]
      BY <1>4, <1>5, <3>2 DEF CountsMatter, Drifted
    <3>4. drift'[q] = IF drift[q] < MaxDrift THEN drift[q] + 1 ELSE drift[q]
      BY <1>5, <2>3, <3>3 DEF Drifted
    <3> QED BY <1>1, <1>2, <2>1, <2>3, <3>2, <3>4, DriftStep
  <2>4. CASE q \in Choosing /\ Dec(r)
    <3>1. PICK b : b = call[r].best
      OBVIOUS
    <3>2. b \in Backend /\ conns' = [conns EXCEPT ![b] = @ - 1] /\ drift' = Drifted(Choosing)
      BY <1>1, <1>4, <2>4, <3>1 DEF Dec, CallInv, CallOK, CountsMatter
    <3>3. drift'[q] = IF drift[q] < MaxDrift THEN drift[q] + 1 ELSE drift[q]
      BY <2>4, <3>2 DEF Drifted
    <3>4. conns' = [conns EXCEPT ![b] = @ + (-1)]
      BY <1>1, <3>2 DEF TypeOK
    <3> QED BY <1>1, <1>2, <2>1, <2>4, <3>2, <3>3, <3>4, DriftStep
  <2>5. CASE ~Inc(r) /\ ~Dec(r)
    <3>1. conns' = conns /\ drift'[q] = drift[q]
      BY <1>1, <1>5, <2>5, QuietEffect
    <3> QED BY <1>3, <2>1, <3>1 DEF LeastOK, Close, Loaded
  <2> QED BY <2>2, <2>3, <2>4, <2>5
<1>6. CASE q = r
  <2>1. LeastOK(r)
    BY <1>4
  <2>2. CASE \E c \in Clients, p \in Ports : Begin(r, c, p)
    BY <1>1, <1>6, <2>2, BeginEffect DEF LeastOK
  <2>3. CASE Scan(r)
    BY <1>1, <1>6, <2>3, ScanEffect DEF LeastOK
  <2>4. CASE Ends(r)
    BY <1>1, <1>6, <2>4, EndsEffect, IdleTyped DEF LeastOK
  <2>5. CASE PickRoundRobin(r) \/ PickHash(r)
    BY <1>1, <1>4, <2>5, PickRoundRobinEffect, PickHashEffect
  <2>6. CASE Inc(r)
    BY <1>1, <1>6, <2>6, IncEffect DEF LeastOK
  <2>7. CASE BeginLeast(r)
    <3>1. /\ conns' = conns /\ drift' = drift /\ call[r].pc = "scan" /\ Len(call[r].seen) >= 1
          /\ call'[r].pc = "least" /\ call'[r].cursor = 1
          /\ call'[r].best = call[r].seen[1] /\ call'[r].seen = call[r].seen
      BY <1>1, <2>7, BeginLeastEffect DEF history
    <3>2. call[r].seen[1] \in Backend /\ drift[r] \in Nat
      <4>1. call[r].seen \in Seq(Backend)
        BY <1>1 DEF TypeOK, CallType
      <4>2. drift[r] \in Nat
        BY <1>1, DriftTyped DEF TypeOK
      <4> QED BY <3>1, <4>1, <4>2
    <3>3. conns[call[r].seen[1]] <= conns[call[r].seen[1]] + drift[r]
      BY <1>1, <3>2 DEF TypeOK
    <3>4. \A j \in 1..1 : j = 1
      OBVIOUS
    <3> QED BY <1>6, <3>1, <3>3, <3>4 DEF LeastOK, Close
  <2>8. CASE LoadOther(r)
    <3>1. PICK k : k = call[r].cursor
      OBVIOUS
    <3>2. /\ conns' = conns /\ drift' = drift
          /\ call[r].pc = "least" /\ k \in 1..(Len(call[r].seen) - 1)
          /\ call'[r].pc = "compare" /\ call'[r].cursor = k
          /\ call'[r].load = conns[call[r].seen[k + 1]]
          /\ call'[r].best = call[r].best /\ call'[r].seen = call[r].seen
      BY <1>1, <2>8, <3>1, LoadOtherEffect DEF history
    <3>3. /\ call[r].best \in Backend /\ call[r].seen \in Seq(Backend)
          /\ \A j \in DOMAIN call[r].seen : call[r].seen[j] \in Backend
          /\ 1..k \subseteq DOMAIN call[r].seen
      BY <1>1, <3>1, <3>2, Compared
    <3>4. k + 1 \in DOMAIN call[r].seen /\ drift[r] \in Nat /\ \A b \in Backend : conns[b] \in Nat
      <4>1. drift[r] \in Nat /\ \A b \in Backend : conns[b] \in Nat
        BY <1>1, DriftTyped DEF TypeOK
      <4>2. k + 1 \in DOMAIN call[r].seen
        BY <3>2, <3>3
      <4> QED BY <4>1, <4>2
    <3>5. \A j \in 1..k : conns[call[r].best] <= conns[call[r].seen[j]] + drift[r]
      BY <2>1, <3>1, <3>2 DEF LeastOK, Close
    <3>6. \A j \in 1..k : Close(r, call[r].seen[j])'
      BY <3>2, <3>5 DEF Close
    <3>7. conns[call[r].seen[k + 1]] \in Nat
      BY <3>3, <3>4
    <3>8. Loaded(r)'
      <4>1. conns[call[r].seen[k + 1]] <= conns[call[r].seen[k + 1]] + drift[r]
        BY <3>4, <3>7
      <4>2. ASSUME NEW j \in 1..k
            PROVE  conns[call[r].seen[k + 1]] + conns[call[r].best]
                     <= conns[call[r].seen[k + 1]] + conns[call[r].seen[j]] + drift[r]
        <5>1. conns[call[r].seen[j]] \in Nat /\ conns[call[r].best] \in Nat
          BY <3>3, <3>4
        <5> QED BY <3>4, <3>5, <3>7, <5>1
      <4> QED BY <3>2, <4>1, <4>2 DEF Loaded
    <3> QED BY <1>6, <3>2, <3>6, <3>8 DEF LeastOK
  <2>9. CASE Compare(r)
    <3>1. PICK k : k = call[r].cursor
      OBVIOUS
    <3> DEFINE s == call[r].seen
               best == call[r].best
               d == drift[r]
    <3>2. /\ conns' = conns /\ drift' = drift
          /\ call[r].pc = "compare" /\ k \in 1..(Len(s) - 1)
          /\ call'[r].pc = "least" /\ call'[r].cursor = k + 1
          /\ call'[r].best = (IF call[r].load < conns[best] THEN s[k + 1] ELSE best)
          /\ call'[r].seen = s
      BY <1>1, <2>9, <3>1, CompareEffect DEF history
    <3>3. /\ best \in Backend /\ \A j \in 1..k : s[j] \in Backend
          /\ s[k + 1] \in Backend
      BY <1>1, <3>1, <3>2, Compared
    <3>4. /\ d \in Nat /\ d <= MaxDrift /\ MaxDrift \in Nat /\ call[r].load \in Nat
          /\ \A b \in Backend : conns[b] \in Nat
      <4>1. MaxDrift \in Nat
        BY <1>1, DriftTyped
      <4>2. d \in 0..MaxDrift /\ call[r].load \in Nat /\ \A b \in Backend : conns[b] \in Nat
        BY <1>1 DEF TypeOK, CallType
      <4> QED BY <4>1, <4>2
    <3>5. \A j \in 1..k : conns[best] <= conns[s[j]] + d
      BY <2>1, <3>1, <3>2 DEF LeastOK, Close
    <3>6. \A j \in 1..(k + 1) : j \in 1..k \/ j = k + 1
      BY <3>2
    <3>7. \A j \in 1..(k + 1) : conns[call'[r].best] <= conns[s[j]] + d
      <4>1. CASE d = MaxDrift
        <5>1. Far
          BY <1>1, FarDrift
        <5>2. call'[r].best \in Backend
          BY <3>2, <3>3
        <5> QED BY <3>3, <3>6, <4>1, <5>1, <5>2 DEF Far
      <4>2. CASE d < MaxDrift
        <5>1. /\ call[r].load <= conns[s[k + 1]] + d
              /\ \A j \in 1..k : conns[s[k + 1]] + conns[best] <= call[r].load + conns[s[j]] + d
          BY <2>1, <3>1, <3>2, <4>2 DEF LeastOK, Loaded
        <5>2. CASE call[r].load < conns[best]
          <6>1. ASSUME NEW j \in 1..k PROVE conns[s[k + 1]] <= conns[s[j]] + d
            <7>1. conns[s[j]] \in Nat /\ conns[s[k + 1]] \in Nat /\ conns[best] \in Nat
              BY <3>3, <3>4
            <7>2. conns[s[k + 1]] + conns[best] <= call[r].load + conns[s[j]] + d
              BY <5>1
            <7> QED BY <3>4, <5>2, <7>1, <7>2
          <6>2. conns[s[k + 1]] <= conns[s[k + 1]] + d
            BY <3>3, <3>4
          <6> QED BY <3>2, <3>6, <5>2, <6>1, <6>2
        <5>3. CASE ~(call[r].load < conns[best])
          <6>1. conns[best] <= conns[s[k + 1]] + d
            BY <3>3, <3>4, <5>1, <5>3
          <6> QED BY <3>2, <3>5, <3>6, <5>3, <6>1
        <5> QED BY <5>2, <5>3
      <4> QED BY <3>4, <4>1, <4>2
    <3> QED BY <1>6, <3>2, <3>7 DEF LeastOK, Close
  <2>10. CASE PickLeast(r)
    <3>1. /\ conns' = conns /\ drift' = drift
          /\ call[r].pc = "least" /\ call[r].cursor = Len(call[r].seen)
          /\ call'[r].pc = "picked" /\ call'[r].best = call[r].best /\ call'[r].seen = call[r].seen
      BY <1>1, <2>10, PickLeastEffect DEF history
    <3>2. DOMAIN call[r].seen = 1..call[r].cursor
      BY <1>1, <3>1, Compared
    <3> QED BY <1>6, <2>1, <3>1, <3>2 DEF LeastOK, Close
  <2> QED
    BY <2>2, <2>3, <2>4, <2>5, <2>6, <2>7, <2>8, <2>9, <2>10 DEF Handle, Ends
<1> QED BY <1>5, <1>6

-----------------------------------------------------------------------------
\* Turns and homes

\* Ranks, in any state.
RanksOK ==
    /\ LiveCount \in Nat /\ LiveCount <= Len(Backends)
    /\ \A i \in Live(Len(Backends)) : Rank(i) \in 0..(LiveCount - 1) /\ Backends[i] \in Backend

LEMMA Ranks == RanksOK
<1>1. LiveCount \in Nat /\ \A i \in Live(Len(Backends)) : Rank(i) \in 0..(LiveCount - 1)
  BY LiveFinite, RankBound, BackendsTyped DEF LiveCount
<1>2. LiveCount <= Len(Backends)
  <2>1. IsFiniteSet(1..Len(Backends)) /\ Cardinality(1..Len(Backends)) = Len(Backends)
    <3>1. PICK n \in Nat : n = Len(Backends)
      BY Widths
    <3>2. IsFiniteSet(1..n) /\ Cardinality(1..n) = IF 1 > n THEN 0 ELSE n - 1 + 1
      BY FS_Interval
    <3>3. Cardinality(1..n) = n
      BY <3>2
    <3> QED BY <3>1, <3>2, <3>3
  <2>2. Live(Len(Backends)) \in SUBSET (1..Len(Backends))
    BY DEF Live
  <2> QED BY <2>1, <2>2, FS_Subset DEF LiveCount
<1>3. \A i \in Live(Len(Backends)) : Backends[i] \in Backend
  BY BackendsTyped DEF Live
<1> QED BY <1>1, <1>2, <1>3 DEF RanksOK

\* The list of a call that no change has overtaken: every live backend at its rank.
LEMMA FreshList ==
    ASSUME TypeOK, FreshInv, NEW r \in Reqs, fresh[r],
           call[r].pc = "scan", call[r].cursor = Len(Backends)
    PROVE  /\ Len(call[r].seen) = LiveCount
           /\ \A i \in Live(Len(Backends)) : call[r].seen[Rank(i) + 1] = Backends[i]
           /\ \A m \in DOMAIN call[r].seen :
                 \E i \in Live(Len(Backends)) : call[r].seen[m] = Backends[i] /\ Rank(i) = m - 1
BY DEF FreshInv, LiveCount

\* Where neither a flag nor what is counted changes, nothing does.
LEMMA SameTurns ==
    ASSUME TurnInv, UNCHANGED <<alive, counter, passed>>
    PROVE  TurnInv'
<1>1. \A i : Live(i)' = Live(i) /\ Rank(i)' = Rank(i)
  BY DEF Live, Rank
<1>2. LiveCount' = LiveCount
  BY <1>1 DEF LiveCount
<1>3. \A c, n, i : Before(c, n, i)' = Before(c, n, i)
  BY DEF Before, Distance
<1> QED BY <1>1, <1>2, <1>3 DEF TurnInv

LEMMA SameHomes ==
    ASSUME HomeInv, UNCHANGED <<alive, home>>
    PROVE  HomeInv'
<1>1. \A i : Live(i)' = Live(i) /\ Rank(i)' = Rank(i)
  BY DEF Live, Rank
<1>2. LiveCount' = LiveCount
  BY <1>1 DEF LiveCount
<1> QED BY <1>1, <1>2 DEF HomeInv

\* A pick from a list that is up to date is the turn of its rank, and brings the
\* others nearer.
LEMMA PickTurns ==
    ASSUME IInv, NEW r \in Reqs, PickRoundRobin(r), TypeOK'
    PROVE  TurnInv'
<1>1. TypeOK /\ TurnInv /\ FreshInv
  BY DEF IInv
<1>2. PICK b : b = call[r].seen[(counter % Len(call[r].seen)) + 1]
  OBVIOUS
<1>3. /\ alive' = alive /\ call[r].pc = "scan" /\ call[r].cursor = Len(Backends)
      /\ counter' = (counter + 1) % Modulus /\ TakeTurn(r, b)
  BY <1>1, <1>2, PickRoundRobinEffect DEF Frame
<1> DEFINE n == LiveCount
<1>4. (\A i : Live(i)' = Live(i) /\ Rank(i)' = Rank(i)) /\ LiveCount' = LiveCount
  <2>1. \A i : Live(i)' = Live(i) /\ Rank(i)' = Rank(i)
    BY <1>3 DEF Live, Rank
  <2> QED BY <2>1 DEF LiveCount
<1>5. counter \in 0..(Modulus - 1) /\ counter' \in 0..(Modulus - 1) /\ Modulus \in Nat \ {0}
  BY <1>1, Widths DEF TypeOK
<1>6. ASSUME NEW i \in Live(Len(Backends))
      PROVE  passed'[Backends[i]] + Before(counter', n, Rank(i)) <= (n - 1) + (Modulus % n)
  <2>1. n \in Nat \ {0} /\ n <= Modulus /\ Rank(i) \in 0..(n - 1) /\ Backends[i] \in Backend
    BY Ranks, Widths DEF RanksOK
  <2>2. /\ Before(counter', n, Rank(i)) \in Nat
        /\ Before(counter', n, Rank(i)) <= (n - 1) + (Modulus % n)
    BY <1>5, <2>1, TurnBound
  <2>3. Modulus % n \in Nat /\ passed[Backends[i]] \in Nat
    <3>1. Modulus % n \in 0..(n - 1)
      BY <1>5, <2>1, DivMod
    <3> QED BY <1>1, <2>1, <3>1 DEF TypeOK
  <2>4. passed'[Backends[i]] = IF Backends[i] = b \/ ~fresh[r] \/ ~alive[Backends[i]] THEN 0
                               ELSE passed[Backends[i]] + 1
    BY <1>3, <2>1 DEF TakeTurn
  <2>5. CASE Backends[i] = b \/ ~fresh[r]
    <3>1. passed'[Backends[i]] = 0
      BY <2>4, <2>5
    <3> QED BY <2>1, <2>2, <2>3, <3>1
  <2>6. CASE Backends[i] # b /\ fresh[r]
    <3>1. Len(call[r].seen) = n /\ call[r].seen[Rank(i) + 1] = Backends[i]
      BY <1>1, <1>3, <2>6, FreshList
    <3>2. Rank(i) # counter % n
      BY <1>2, <2>6, <3>1
    <3>3. Before(counter', n, Rank(i)) + 1 = Before(counter, n, Rank(i))
      BY <1>3, <1>5, <2>1, <3>2, TurnStep
    <3>4. passed[Backends[i]] + Before(counter, n, Rank(i)) <= (n - 1) + (Modulus % n)
      BY <1>1 DEF TurnInv
    <3>5. passed'[Backends[i]] \in {0, passed[Backends[i]] + 1}
      BY <2>4
    <3>6. Before(counter, n, Rank(i)) \in Nat
      BY <1>5, <2>1, TurnBound
    <3> DEFINE p == passed[Backends[i]]
               old == Before(counter, n, Rank(i))
               new == Before(counter', n, Rank(i))
               bound == (n - 1) + (Modulus % n)
    <3>7. p \in Nat /\ old \in Nat /\ new \in Nat /\ bound \in Int
      BY <2>1, <2>2, <2>3, <3>6
    <3>8. new + 1 = old /\ p + old <= bound
      BY <3>3, <3>4
    <3> HIDE DEF n, p, old, new, bound
    <3>9. 0 + new <= bound /\ p + 1 + new <= bound
      BY <3>7, <3>8
    <3> QED BY <3>5, <3>9 DEF p, new, bound
  <2> QED BY <2>5, <2>6
<1>7. \A c, m, i : Before(c, m, i)' = Before(c, m, i)
  BY DEF Before, Distance
<1>8. ASSUME NEW i \in Live(Len(Backends))
      PROVE  (passed[Backends[i]] + Before(counter, LiveCount, Rank(i))
                <= (LiveCount - 1) + (Modulus % LiveCount))'
  <2>1. Before(counter, LiveCount, Rank(i))' = Before(counter', n, Rank(i))
    BY <1>4 DEF Before, Distance
  <2> QED BY <1>4, <1>6, <2>1
<1> QED BY <1>4, <1>8 DEF TurnInv

\* The pick for a client that a header names is the backend of its hash's rank.
LEMMA PickHome ==
    ASSUME TypeOK, CallInv, FreshInv, NEW r \in Reqs, PickHash(r), fresh[r],
           NEW c \in Forwarded, call[r].client = c
    PROVE  /\ home'[c] # None
           /\ \E i \in Live(Len(Backends)) :
                 home'[c] = Backends[i] /\ Rank(i) = Hash[<<c, 0>>] % LiveCount
           /\ \A i \in Live(Len(Backends)) :
                 Rank(i) = Hash[<<c, 0>>] % LiveCount => home'[c] = Backends[i]
<1>1. PICK h : h = Hash[ClientIP(call[r].client, call[r].port)]
  OBVIOUS
<1>2. PICK b : b = call[r].seen[(h % Len(call[r].seen)) + 1]
  OBVIOUS
<1>3. /\ h \in Nat /\ call[r].pc = "scan" /\ call[r].cursor = Len(Backends) /\ call[r].seen # <<>>
      /\ b \in Backend /\ call[r].client \in Clients
      /\ home' = IF fresh[r] THEN [home EXCEPT ![call[r].client] = b] ELSE home
  BY <1>1, <1>2, PickHashEffect
<1>4. home'[c] = b
  BY <1>3 DEF TypeOK
<1>5. h = Hash[<<c, 0>>]
  BY <1>1 DEF ClientIP
<1>6. /\ Len(call[r].seen) = LiveCount
      /\ \A i \in Live(Len(Backends)) : call[r].seen[Rank(i) + 1] = Backends[i]
      /\ \A m \in DOMAIN call[r].seen :
            \E i \in Live(Len(Backends)) : call[r].seen[m] = Backends[i] /\ Rank(i) = m - 1
  BY <1>3, FreshList
<1>7. call[r].seen \in Seq(Backend)
  BY DEF TypeOK, CallType
<1> DEFINE m == (h % LiveCount) + 1
<1>8. m \in DOMAIN call[r].seen /\ h % LiveCount \in Nat /\ b = call[r].seen[m]
  <2>1. h % Len(call[r].seen) \in Nat /\ (h % Len(call[r].seen)) + 1 \in DOMAIN call[r].seen
    BY <1>3, <1>7, PickTyped
  <2> QED BY <1>2, <1>6, <2>1
<1>9. PICK i \in Live(Len(Backends)) : call[r].seen[m] = Backends[i] /\ Rank(i) = m - 1
  BY <1>6, <1>8
<1>10. Rank(i) = h % LiveCount
  BY <1>8, <1>9
<1>11. None \notin Backend
  BY PoolAssumption, BalancerAssumption
<1> QED BY <1>3, <1>4, <1>5, <1>6, <1>8, <1>9, <1>10, <1>11

LEMMA PickHomes ==
    ASSUME IInv, NEW r \in Reqs, PickHash(r)
    PROVE  HomeInv'
<1>1. TypeOK /\ CallInv /\ FreshInv /\ HomeInv
  BY DEF IInv
<1>2. PICK b : /\ home' = (IF fresh[r] THEN [home EXCEPT ![call[r].client] = b] ELSE home)
               /\ alive' = alive
  BY DEF PickHash
<1>3. (\A i : Live(i)' = Live(i) /\ Rank(i)' = Rank(i)) /\ LiveCount' = LiveCount
  <2>1. \A i : Live(i)' = Live(i) /\ Rank(i)' = Rank(i)
    BY <1>2 DEF Live, Rank
  <2> QED BY <2>1 DEF LiveCount
<1>4. ASSUME NEW c \in Forwarded, home'[c] # None
      PROVE  \E i \in Live(Len(Backends)) :
                 home'[c] = Backends[i] /\ Rank(i) = Hash[<<c, 0>>] % LiveCount
  <2>1. CASE fresh[r] /\ call[r].client = c
    BY <1>1, <2>1, PickHome
  <2>2. CASE ~(fresh[r] /\ call[r].client = c)
    <3>1. home'[c] = home[c]
      BY <1>1, <1>2, <2>2, PoolAssumption, BalancerAssumption DEF TypeOK
    <3> QED BY <1>1, <1>4, <3>1 DEF HomeInv
  <2> QED BY <2>1, <2>2
<1> QED BY <1>3, <1>4 DEF HomeInv

LEMMA HandleTurns ==
    ASSUME IInv, NEW r \in Reqs, Handle(r), TypeOK'
    PROVE  TurnInv' /\ HomeInv'
<1>1. TypeOK /\ CallInv /\ SeenInv /\ TurnInv /\ HomeInv
  BY DEF IInv
<1>2. CASE PickRoundRobin(r)
  <2>1. UNCHANGED <<alive, home>>
    BY <1>1, <1>2, PickRoundRobinEffect DEF Frame
  <2> QED BY <1>1, <1>2, <2>1, PickTurns, SameHomes
<1>3. CASE PickHash(r)
  <2>1. UNCHANGED <<alive, counter, passed>>
    BY <1>1, <1>3, PickHashEffect DEF Frame
  <2> QED BY <1>1, <1>3, <2>1, PickHomes, SameTurns
<1>4. CASE ~PickRoundRobin(r) /\ ~PickHash(r)
  <2>1. UNCHANGED <<alive, counter, passed, home>>
    <3>1. CASE \E c \in Clients, p \in Ports : Begin(r, c, p)
      BY <3>1 DEF Begin
    <3>2. CASE Scan(r) \/ BeginLeast(r) \/ LoadOther(r) \/ Compare(r) \/ PickLeast(r)
      BY <3>2 DEF Scan, BeginLeast, LoadOther, Compare, PickLeast, history
    <3>3. CASE NoHealthyBackend(r) \/ CircuitOpen(r) \/ Inc(r) \/ Dec(r)
      BY <3>3 DEF NoHealthyBackend, CircuitOpen, Inc, Dec
    <3> QED BY <1>4, <3>1, <3>2, <3>3 DEF Handle
  <2> QED BY <1>1, <2>1, SameTurns, SameHomes
<1> QED BY <1>2, <1>3, <1>4

-----------------------------------------------------------------------------
\* The invariant holds

\* A flag changes: every count of turns starts anew, and no client has a home.
LEMMA FlipStep ==
    ASSUME IInv, NEW b \in Backend, Flip(b)
    PROVE  IInv'
<1>1. /\ UNCHANGED <<algorithm, conns, counter, call, drift>>
      /\ alive' = [alive EXCEPT ![b] = ~@]
      /\ passed' = [c \in Backend |-> 0] /\ home' = [c \in Clients |-> None]
  BY DEF Flip
<1>2. TypeOK'
  BY <1>1 DEF IInv, TypeOK, Flip
<1>3. ScanInv' /\ SeenInv' /\ FreshInv'
  BY FlipScan
<1>4. CallInv' /\ CountInv' /\ LeastInv'
  BY <1>1 DEF IInv, CallInv, CallOK, CountInv, Serving, LeastInv, LeastOK, Close, Loaded, MaxDrift
<1>5. RanksOK'
  BY Ranks, PTL
<1>6. ASSUME NEW i \in Live(Len(Backends))'
      PROVE  (passed[Backends[i]] + Before(counter, LiveCount, Rank(i))
                <= (LiveCount - 1) + (Modulus % LiveCount))'
  <2>1. PICK n, k : n = LiveCount' /\ k = Rank(i)'
    OBVIOUS
  <2>2. n \in Nat \ {0} /\ k \in 0..(n - 1) /\ Backends[i] \in Backend
    BY <1>5, <1>6, <2>1 DEF RanksOK
  <2>3. counter \in 0..(Modulus - 1)
    BY DEF IInv, TypeOK
  <2>4. Before(counter, n, k) \in Nat /\ Before(counter, n, k) <= (n - 1) + (Modulus % n)
    BY <2>2, <2>3, TurnBound
  <2>5. passed'[Backends[i]] = 0
    BY <1>1, <2>2
  <2>6. Before(counter, LiveCount, Rank(i))' = Before(counter, n, k)
    BY <1>1, <2>1 DEF Before, Distance
  <2> QED BY <2>1, <2>4, <2>5, <2>6
<1>7. TurnInv'
  BY <1>6 DEF TurnInv
<1>8. HomeInv'
  BY <1>1, PoolAssumption, BalancerAssumption DEF HomeInv
<1> QED BY <1>2, <1>3, <1>4, <1>7, <1>8 DEF IInv

LEMMA InitIInv == Init => IInv
<1> SUFFICES ASSUME Init PROVE IInv
  OBVIOUS
<1>1. /\ call = [r \in Reqs |-> Idle] /\ alive = [b \in Backend |-> TRUE]
      /\ through = [r \in Reqs |-> {}] /\ home = [c \in Clients |-> None]
      /\ passed = [b \in Backend |-> 0] /\ counter = 0
  BY DEF Init, AllAlive
<1>2. \A r \in Reqs : call[r] = Idle
  BY <1>1
<1>3. conns \in [Backend -> Nat] /\ \A b \in Backend : conns[b] \in 0..Standing
  BY PoolAssumption, BalancerAssumption DEF Init, AllAlive
<1>4. TypeOK
  <2>1. MaxDrift \in Nat
    BY PoolAssumption, BalancerAssumption, FS_CardinalityType DEF MaxDrift
  <2>2. 0 \in 0..MaxDrift /\ 0 \in 0..(Modulus - 1)
    BY <2>1, Widths
  <2> QED BY <1>1, <1>3, <2>2, IdleTyped DEF Init, AllAlive, TypeOK
<1>5. ScanInv /\ FreshInv
  BY <1>1, <1>2, IdleTyped DEF ScanInv, FreshInv
<1>6. SeenInv /\ CallInv /\ LeastInv
  <2>1. 0 <= Len(Backends)
    BY Widths
  <2> QED BY <1>2, <2>1, IdleTyped DEF SeenInv, CallInv, CallOK, LeastInv, LeastOK
<1>7. CountInv
  <2>1. \A b : Serving(b) = {}
    BY <1>2, IdleTyped DEF Serving
  <2> QED BY <1>3, <2>1, FS_EmptySet DEF CountInv
<1>8. TurnInv
  <2> SUFFICES ASSUME NEW i \in Live(Len(Backends))
               PROVE  passed[Backends[i]] + Before(counter, LiveCount, Rank(i))
                        <= (LiveCount - 1) + (Modulus % LiveCount)
    BY DEF TurnInv
  <2>1. LiveCount \in Nat \ {0} /\ Rank(i) \in 0..(LiveCount - 1) /\ Backends[i] \in Backend
    BY Ranks DEF RanksOK
  <2>2. counter \in 0..(Modulus - 1)
    BY <1>4 DEF TypeOK
  <2>3. /\ Before(counter, LiveCount, Rank(i)) \in Nat
        /\ Before(counter, LiveCount, Rank(i)) <= (LiveCount - 1) + (Modulus % LiveCount)
    BY <2>1, <2>2, TurnBound
  <2> QED BY <1>1, <2>1, <2>3
<1>9. HomeInv
  BY <1>1, PoolAssumption, BalancerAssumption DEF HomeInv
<1> QED BY <1>4, <1>5, <1>6, <1>7, <1>8, <1>9 DEF IInv

LEMMA StepIInv == IInv /\ [Next]_vars => IInv'
<1> SUFFICES ASSUME IInv, [Next]_vars PROVE IInv'
  OBVIOUS
<1>1. ASSUME NEW r \in Reqs, Handle(r) PROVE IInv'
  <2>1. TypeOK' /\ CallInv' /\ CountInv'
    BY <1>1, HandleType, HandleCall, HandleCount
  <2>2. ScanInv' /\ SeenInv' /\ FreshInv'
    BY <1>1, BeginScan, ScanScan, OtherScan
  <2>3. LeastInv' /\ TurnInv' /\ HomeInv'
    BY <1>1, <2>1, <2>2, HandleLeast, HandleTurns
  <2> QED BY <2>1, <2>2, <2>3 DEF IInv
<1>2. ASSUME NEW b \in Backend, Flip(b) PROVE IInv'
  BY <1>2, FlipStep
<1>3. CASE UNCHANGED vars
  <2>1. UNCHANGED <<algorithm, alive, conns, counter, call, through, fresh, drift, passed, home>>
    BY <1>3 DEF vars, history
  <2>2. TypeOK' /\ ScanInv'
    BY <2>1 DEF IInv, TypeOK, ScanInv
  <2>3. SeenInv'
    BY <2>1 DEF IInv, SeenInv
  <2>4. CallInv'
    BY <2>1 DEF IInv, CallInv, CallOK
  <2>5. FreshInv'
    <3>1. \A i : Live(i)' = Live(i) /\ Rank(i)' = Rank(i)
      BY <2>1 DEF Live, Rank
    <3> QED BY <2>1, <3>1 DEF IInv, FreshInv
  <2>6. CountInv' /\ LeastInv'
    BY <2>1 DEF IInv, CountInv, Serving, LeastInv, LeastOK, Close, Loaded, MaxDrift
  <2>7. TurnInv' /\ HomeInv'
    BY <2>1, SameTurns, SameHomes DEF IInv
  <2> QED BY <2>2, <2>3, <2>4, <2>5, <2>6, <2>7 DEF IInv
<1> QED BY <1>1, <1>2, <1>3 DEF Next

-----------------------------------------------------------------------------
\* What it implies

\* loadbalancer.go lines 249-257: for any backends, callers and changes of flags, a
\* call fails only if no backend was alive from its beginning to its end.
THEOREM FailsTheorem == Spec => FailsOnlyIfNoneStayed
<1>1. ASSUME IInv, NEW r \in Reqs, NoHealthyBackend(r) PROVE through[r] = {}
  <2> SUFFICES ASSUME NEW b \in through[r] PROVE FALSE
    OBVIOUS
  <2>1. b \in Backend /\ call[r].pc = "scan" /\ call[r].seen = <<>>
        /\ call[r].cursor = Len(Backends)
    BY <1>1 DEF IInv, TypeOK, NoHealthyBackend, Scanned
  <2>2. PICK i \in 1..Len(Backends) : b = Backends[i]
    BY <2>1, BackendsTyped
  <2>3. \E m \in DOMAIN <<>> : TRUE
    BY <1>1, <2>1, <2>2 DEF IInv, ScanInv
  <2> QED BY <2>3
<1>2. IInv => (\A r \in Reqs : NoHealthyBackend(r) => through[r] = {})
  BY <1>1
<1>3. IInv => [\A r \in Reqs : NoHealthyBackend(r) => through[r] = {}]_vars
  BY <1>2
<1> QED BY InitIInv, StepIInv, <1>3, PTL DEF Spec, FailsOnlyIfNoneStayed

\* loadbalancer.go lines 89-90: while no flag changes, a live backend waits for one
\* turn of each other, and where the counter wraps for the remainder of its range.
THEOREM TurnTheorem == Spec => []TurnTaking
<1>1. IInv => TurnTaking
  <2> SUFFICES ASSUME IInv, NEW b \in Backend, alive[b]
               PROVE  passed[b] <= (LiveCount - 1) + (Modulus % LiveCount)
    BY LiveCountIs DEF TurnTaking
  <2>1. PICK i \in 1..Len(Backends) : b = Backends[i]
    BY BackendsTyped
  <2>2. i \in Live(Len(Backends))
    BY <2>1 DEF Live
  <2>3. LiveCount \in Nat \ {0} /\ Rank(i) \in 0..(LiveCount - 1)
    BY <2>2, Ranks DEF RanksOK
  <2>4. counter \in 0..(Modulus - 1) /\ passed[b] \in Nat
    BY DEF IInv, TypeOK
  <2>5. Before(counter, LiveCount, Rank(i)) \in Nat
    BY <2>3, <2>4, TurnBound
  <2>6. passed[b] + Before(counter, LiveCount, Rank(i)) <= (LiveCount - 1) + (Modulus % LiveCount)
    BY <2>1, <2>2 DEF IInv, TurnInv
  <2>7. Modulus % LiveCount \in Nat
    BY <2>3, Widths, DivMod
  <2> QED BY <2>3, <2>4, <2>5, <2>6, <2>7
<1> QED BY <1>1, InitIInv, StepIInv, PTL DEF Spec

\* loadbalancer.go lines 123-128: stale loads do not add up over the comparisons, for
\* any number of backends and of handlers that count meanwhile.
THEOREM LeastTheorem == Spec => []LeastUpToDrift
<1>1. IInv => LeastUpToDrift
  BY DEF IInv, LeastInv, LeastOK, Close, LeastUpToDrift
<1> QED BY <1>1, InitIInv, StepIInv, PTL DEF Spec

\* loadbalancer.go lines 228-230 and 288-296: a client that a header names stays with
\* its backend while no flag changes, for any hash.
THEOREM StickyTheorem == Spec => StickyForwarded
<1>1. ASSUME IInv, NEW c \in Forwarded, NEW r \in Reqs, PickHash(r), fresh[r], call[r].client = c
      PROVE  home[c] \in {None, home'[c]}
  <2>1. \A i \in Live(Len(Backends)) :
           Rank(i) = Hash[<<c, 0>>] % LiveCount => home'[c] = Backends[i]
    BY <1>1, PickHome DEF IInv
  <2>2. home[c] # None => \E i \in Live(Len(Backends)) :
           home[c] = Backends[i] /\ Rank(i) = Hash[<<c, 0>>] % LiveCount
    BY <1>1 DEF IInv, HomeInv
  <2> QED BY <2>1, <2>2
<1>2. IInv => [\A c \in Forwarded : StaysHome(c)]_vars
  BY <1>1 DEF StaysHome
<1> QED BY InitIInv, StepIInv, <1>2, PTL DEF Spec, StickyForwarded

-----------------------------------------------------------------------------
\* The inductive invariant of the weighted balancer

Only(T, f) == [b \in Backend |-> IF b \in T THEN f[b] ELSE 0]
SumIn(T, f) == SumOver(Only(T, f))

\* Of k backends, the credits together: what keeps a single one within Reach.
Spread(c) ==
    \A T \in SUBSET Backend :
        2 * SumIn(T, c) <= Cardinality(T) * (Len(Backends) - Cardinality(T))
                             * (TotalWeight - Len(Backends) + 2)

\* While every backend is alive, credits are what the picks leave.
Shares(c, p) ==
    \A b \in Backend : /\ c[b] = SumOver(p) * Weight[b] - p[b] * TotalWeight
                       /\ c[b] > -TotalWeight

\* Who waits earns.
Patience(c, t) == \A b \in Backend : 2 * (t[b] * Weight[b]) <= 2 * c[b] + Reach + 2 * Weight[b]

\* The backends that the loop has passed.
Met == {Backends[i] : i \in 1..round.cursor}

\* The credits when the call began, if they are c now and E has earned since.
Start(c, E) == [b \in Backend |-> c[b] - Only(E, Weight)[b]]

\* The locals of Next.
RoundOK(E) ==
    /\ E \subseteq Met
    /\ round.total = SumIn(E, Weight)
    /\ IF round.best = None THEN E = {}
       ELSE round.best \in E /\ \A b \in E : current[b] <= current[round.best]
    /\ \A b \in Met \ E : alive[b] => waited[b] = 0
    /\ steady => E = Met /\ alive = AllAlive

CreditInv(E) ==
    /\ SumOver(Start(current, E)) = 0
    /\ Spread(Start(current, E))
    /\ Patience(Start(current, E), waited)
    /\ steady => Shares(Start(current, E), picked)

WeightedInv == WeightedTypeOK /\ \E E \in SUBSET Backend : RoundOK(E) /\ CreditInv(E)
-----------------------------------------------------------------------------
\* Sums over the backends

\* A set of natural numbers has a least element.
LEMMA LeastNat ==
  ASSUME NEW S \in SUBSET Nat, S # {}
  PROVE  \E x \in S : \A y \in S : x <= y
<1>1. PICK x \in S : \A y \in S : ~ (<<y, x>> \in OpToRel(<, Nat))
  BY WFMin, NatLessThanWellFounded, Zenon
<1>2. ASSUME NEW y \in S PROVE x <= y
  <2>1. x \in Nat /\ y \in Nat
    OBVIOUS
  <2>2. ~(y < x)
    BY <1>1, <2>1 DEF OpToRel
  <2> QED BY <2>1, <2>2
<1> QED BY <1>2

\* The element that the fold takes out of a set.
Chosen(s) == CHOOSE b \in s : TRUE

LEMMA ChosenIn == ASSUME NEW s, s # {} PROVE Chosen(s) \in s
BY Zenon DEF Chosen

LEMMA BackendFinite == IsFiniteSet(Backend) /\ Cardinality(Backend) = Len(Backends)
<1> DEFINE n == Len(Backends)
           f == [i \in 1..n |-> Backends[i]]
<1>0. n \in Nat
  BY PoolAssumption
<1> HIDE DEF n
<1>1. IsFiniteSet(1..n) /\ Cardinality(1..n) = n
  BY <1>0, FS_Interval
<1> USE DEF n
<1>2. f \in [1..n -> Backend]
  BY PoolAssumption DEF Backend
<1>3. \A i, j \in 1..n : f[i] = f[j] => i = j
  BY PoolAssumption
<1>4. \A b \in Backend : \E i \in 1..n : f[i] = b
  BY PoolAssumption DEF Backend
<1> HIDE DEF n, f
<1>5. ExistsBijection(1..n, Backend)
  BY <1>2, <1>3, <1>4 DEF ExistsBijection, Bijection, Injection, Surjection, IsInjective
<1> QED BY <1>1, <1>5, FS_Bijection DEF n

\* Sets without the chosen element are smaller, and finite like all of them.
LEMMA Smaller ==
  ASSUME NEW s \in SUBSET Backend, s # {}
  PROVE  /\ s \ {Chosen(s)} \in SUBSET Backend
         /\ Cardinality(s) \in Nat
         /\ Cardinality(s \ {Chosen(s)}) = Cardinality(s) - 1
BY ChosenIn, BackendFinite, FS_Subset, FS_CardinalityType, FS_RemoveElement

\* What holds of the empty set, and of a set if it holds without the chosen element,
\* holds of every set of backends.
LEMMA SetInduction ==
  ASSUME NEW Q, {} \in Q,
         \A s \in SUBSET Backend : s # {} /\ s \ {Chosen(s)} \in Q => s \in Q
  PROVE  SUBSET Backend \subseteq Q
<1> SUFFICES ASSUME NEW z \in SUBSET Backend, z \notin Q PROVE FALSE
  OBVIOUS
<1> DEFINE Bad == {s \in SUBSET Backend : s \notin Q}
           Sizes == {Cardinality(s) : s \in Bad}
<1>1. \A s \in Bad : s # {} /\ Cardinality(s) \in Nat
  BY Smaller
<1>2. Sizes \in SUBSET Nat /\ Sizes # {}
  BY <1>1
<1>3. PICK m \in Sizes : \A y \in Sizes : m <= y
  BY <1>2, LeastNat
<1>4. PICK s \in Bad : Cardinality(s) = m
  OBVIOUS
<1>5. s \ {Chosen(s)} \in Bad
  BY <1>1, <1>4, Smaller
<1>6. m <= Cardinality(s \ {Chosen(s)})
  BY <1>3, <1>5
<1>7. Cardinality(s \ {Chosen(s)}) = m - 1 /\ m \in Nat
  BY <1>1, <1>4, Smaller
<1> QED BY <1>6, <1>7

\* The function that the fold computes, on all sets of backends.
Adds(f) ==
    CHOOSE g : g = [s \in SUBSET Backend |->
                      IF s = {} THEN 0 ELSE f[Chosen(s)] + g[s \ {Chosen(s)}]]

LEMMA SumIs == \A f : SumOver(f) = Adds(f)[Backend]
BY Zenon DEF SumOver, MapThenSumSet, MapThenFoldSet, Adds, Chosen

\* Such a function exists: up to every size there is one.
LEMMA AddsExists ==
  ASSUME NEW f \in [Backend -> Int]
  PROVE  \E g \in [SUBSET Backend -> Int] :
            \A s \in SUBSET Backend :
               g[s] = IF s = {} THEN 0 ELSE f[Chosen(s)] + g[s \ {Chosen(s)}]
<1> DEFINE Upto(g, k) == \A s \in SUBSET Backend : Cardinality(s) <= k =>
                 g[s] = IF s = {} THEN 0 ELSE f[Chosen(s)] + g[s \ {Chosen(s)}]
           Bad == {k \in Nat : ~ \E g \in [SUBSET Backend -> Int] : Upto(g, k)}
<1>0. \A s \in SUBSET Backend : IsFiniteSet(s) /\ Cardinality(s) \in Nat
                                /\ (Cardinality(s) = 0 <=> s = {})
  BY BackendFinite, FS_Subset, FS_CardinalityType, FS_EmptySet
<1>1. 0 \notin Bad
  <2> DEFINE g == [s \in SUBSET Backend |-> 0]
  <2>1. g \in [SUBSET Backend -> Int]
    OBVIOUS
  <2>2. Upto(g, 0)
    BY <1>0
  <2> QED BY <2>1, <2>2, Zenon
<1>2. ASSUME NEW k \in Nat, k \notin Bad PROVE k + 1 \notin Bad
  <2>1. PICK g \in [SUBSET Backend -> Int] : Upto(g, k)
    BY <1>2, Zenon
  <2> DEFINE h == [s \in SUBSET Backend |-> IF s = {} THEN 0
                       ELSE f[Chosen(s)] + g[s \ {Chosen(s)}]]
  <2>2. h \in [SUBSET Backend -> Int]
    BY ChosenIn, Smaller
  <2>3. \A s \in SUBSET Backend : Cardinality(s) <= k => h[s] = g[s]
    BY <2>1
  <2>4. ASSUME NEW s \in SUBSET Backend, Cardinality(s) <= k + 1, s # {}
        PROVE  h[s \ {Chosen(s)}] = g[s \ {Chosen(s)}]
    <3> HIDE DEF h, Upto, Bad
    <3>0. /\ s \ {Chosen(s)} \in SUBSET Backend /\ Cardinality(s) \in Nat
          /\ Cardinality(s \ {Chosen(s)}) = Cardinality(s) - 1
      BY <2>4, Smaller
    <3>1. Cardinality(s \ {Chosen(s)}) <= k
      BY <2>4, <3>0
    <3> QED BY <2>3, <3>0, <3>1
  <2>5. Upto(h, k + 1)
    BY <2>4
  <2> QED BY <2>2, <2>5, Zenon
<1>3. Bad = {}
  <2> SUFFICES ASSUME Bad # {} PROVE FALSE
    OBVIOUS
  <2>0. Bad \in SUBSET Nat
    OBVIOUS
  <2> HIDE DEF Bad
  <2>1. PICK m \in Bad : \A y \in Bad : m <= y
    BY <2>0, LeastNat
  <2>2. m \in Nat /\ m # 0
    BY <1>1, <2>0
  <2>3. m - 1 \in Nat /\ m - 1 \notin Bad
    BY <2>1, <2>2
  <2>4. (m - 1) + 1 \notin Bad
    BY <1>2, <2>3
  <2> QED BY <2>2, <2>4
<1>4. PICK g \in [SUBSET Backend -> Int] : Upto(g, Cardinality(Backend))
  <2>1. Cardinality(Backend) \notin Bad
    BY <1>3
  <2> QED BY <1>0, <2>1, Zenon
<1>5. \A s \in SUBSET Backend : Cardinality(s) <= Cardinality(Backend)
  BY BackendFinite, FS_Subset
<1> QED BY <1>4, <1>5

LEMMA AddsDef ==
  ASSUME NEW f \in [Backend -> Int]
  PROVE  /\ Adds(f) \in [SUBSET Backend -> Int]
         /\ Adds(f)[{}] = 0
         /\ \A s \in SUBSET Backend :
               s # {} => Adds(f)[s] = f[Chosen(s)] + Adds(f)[s \ {Chosen(s)}]
<1>1. PICK g \in [SUBSET Backend -> Int] :
          \A s \in SUBSET Backend :
             g[s] = IF s = {} THEN 0 ELSE f[Chosen(s)] + g[s \ {Chosen(s)}]
  BY AddsExists
<1>2. g = [s \in SUBSET Backend |-> IF s = {} THEN 0 ELSE f[Chosen(s)] + g[s \ {Chosen(s)}]]
  BY <1>1
<1> DEFINE h == Adds(f)
<1>3. h = [s \in SUBSET Backend |-> IF s = {} THEN 0 ELSE f[Chosen(s)] + h[s \ {Chosen(s)}]]
  BY <1>2, Zenon DEF Adds
<1> HIDE DEF h
<1>4. /\ h[{}] = 0
      /\ \A s \in SUBSET Backend : s # {} => h[s] = f[Chosen(s)] + h[s \ {Chosen(s)}]
  BY <1>3, Zenon
<1> DEFINE Q == {s \in SUBSET Backend : h[s] \in Int}
<1>5. SUBSET Backend \subseteq Q
  <2>1. {} \in Q
    BY <1>4
  <2>2. ASSUME NEW s \in SUBSET Backend, s # {}, s \ {Chosen(s)} \in Q PROVE s \in Q
    BY <1>4, <2>2, ChosenIn
  <2> HIDE DEF Q
  <2> QED BY <2>1, <2>2, SetInduction
<1>6. h \in [SUBSET Backend -> Int]
  BY <1>3, <1>5
<1> QED BY <1>4, <1>6 DEF h

\* The three facts from which the others follow: a sum is additive, monotone, and
\* that of a function which is zero but in one place is its value there.
LEMMA SumType == ASSUME NEW f \in [Backend -> Int] PROVE SumOver(f) \in Int
BY AddsDef, SumIs

LEMMA SumAdd ==
  ASSUME NEW f \in [Backend -> Int], NEW g \in [Backend -> Int], NEW h \in [Backend -> Int],
         \A b \in Backend : h[b] = f[b] + g[b]
  PROVE  SumOver(h) = SumOver(f) + SumOver(g)
<1> DEFINE F == Adds(f)  G == Adds(g)  H == Adds(h)
           Q == {s \in SUBSET Backend : H[s] = F[s] + G[s]}
<1>1. /\ F[{}] = 0 /\ G[{}] = 0 /\ H[{}] = 0
      /\ F \in [SUBSET Backend -> Int] /\ G \in [SUBSET Backend -> Int]
      /\ H \in [SUBSET Backend -> Int]
  BY AddsDef
<1>2. \A s \in SUBSET Backend : s # {} =>
         /\ F[s] = f[Chosen(s)] + F[s \ {Chosen(s)}]
         /\ G[s] = g[Chosen(s)] + G[s \ {Chosen(s)}]
         /\ H[s] = h[Chosen(s)] + H[s \ {Chosen(s)}]
  BY AddsDef
<1> HIDE DEF F, G, H
<1>3. {} \in Q
  BY <1>1
<1>4. ASSUME NEW s \in SUBSET Backend, s # {}, s \ {Chosen(s)} \in Q PROVE s \in Q
  <2>1. Chosen(s) \in Backend
    BY <1>4, ChosenIn
  <2>2. f[Chosen(s)] \in Int /\ g[Chosen(s)] \in Int
        /\ h[Chosen(s)] = f[Chosen(s)] + g[Chosen(s)]
    BY <2>1
  <2>3. F[s \ {Chosen(s)}] \in Int /\ G[s \ {Chosen(s)}] \in Int
        /\ H[s \ {Chosen(s)}] = F[s \ {Chosen(s)}] + G[s \ {Chosen(s)}]
    BY <1>1, <1>4
  <2>4. H[s] = F[s] + G[s]
    BY <1>2, <1>4, <2>2, <2>3
  <2> QED BY <2>4
<1> HIDE DEF Q
<1>5. Backend \in Q
  BY <1>3, <1>4, SetInduction
<1> QED BY <1>5, SumIs DEF Q, F, G, H

LEMMA SumLeq ==
  ASSUME NEW f \in [Backend -> Int], NEW g \in [Backend -> Int],
         \A b \in Backend : f[b] <= g[b]
  PROVE  SumOver(f) <= SumOver(g)
<1> DEFINE F == Adds(f)  G == Adds(g)
           Q == {s \in SUBSET Backend : F[s] <= G[s]}
<1>1. /\ F[{}] = 0 /\ G[{}] = 0
      /\ F \in [SUBSET Backend -> Int] /\ G \in [SUBSET Backend -> Int]
  BY AddsDef
<1>2. \A s \in SUBSET Backend : s # {} =>
         /\ F[s] = f[Chosen(s)] + F[s \ {Chosen(s)}]
         /\ G[s] = g[Chosen(s)] + G[s \ {Chosen(s)}]
  BY AddsDef
<1> HIDE DEF F, G
<1>3. {} \in Q
  BY <1>1
<1>4. ASSUME NEW s \in SUBSET Backend, s # {}, s \ {Chosen(s)} \in Q PROVE s \in Q
  <2>1. Chosen(s) \in Backend
    BY <1>4, ChosenIn
  <2>2. f[Chosen(s)] \in Int /\ g[Chosen(s)] \in Int /\ f[Chosen(s)] <= g[Chosen(s)]
    BY <2>1
  <2>3. F[s \ {Chosen(s)}] \in Int /\ G[s \ {Chosen(s)}] \in Int
        /\ F[s \ {Chosen(s)}] <= G[s \ {Chosen(s)}]
    BY <1>1, <1>4
  <2>4. F[s] <= G[s]
    BY <1>2, <1>4, <2>2, <2>3
  <2> QED BY <2>4
<1> HIDE DEF Q
<1>5. Backend \in Q
  BY <1>3, <1>4, SetInduction
<1> QED BY <1>5, SumIs DEF Q, F, G

LEMMA SumOne ==
  ASSUME NEW x \in Backend, NEW f \in [Backend -> Int],
         \A b \in Backend : b # x => f[b] = 0
  PROVE  SumOver(f) = f[x]
<1> DEFINE F == Adds(f)
           Q == {s \in SUBSET Backend : F[s] = IF x \in s THEN f[x] ELSE 0}
<1>1. F[{}] = 0 /\ F \in [SUBSET Backend -> Int]
  BY AddsDef
<1>2. \A s \in SUBSET Backend : s # {} => F[s] = f[Chosen(s)] + F[s \ {Chosen(s)}]
  BY AddsDef
<1> HIDE DEF F
<1>3. {} \in Q
  BY <1>1
<1>4. ASSUME NEW s \in SUBSET Backend, s # {}, s \ {Chosen(s)} \in Q PROVE s \in Q
  <2>1. Chosen(s) \in s /\ f[x] \in Int /\ f[Chosen(s)] \in Int
    BY <1>4, ChosenIn
  <2>2. CASE Chosen(s) = x
    BY <1>2, <1>4, <2>1, <2>2
  <2>3. CASE Chosen(s) # x
    <3>1. f[Chosen(s)] = 0 /\ (x \in s <=> x \in s \ {Chosen(s)})
      BY <2>1, <2>3
    <3>2. F[s] = F[s \ {Chosen(s)}]
      BY <1>1, <1>2, <1>4, <3>1
    <3> QED BY <1>4, <3>1, <3>2
  <2> QED BY <2>2, <2>3
<1> HIDE DEF Q
<1>5. Backend \in Q
  BY <1>3, <1>4, SetInduction
<1> QED BY <1>5, SumIs DEF Q, F

\* Sums over some of the backends: over disjoint sets, of functions added and compared.
LEMMA OnlyTyped ==
  ASSUME NEW T, NEW f \in [Backend -> Int]
  PROVE  Only(T, f) \in [Backend -> Int] /\ SumIn(T, f) \in Int
BY SumType DEF Only, SumIn

LEMMA SumZero == SumOver(Zero) = 0
<1>1. Zero \in [Backend -> Int] /\ \A b \in Backend : Zero[b] = Zero[b] + Zero[b]
  BY DEF Zero
<1> DEFINE z == SumOver(Zero)
<1>2. z \in Int /\ z = z + z
  BY <1>1, SumType, SumAdd
<1> HIDE DEF z
<1>3. z = 0
  BY <1>2
<1> QED BY <1>3 DEF z

LEMMA SumBump ==
  ASSUME NEW f \in [Backend -> Int], NEW x \in Backend, NEW d \in Int
  PROVE  SumOver([f EXCEPT ![x] = @ + d]) = SumOver(f) + d
<1> DEFINE g == [f EXCEPT ![x] = @ + d]
           e == [b \in Backend |-> IF b = x THEN d ELSE 0]
<1>1. g \in [Backend -> Int] /\ e \in [Backend -> Int] /\ e[x] = d
  OBVIOUS
<1>2. \A b \in Backend : g[b] = f[b] + e[b]
  OBVIOUS
<1>3. \A b \in Backend : b # x => e[b] = 0
  OBVIOUS
<1> HIDE DEF g, e
<1>4. SumOver(g) = SumOver(f) + SumOver(e)
  BY <1>1, <1>2, SumAdd
<1>5. SumOver(e) = d
  BY <1>1, <1>3, SumOne
<1> QED BY <1>4, <1>5 DEF g

LEMMA SumSplit ==
  ASSUME NEW T, NEW U, T \cap U = {}, NEW f \in [Backend -> Int]
  PROVE  SumIn(T \cup U, f) = SumIn(T, f) + SumIn(U, f)
<1> DEFINE h == Only(T \cup U, f)
<1>1. h \in [Backend -> Int] /\ Only(T, f) \in [Backend -> Int] /\ Only(U, f) \in [Backend -> Int]
  BY OnlyTyped
<1>2. \A b \in Backend : h[b] = Only(T, f)[b] + Only(U, f)[b]
  BY DEF Only
<1> HIDE DEF h
<1>3. SumOver(h) = SumOver(Only(T, f)) + SumOver(Only(U, f))
  BY <1>1, <1>2, SumAdd
<1> QED BY <1>3 DEF h, SumIn

LEMMA SumInAdd ==
  ASSUME NEW T, NEW f \in [Backend -> Int], NEW g \in [Backend -> Int],
         NEW h \in [Backend -> Int], \A b \in Backend : b \in T => h[b] = f[b] + g[b]
  PROVE  SumIn(T, h) = SumIn(T, f) + SumIn(T, g)
<1>1. /\ Only(T, f) \in [Backend -> Int] /\ Only(T, g) \in [Backend -> Int]
      /\ Only(T, h) \in [Backend -> Int]
  BY OnlyTyped
<1>2. \A b \in Backend : Only(T, h)[b] = Only(T, f)[b] + Only(T, g)[b]
  BY DEF Only
<1>3. SumOver(Only(T, h)) = SumOver(Only(T, f)) + SumOver(Only(T, g))
  BY <1>1, <1>2, SumAdd
<1> QED BY <1>3 DEF SumIn

LEMMA SumInLeq ==
  ASSUME NEW T, NEW f \in [Backend -> Int], NEW g \in [Backend -> Int],
         \A b \in Backend : b \in T => f[b] <= g[b]
  PROVE  SumIn(T, f) <= SumIn(T, g)
<1>1. Only(T, f) \in [Backend -> Int] /\ Only(T, g) \in [Backend -> Int]
  BY OnlyTyped
<1>2. \A b \in Backend : Only(T, f)[b] <= Only(T, g)[b]
  BY DEF Only
<1>3. SumOver(Only(T, f)) <= SumOver(Only(T, g))
  BY <1>1, <1>2, SumLeq
<1> QED BY <1>3 DEF SumIn

\* Where two functions agree, so do their sums.
LEMMA SumInSame ==
  ASSUME NEW T, NEW f, NEW g, \A b \in Backend : b \in T => f[b] = g[b]
  PROVE  SumIn(T, f) = SumIn(T, g)
<1>1. Only(T, f) = Only(T, g)
  BY DEF Only
<1> QED BY <1>1 DEF SumIn

LEMMA SumInOne ==
  ASSUME NEW x \in Backend, NEW f \in [Backend -> Int]
  PROVE  SumIn({x}, f) = f[x]
<1>1. /\ Only({x}, f) \in [Backend -> Int] /\ Only({x}, f)[x] = f[x]
      /\ \A b \in Backend : b # x => Only({x}, f)[b] = 0
  BY OnlyTyped DEF Only
<1> QED BY <1>1, SumOne DEF SumIn

LEMMA SumInAll ==
  ASSUME NEW f \in [Backend -> Int]
  PROVE  SumIn(Backend, f) = SumOver(f)
<1>1. Only(Backend, f) = f
  BY DEF Only
<1> QED BY <1>1 DEF SumIn

LEMMA SumInNone ==
  ASSUME NEW f
  PROVE  SumIn({}, f) = 0
<1>1. Only({}, f) = Zero
  BY DEF Only, Zero
<1> QED BY <1>1, SumZero DEF SumIn

LEMMA SumRest ==
  ASSUME NEW T \in SUBSET Backend, NEW f \in [Backend -> Int]
  PROVE  SumOver(f) = SumIn(T, f) + SumIn(Backend \ T, f)
<1>1. SumIn(T \cup (Backend \ T), f) = SumIn(T, f) + SumIn(Backend \ T, f)
  BY SumSplit
<1>2. T \cup (Backend \ T) = Backend
  OBVIOUS
<1> QED BY <1>1, <1>2, SumInAll

\* A sum lies between what its least and its greatest member would add up to.
LEMMA SumConst ==
  ASSUME NEW k \in Int, NEW T \in SUBSET Backend
  PROVE  SumIn(T, [b \in Backend |-> k]) = k * Cardinality(T)
<1> DEFINE f == [b \in Backend |-> k]
           Q == {s \in SUBSET Backend : SumIn(s, f) = k * Cardinality(s)}
<1>0. f \in [Backend -> Int] /\ \A b \in Backend : f[b] = k
  OBVIOUS
<1> HIDE DEF f
<1>1. {} \in Q
  BY SumInNone, FS_EmptySet
<1>2. ASSUME NEW s \in SUBSET Backend, s # {}, s \ {Chosen(s)} \in Q PROVE s \in Q
  <2> DEFINE c == Chosen(s)
             n == Cardinality(s)
  <2>1. c \in s /\ (s \ {c}) \cup {c} = s /\ (s \ {c}) \cap {c} = {}
    BY <1>2, ChosenIn
  <2>2. n \in Nat /\ Cardinality(s \ {c}) = n - 1
    BY <1>2, Smaller
  <2>3. SumIn(s \ {c}, f) = k * (n - 1)
    BY <1>2, <2>2
  <2>4. SumIn({c}, f) = k
    BY <1>0, <2>1, SumInOne
  <2>5. SumIn(s, f) = SumIn(s \ {c}, f) + SumIn({c}, f)
    <3> HIDE DEF c
    <3>1. SumIn((s \ {c}) \cup {c}, f) = SumIn(s \ {c}, f) + SumIn({c}, f)
      BY <1>0, <2>1, SumSplit
    <3> QED BY <2>1, <3>1
  <2> HIDE DEF c, n
  <2>6. SumIn(s, f) = k * n
    BY <2>2, <2>3, <2>4, <2>5
  <2> QED BY <2>6 DEF n
<1> HIDE DEF Q
<1>3. T \in Q
  BY <1>1, <1>2, SetInduction
<1> QED BY <1>3 DEF Q, f

LEMMA SumAtMost ==
  ASSUME NEW T \in SUBSET Backend, NEW f \in [Backend -> Int], NEW k \in Int,
         \A b \in T : f[b] <= k
  PROVE  SumIn(T, f) <= k * Cardinality(T)
<1> DEFINE g == [b \in Backend |-> k]
<1>1. g \in [Backend -> Int] /\ \A b \in Backend : b \in T => f[b] <= g[b]
  OBVIOUS
<1> HIDE DEF g
<1>2. SumIn(T, f) <= SumIn(T, g)
  BY <1>1, SumInLeq
<1> QED BY <1>2, SumConst DEF g

LEMMA SumAtLeast ==
  ASSUME NEW T \in SUBSET Backend, NEW f \in [Backend -> Int], NEW k \in Int,
         \A b \in T : k <= f[b]
  PROVE  k * Cardinality(T) <= SumIn(T, f)
<1> DEFINE g == [b \in Backend |-> k]
<1>1. g \in [Backend -> Int] /\ \A b \in Backend : b \in T => g[b] <= f[b]
  OBVIOUS
<1> HIDE DEF g
<1>2. SumIn(T, g) <= SumIn(T, f)
  BY <1>1, SumInLeq
<1> QED BY <1>2, SumConst DEF g

\* Cardinalities, and what the weights add up to.
LEMMA Sizes ==
  ASSUME NEW T \in SUBSET Backend
  PROVE  Cardinality(T) \in 0..Len(Backends) /\ Len(Backends) \in Nat /\ IsFiniteSet(T)
BY BackendFinite, FS_Subset, FS_CardinalityType

LEMMA SizeSplit ==
  ASSUME NEW T \in SUBSET Backend, NEW U \in SUBSET Backend, T \cap U = {}
  PROVE  Cardinality(T \cup U) = Cardinality(T) + Cardinality(U)
<1>1. /\ IsFiniteSet(T) /\ IsFiniteSet(U) /\ Cardinality(T) \in Nat /\ Cardinality(U) \in Nat
  BY Sizes
<1>2. Cardinality(T \cup U) = Cardinality(T) + Cardinality(U) - Cardinality(T \cap U)
  BY <1>1, FS_Union
<1>3. Cardinality(T \cap U) = 0
  BY FS_EmptySet
<1> QED BY <1>1, <1>2, <1>3

LEMMA WeightsTyped ==
  /\ Weight \in [Backend -> Int]
  /\ \A b \in Backend : 1 <= Weight[b]
  /\ TotalWeight \in Nat /\ Len(Backends) \in Nat /\ Len(Backends) <= TotalWeight
<1>1. Weight \in [Backend -> Int] /\ \A b \in Backend : 1 <= Weight[b]
  BY WeightedAssumption
<1>2. 1 * Cardinality(Backend) <= SumIn(Backend, Weight)
  BY <1>1, SumAtLeast
<1>3. SumIn(Backend, Weight) = TotalWeight /\ TotalWeight \in Int
  BY <1>1, SumInAll, SumType DEF TotalWeight
<1>4. Cardinality(Backend) = Len(Backends) /\ Len(Backends) \in Nat
  BY BackendFinite, PoolAssumption
<1> QED BY <1>1, <1>2, <1>3, <1>4

\* Every backend that is left out leaves out one at least.
LEMMA WeightIn ==
  ASSUME NEW T \in SUBSET Backend
  PROVE  /\ SumIn(T, Weight) \in Int
         /\ Cardinality(T) <= SumIn(T, Weight)
         /\ SumIn(T, Weight) <= TotalWeight - (Len(Backends) - Cardinality(T))
<1> DEFINE U == Backend \ T
<1>0. U \in SUBSET Backend /\ T \cap U = {} /\ T \cup U = Backend
  OBVIOUS
<1>1. Weight \in [Backend -> Int] /\ \A b \in Backend : 1 <= Weight[b]
  BY WeightsTyped
<1>2. 1 * Cardinality(T) <= SumIn(T, Weight) /\ SumIn(T, Weight) \in Int
  BY <1>1, SumAtLeast, OnlyTyped
<1>3. 1 * Cardinality(U) <= SumIn(U, Weight) /\ SumIn(U, Weight) \in Int
  <2> HIDE DEF U
  <2> QED BY <1>0, <1>1, SumAtLeast, OnlyTyped
<1>4. Cardinality(T) + Cardinality(U) = Len(Backends)
  <2> HIDE DEF U
  <2> QED BY <1>0, SizeSplit, BackendFinite
<1>5. TotalWeight = SumIn(T, Weight) + SumIn(U, Weight)
  BY <1>1, SumRest DEF TotalWeight
<1>6. Cardinality(T) \in Nat /\ Cardinality(U) \in Nat
  BY Sizes
<1> HIDE DEF U
<1> QED BY <1>2, <1>3, <1>4, <1>5, <1>6

-----------------------------------------------------------------------------
\* The round: the backends of E earn, the richest of them, v, pays for all

\* The arithmetic of Spread: S1 are the credits of k backends and the winner before the
\* round, S2 of those of the k that earn nothing, X of the j that earn, after they have,
\* y the winner's before it pays, and M what the j and the winner earn.
LEMMA Dilute ==
  ASSUME NEW k \in Nat, NEW j \in Nat, NEW n \in Nat, NEW W \in Nat, NEW P \in Int,
         NEW S1 \in Int, NEW S2 \in Int, NEW X \in Int, NEW y \in Int, NEW M \in Int,
         1 <= j, j <= k, n <= W, P = W - n + 2,
         2 * S1 <= (k + 1) * (n - (k + 1)) * P,
         2 * S2 <= (k - j) * (n - (k - j)) * P,
         M <= W - (n - (j + 1)),
         S1 + M = S2 + X + y, X <= j * y
  PROVE  2 * (S2 + X) <= k * (n - k) * P
<1> DEFINE G == k * (n - k) * P
           Z == S2 + X
<1>0. G \in Int /\ Z \in Int
  OBVIOUS
<1>1. (j + 1) * Z <= j * (S1 + M) + S2
  <2>1. j * (S1 + M) = j * S2 + j * X + j * y
    <3>1. j * (S2 + X + y) = j * S2 + j * X + j * y
      OBVIOUS
    <3> QED BY <3>1
  <2>2. (j + 1) * Z = j * S2 + j * X + S2 + X
    OBVIOUS
  <2> QED BY <2>1, <2>2
<1>2. j * (2 * S1) <= j * ((k + 1) * (n - (k + 1)) * P)
  <2> DEFINE A == (k + 1) * (n - (k + 1)) * P
  <2>1. A \in Int /\ 2 * S1 <= A
    OBVIOUS
  <2> HIDE DEF A
  <2>2. j * (A - 2 * S1) >= 0
    BY <2>1
  <2>3. j * (A - 2 * S1) = j * A - j * (2 * S1)
    BY <2>1
  <2>4. j * (2 * S1) <= j * A
    BY <2>1, <2>2, <2>3
  <2> QED BY <2>4 DEF A
<1>3. j * (2 * M) <= j * (2 * (P + j - 1))
  <2>1. j * (2 * (P + j - 1) - 2 * M) >= 0
    OBVIOUS
  <2>2. j * (2 * (P + j - 1) - 2 * M) = j * (2 * (P + j - 1)) - j * (2 * M)
    OBVIOUS
  <2> QED BY <2>1, <2>2
\* The two bounds, weighted j to one, miss G by P * j.
<1>4. j * ((k + 1) * (n - (k + 1)) * P) + (k - j) * (n - (k - j)) * P
        = (j + 1) * G - P * j * (j + 1)
  OBVIOUS
<1>5. P * j * (j + 1) - j * (2 * (P + j - 1)) >= 0
  <2>1. P * j * (j + 1) - j * (2 * (P + j - 1)) = (P - 2) * (j * (j - 1))
    OBVIOUS
  <2>2. j * (j - 1) >= 0 /\ j * (j - 1) \in Int /\ P - 2 >= 0
    OBVIOUS
  <2>3. (P - 2) * (j * (j - 1)) >= 0
    BY <2>2
  <2> QED BY <2>1, <2>3
<1>6. 2 * (j * (S1 + M)) = j * (2 * S1) + j * (2 * M)
  OBVIOUS
<1> DEFINE a1 == j * (2 * S1)  a2 == j * (2 * M)
           b1 == j * ((k + 1) * (n - (k + 1)) * P)  b2 == j * (2 * (P + j - 1))
           b3 == (k - j) * (n - (k - j)) * P  pj == P * j * (j + 1)
           zz == (j + 1) * Z  gg == (j + 1) * G  sm == j * (S1 + M)
<1>7. /\ a1 \in Int /\ a2 \in Int /\ b1 \in Int /\ b2 \in Int /\ b3 \in Int /\ pj \in Int
      /\ zz \in Int /\ gg \in Int /\ sm \in Int
  OBVIOUS
<1>8. /\ zz <= sm + S2 /\ a1 <= b1 /\ a2 <= b2 /\ b1 + b3 = gg - pj /\ pj - b2 >= 0
      /\ 2 * sm = a1 + a2 /\ 2 * S2 <= b3
  BY <1>1, <1>2, <1>3, <1>4, <1>5, <1>6
<1>9. 2 * zz <= gg
  <2> HIDE DEF a1, a2, b1, b2, b3, pj, zz, gg, sm
  <2> QED BY <1>7, <1>8
<1>10. (j + 1) * (G - 2 * Z) >= 0
  <2>1. (j + 1) * (G - 2 * Z) = gg - 2 * zz
    <3> HIDE DEF G, Z
    <3> QED BY <1>0
  <2> HIDE DEF zz, gg
  <2> QED BY <1>7, <1>9, <2>1
<1>11. G - 2 * Z >= 0
  <2> HIDE DEF G, Z
  <2> SUFFICES ASSUME G - 2 * Z <= -1 PROVE FALSE
    BY <1>0
  <2>1. (j + 1) * (G - 2 * Z) < 0
    BY <1>0
  <2> QED BY <1>0, <1>10, <2>1
<1> QED BY <1>0, <1>11

\* c before the round, e when those in E have earned, d when v has paid.
Paid(c, e, d, E, v) ==
    /\ \A b \in Backend : e[b] = c[b] + Only(E, Weight)[b]
    /\ v \in E /\ \A b \in E : e[b] <= e[v]
    /\ \A b \in Backend : b # v => d[b] = e[b]
    /\ d[v] = e[v] - SumIn(E, Weight)

\* What a set of backends earns.
LEMMA Earned ==
  ASSUME NEW c \in [Backend -> Int], NEW e \in [Backend -> Int], NEW E \in SUBSET Backend,
         \A b \in Backend : e[b] = c[b] + Only(E, Weight)[b], NEW T \in SUBSET Backend
  PROVE  SumIn(T, e) = SumIn(T, c) + SumIn(T \cap E, Weight)
<1> DEFINE o == Only(E, Weight)
<1>1. o \in [Backend -> Int]
  BY WeightsTyped, OnlyTyped
<1>2. SumIn(T, e) = SumIn(T, c) + SumIn(T, o)
  <2> HIDE DEF o
  <2>1. \A b \in Backend : b \in T => e[b] = c[b] + o[b]
    BY DEF o
  <2> QED BY <1>1, <2>1, SumInAdd
<1>3. Only(T, o) = Only(T \cap E, Weight)
  BY DEF Only
<1> QED BY <1>2, <1>3 DEF SumIn

LEMMA SpreadStep ==
  ASSUME NEW c \in [Backend -> Int], NEW e \in [Backend -> Int], NEW d \in [Backend -> Int],
         NEW E \in SUBSET Backend, NEW v \in Backend, Paid(c, e, d, E, v), Spread(c)
  PROVE  Spread(d)
<1> DEFINE n == Len(Backends)
           W == TotalWeight
           P == W - n + 2
<1>0. n \in Nat /\ W \in Nat /\ n <= W /\ Weight \in [Backend -> Int] /\ P \in Int /\ P = W - n + 2
  BY WeightsTyped
<1> HIDE DEF n, W, P
<1> SUFFICES ASSUME NEW T \in SUBSET Backend
             PROVE  2 * SumIn(T, d) <= Cardinality(T) * (n - Cardinality(T)) * P
  BY DEF Spread, n, W, P
<1> DEFINE k == Cardinality(T)
           J == T \cap E
           D == T \ E
           j == Cardinality(J)
<1>1. /\ \A b \in Backend : e[b] = c[b] + Only(E, Weight)[b]
      /\ v \in E /\ \A b \in E : e[b] <= e[v]
      /\ \A b \in Backend : b # v => d[b] = e[b]
      /\ d[v] = e[v] - SumIn(E, Weight)
  BY DEF Paid
<1>2. \A S \in SUBSET Backend : 2 * SumIn(S, c) <= Cardinality(S) * (n - Cardinality(S)) * P
  BY DEF Spread, n, W, P
<1>3. /\ J \in SUBSET Backend /\ D \in SUBSET Backend /\ J \cup D = T /\ J \cap D = {}
      /\ T = J \cup D
  OBVIOUS
<1>4. k \in Nat /\ j \in Nat /\ Cardinality(D) = k - j /\ j <= k
  <2> HIDE DEF J, D
  <2>1. Cardinality(J \cup D) = j + Cardinality(D)
    BY <1>3, SizeSplit
  <2>2. Cardinality(J) \in Nat /\ Cardinality(D) \in Nat /\ Cardinality(T) \in Nat
    BY <1>3, Sizes
  <2> QED BY <1>3, <2>1, <2>2
<1>5. /\ SumIn(T, c) \in Int /\ SumIn(T, d) \in Int /\ SumIn(D, c) \in Int /\ SumIn(J, e) \in Int
      /\ SumIn(T \cup {v}, c) \in Int
  BY OnlyTyped
<1>6. CASE v \in T
  <2> DEFINE R == T \ {v}
  <2>1. R \in SUBSET Backend /\ R \cup {v} = T /\ R \cap {v} = {}
    BY <1>6
  <2>2. SumIn(T, d) = SumIn(R, d) + d[v] /\ SumIn(T, e) = SumIn(R, e) + e[v]
    <3> HIDE DEF R
    <3>1. /\ SumIn(R \cup {v}, d) = SumIn(R, d) + SumIn({v}, d)
          /\ SumIn(R \cup {v}, e) = SumIn(R, e) + SumIn({v}, e)
      BY <2>1, SumSplit
    <3> QED BY <2>1, <3>1, SumInOne
  <2>3. SumIn(R, d) = SumIn(R, e)
    BY <1>1, SumInSame
  <2>4. SumIn(T, e) = SumIn(T, c) + SumIn(J, Weight)
    BY <1>1, Earned
  <2>5. SumIn(J, Weight) <= SumIn(E, Weight) /\ SumIn(J, Weight) \in Int /\ SumIn(E, Weight) \in Int
    <3>1. E = J \cup (E \ T) /\ J \cap (E \ T) = {} /\ E \ T \in SUBSET Backend
      OBVIOUS
    <3>2. SumIn(J \cup (E \ T), Weight) = SumIn(J, Weight) + SumIn(E \ T, Weight)
      BY <1>0, <3>1, SumSplit
    <3>3. /\ SumIn(E \ T, Weight) \in Int /\ Cardinality(E \ T) \in Nat
          /\ Cardinality(E \ T) <= SumIn(E \ T, Weight)
      BY <3>1, WeightIn, Sizes
    <3>4. SumIn(J, Weight) \in Int /\ SumIn(E, Weight) \in Int
      BY <1>0, OnlyTyped
    <3>5. SumIn(E, Weight) = SumIn(J, Weight) + SumIn(E \ T, Weight)
      BY <3>1, <3>2
    <3> HIDE DEF J
    <3> QED BY <3>3, <3>4, <3>5
  <2>6. /\ SumIn(R, e) \in Int /\ SumIn(T, e) \in Int /\ d[v] \in Int /\ e[v] \in Int
    BY OnlyTyped
  <2>7. SumIn(T, d) <= SumIn(T, c)
    <3> HIDE DEF R, J
    <3> QED BY <1>1, <1>5, <2>2, <2>3, <2>4, <2>5, <2>6
  <2>8. 2 * SumIn(T, c) <= k * (n - k) * P
    BY <1>2
  <2> DEFINE B == k * (n - k) * P
  <2>9. B \in Int /\ 2 * SumIn(T, c) <= B
    BY <1>0, <1>4, <2>8
  <2>10. 2 * SumIn(T, d) <= B
    <3> HIDE DEF B
    <3> QED BY <1>5, <2>7, <2>9
  <2> QED BY <2>10
<1>7. CASE v \notin T
  <2>1. SumIn(T, d) = SumIn(T, e)
    BY <1>1, <1>7, SumInSame
  <2>2. SumIn(T, e) = SumIn(J, e) + SumIn(D, e)
    <3> HIDE DEF J, D
    <3> QED BY <1>3, SumSplit
  <2>3. SumIn(D, e) = SumIn(D, c)
    <3>1. \A b \in Backend : b \in D => e[b] = c[b]
      BY <1>1 DEF Only
    <3> HIDE DEF D
    <3> QED BY <3>1, SumInSame
  <2>4. CASE J = {}
    <3>1. SumIn(J, e) = 0 /\ D = T
      BY <2>4, SumInNone
    <3>2. SumIn(T, d) = SumIn(T, c)
      <4> HIDE DEF J, D
      <4> QED BY <1>5, <2>1, <2>2, <2>3, <3>1
    <3> QED BY <1>2, <3>2
  <2>5. CASE J # {}
    <3> DEFINE U == T \cup {v}
               V == J \cup {v}
    <3>1. /\ U \in SUBSET Backend /\ V \in SUBSET Backend
          /\ T \cap {v} = {} /\ J \cap {v} = {} /\ U \cap E = V
      BY <1>1, <1>7
    <3>2. Cardinality({v}) = 1 /\ {v} \in SUBSET Backend
      BY FS_Singleton
    <3>3. Cardinality(U) = k + 1 /\ Cardinality(V) = j + 1
      <4> HIDE DEF J, U, V
      <4> QED BY <1>3, <3>1, <3>2, SizeSplit DEF U, V
    <3>4. 1 <= j
      <4>1. j # 0
        BY <1>3, <2>5, Sizes, FS_EmptySet
      <4> HIDE DEF j
      <4> QED BY <1>4, <4>1
    <3>5. 2 * SumIn(U, c) <= (k + 1) * (n - (k + 1)) * P
      <4> HIDE DEF U
      <4> QED BY <1>2, <3>1, <3>3
    <3>6. 2 * SumIn(D, c) <= (k - j) * (n - (k - j)) * P
      <4> HIDE DEF D, k, j
      <4> QED BY <1>2, <1>3, <1>4
    <3>7. SumIn(V, Weight) <= W - (n - (j + 1)) /\ SumIn(V, Weight) \in Int
      <4> HIDE DEF V
      <4> QED BY <3>1, <3>3, WeightIn DEF W, n
    <3>8. SumIn(U, c) + SumIn(V, Weight) = SumIn(D, c) + SumIn(J, e) + e[v]
      <4>1. SumIn(U, e) = SumIn(U, c) + SumIn(V, Weight)
        <5> HIDE DEF U, V
        <5> QED BY <1>1, <3>1, Earned
      <4>2. SumIn(U, e) = SumIn(T, e) + SumIn({v}, e)
        BY <3>1, SumSplit
      <4>3. SumIn({v}, e) = e[v] /\ e[v] \in Int
        BY SumInOne
      <4> HIDE DEF U, V, J, D
      <4> QED BY <1>5, <2>2, <2>3, <4>1, <4>2, <4>3
    <3>9. SumIn(J, e) <= j * e[v]
      <4>1. SumIn(J, e) <= e[v] * j /\ e[v] \in Int
        BY <1>1, <1>3, SumAtMost
      <4> HIDE DEF J, j
      <4> QED BY <1>4, <4>1
    <3>10. SumIn(U, c) \in Int /\ e[v] \in Int
      BY <1>5
    <3> HIDE DEF U, V, J, D, k, j
    <3>11. 2 * (SumIn(D, c) + SumIn(J, e)) <= k * (n - k) * P
      BY <1>0, <1>4, <1>5, <3>4, <3>5, <3>6, <3>7, <3>8, <3>9, <3>10, Dilute
    <3>12. SumIn(T, d) = SumIn(D, c) + SumIn(J, e)
      BY <1>5, <2>1, <2>2, <2>3
    <3> QED BY <3>11, <3>12 DEF k
  <2> QED BY <2>4, <2>5
<1> QED BY <1>6, <1>7

LEMMA ReachTyped == Reach \in Int
BY WeightsTyped DEF Reach

\* Spread keeps every credit and every debt within Reach.
LEMMA WithinReach ==
  ASSUME NEW c \in [Backend -> Int], SumOver(c) = 0, Spread(c), NEW b \in Backend
  PROVE  2 * c[b] <= Reach /\ -Reach <= 2 * c[b]
<1> DEFINE n == Len(Backends)
           P == TotalWeight - n + 2
           R == Backend \ {b}
<1>1. n \in Nat /\ P \in Int /\ c[b] \in Int /\ Reach \in Int
  BY WeightsTyped, ReachTyped
<1>2. R \in SUBSET Backend /\ {b} \in SUBSET Backend /\ {b} \cap R = {} /\ {b} \cup R = Backend
  OBVIOUS
<1>3. Cardinality({b}) = 1
  BY FS_Singleton
<1>4. Cardinality(R) = n - 1
  <2>1. Cardinality({b} \cup R) = 1 + Cardinality(R) /\ Cardinality(R) \in Nat
    <3> HIDE DEF R
    <3> QED BY <1>2, <1>3, SizeSplit, Sizes
  <2>2. Cardinality(Backend) = n
    BY BackendFinite
  <2> HIDE DEF R, n
  <2> QED BY <1>2, <2>1, <2>2
<1>5. Reach = (n - 1) * P
  BY DEF Reach
<1>6. \A T \in SUBSET Backend : 2 * SumIn(T, c) <= Cardinality(T) * (n - Cardinality(T)) * P
  BY DEF Spread
<1>7. SumIn({b}, c) = c[b] /\ SumIn(R, c) = -c[b]
  <2>1. SumIn({b}, c) = c[b]
    BY SumInOne
  <2>2. SumOver(c) = SumIn({b}, c) + SumIn(R, c)
    BY <1>2, SumRest
  <2>3. SumIn(R, c) \in Int
    BY OnlyTyped
  <2> HIDE DEF R
  <2> QED BY <1>1, <2>1, <2>2, <2>3
<1> HIDE DEF n, P, R
<1>8. 2 * c[b] <= 1 * (n - 1) * P
  BY <1>2, <1>3, <1>6, <1>7
<1>9. 2 * (-c[b]) <= (n - 1) * (n - (n - 1)) * P
  BY <1>2, <1>4, <1>6, <1>7
<1>10. (n - 1) * (n - (n - 1)) * P = (n - 1) * P /\ 1 * (n - 1) * P = (n - 1) * P
  BY <1>1
<1> QED BY <1>1, <1>5, <1>8, <1>9, <1>10

\* What the winner pays is what has been earned.
LEMMA BalanceStep ==
  ASSUME NEW c \in [Backend -> Int], NEW e \in [Backend -> Int], NEW d \in [Backend -> Int],
         NEW E \in SUBSET Backend, NEW v \in Backend, Paid(c, e, d, E, v)
  PROVE  SumOver(e) = SumOver(c) + SumIn(E, Weight) /\ SumOver(d) = SumOver(c)
<1>1. SumIn(Backend, e) = SumIn(Backend, c) + SumIn(Backend \cap E, Weight)
  BY Earned DEF Paid
<1>2. Backend \cap E = E
  OBVIOUS
<1>3. SumOver(e) = SumOver(c) + SumIn(E, Weight)
  BY <1>1, <1>2, SumInAll
<1> DEFINE m == -SumIn(E, Weight)
<1>4. m \in Int /\ SumIn(E, Weight) \in Int /\ SumOver(c) \in Int
  BY WeightsTyped, OnlyTyped, SumType
<1>5. d = [e EXCEPT ![v] = @ + m]
  <2>1. \A b \in Backend : d[b] = [e EXCEPT ![v] = @ + m][b]
    BY <1>4 DEF Paid
  <2> QED BY <2>1
<1>6. SumOver(d) = SumOver(e) + m
  <2> HIDE DEF m
  <2> QED BY <1>4, <1>5, SumBump
<1> QED BY <1>3, <1>4, <1>6

\* When a cycle is over, every backend has had its weight in requests, and all credits
\* are zero again.
LEMMA CycleExact ==
  ASSUME NEW c \in [Backend -> Int], NEW p \in [Backend -> Nat], Shares(c, p),
         SumOver(p) = TotalWeight
  PROVE  p = Weight /\ \A b \in Backend : c[b] = 0
<1> DEFINE W == TotalWeight
<1>0. /\ W \in Nat /\ Weight \in [Backend -> Int] /\ p \in [Backend -> Int] /\ SumOver(Weight) = W
      /\ \A b \in Backend : Weight[b] \in Nat
  BY WeightsTyped, WeightedAssumption DEF TotalWeight
<1>1. \A b \in Backend : c[b] = W * Weight[b] - p[b] * W /\ c[b] > -W
  BY DEF Shares
<1> HIDE DEF W
<1>2. ASSUME NEW b \in Backend PROVE p[b] <= Weight[b]
  <2>1. p[b] \in Nat /\ Weight[b] \in Nat
    BY <1>0
  <2>2. W * (Weight[b] - p[b] + 1) > 0
    <3>1. W * (Weight[b] - p[b] + 1) = W * Weight[b] - p[b] * W + W
      BY <1>0, <2>1
    <3> QED BY <1>0, <1>1, <2>1, <3>1
  <2>3. ASSUME Weight[b] - p[b] + 1 <= 0 PROVE FALSE
    <3>1. W * (Weight[b] - p[b] + 1) <= 0
      BY <1>0, <2>1, <2>3
    <3> QED BY <2>1, <1>0, <2>2, <3>1
  <2> QED BY <2>1, <2>3
<1>3. ASSUME NEW b \in Backend, p[b] # Weight[b] PROVE FALSE
  <2> DEFINE q == [p EXCEPT ![b] = @ + 1]
  <2>1. q \in [Backend -> Int] /\ \A x \in Backend : q[x] <= Weight[x]
    BY <1>0, <1>2, <1>3
  <2>2. q = [p EXCEPT ![b] = @ + 1]
    OBVIOUS
  <2> HIDE DEF q
  <2>3. SumOver(q) = SumOver(p) + 1
    <3>1. p \in [Backend -> Int] /\ 1 \in Int
      BY <1>0
    <3> QED BY <2>2, <3>1, SumBump
  <2>4. SumOver(q) <= SumOver(Weight)
    BY <1>0, <2>1, SumLeq
  <2> QED BY <1>0, <2>3, <2>4 DEF W
<1>4. \A b \in Backend : p[b] = Weight[b]
  BY <1>3
<1>5. p = Weight
  BY <1>0, <1>4
<1>6. \A b \in Backend : c[b] = 0
  BY <1>0, <1>1, <1>4
<1> QED BY <1>5, <1>6

\* A round of all backends keeps the shares: the winner had credit, because together
\* they had.
LEMMA SharesStep ==
  ASSUME NEW c \in [Backend -> Int], NEW e \in [Backend -> Int], NEW d \in [Backend -> Int],
         NEW v \in Backend, Paid(c, e, d, Backend, v), SumOver(c) = 0,
         NEW p \in [Backend -> Nat], Shares(c, p),
         NEW q, q = [IF SumOver(p) = TotalWeight THEN Zero ELSE p EXCEPT ![v] = @ + 1]
  PROVE  Shares(d, q)
<1> DEFINE W == TotalWeight
           n == Len(Backends)
           r == IF SumOver(p) = TotalWeight THEN Zero ELSE p
           N == SumOver(r)
<1>0. /\ W \in Nat /\ Weight \in [Backend -> Int] /\ n \in Nat /\ n <= W
      /\ \A b \in Backend : Weight[b] \in Int /\ 1 <= Weight[b]
  BY WeightsTyped
<1>1. r \in [Backend -> Int] /\ r \in [Backend -> Nat]
  BY DEF Zero
<1>2. N \in Int
  BY <1>1, SumType
<1>3. \A b \in Backend : c[b] = N * Weight[b] - r[b] * W /\ c[b] > -W
  <2>1. CASE SumOver(p) = TotalWeight
    <3>1. \A b \in Backend : c[b] = 0
      BY <2>1, CycleExact
    <3>2. N = 0 /\ \A b \in Backend : r[b] = 0
      BY <2>1, SumZero DEF Zero
    <3>3. \A b \in Backend : c[b] > -W
      BY DEF Shares
    <3> HIDE DEF N, r, W
    <3> QED BY <1>0, <3>1, <3>2, <3>3
  <2>2. CASE SumOver(p) # TotalWeight
    BY <2>2 DEF Shares
  <2> QED BY <2>1, <2>2
<1>4. q = [r EXCEPT ![v] = @ + 1]
  OBVIOUS
<1> HIDE DEF N, r
<1>5. SumOver(q) = N + 1
  BY <1>1, <1>4, SumBump DEF N
<1>6. /\ \A b \in Backend : e[b] = c[b] + Weight[b]
      /\ \A b \in Backend : e[b] <= e[v]
      /\ \A b \in Backend : b # v => d[b] = e[b]
      /\ d[v] = e[v] - W
  <2>1. SumIn(Backend, Weight) = W
    BY <1>0, SumInAll DEF TotalWeight
  <2> QED BY <2>1 DEF Paid, Only
<1>7. SumOver(e) = W
  <2>1. SumOver(e) = SumOver(c) + SumIn(Backend, Weight)
    BY BalanceStep
  <2>2. SumIn(Backend, Weight) = W
    BY <1>0, SumInAll DEF TotalWeight
  <2> QED BY <1>0, <2>1, <2>2
<1>8. e[v] > 0
  <2>1. SumIn(Backend, e) <= e[v] * Cardinality(Backend)
    BY <1>6, SumAtMost
  <2>2. SumIn(Backend, e) = W /\ Cardinality(Backend) = n
    BY <1>7, SumInAll, BackendFinite
  <2>3. 1 <= W
    <3>1. n # 0
      BY <2>2, BackendFinite, FS_EmptySet
    <3> HIDE DEF n, W
    <3> QED BY <1>0, <3>1
  <2>4. W <= e[v] * n
    BY <2>1, <2>2
  <2> HIDE DEF n, W
  <2> SUFFICES ASSUME e[v] <= 0 PROVE FALSE
    OBVIOUS
  <2>5. e[v] * n <= 0
    BY <1>0
  <2> QED BY <1>0, <2>3, <2>4, <2>5
<1> SUFFICES ASSUME NEW b \in Backend
             PROVE  d[b] = (N + 1) * Weight[b] - q[b] * W /\ d[b] > -W
  BY <1>5 DEF Shares
<1> HIDE DEF W, n
<1>9. (N + 1) * Weight[b] = N * Weight[b] + Weight[b] /\ r[b] \in Int /\ N * Weight[b] \in Int
      /\ r[b] * W \in Int /\ (r[b] + 1) * W = r[b] * W + W
  BY <1>0, <1>1, <1>2
<1>10. CASE b = v
  <2>1. q[b] = r[b] + 1
    BY <1>1, <1>4, <1>10
  <2>2. d[b] = c[b] + Weight[b] - W /\ d[b] > -W
    BY <1>0, <1>6, <1>8, <1>10
  <2> QED BY <1>0, <1>3, <1>9, <2>1, <2>2
<1>11. CASE b # v
  <2>1. q[b] = r[b]
    BY <1>1, <1>4, <1>11
  <2>2. d[b] = c[b] + Weight[b] /\ d[b] > -W
    BY <1>0, <1>3, <1>6, <1>11
  <2> QED BY <1>0, <1>3, <1>9, <2>1, <2>2
<1> QED BY <1>10, <1>11

-----------------------------------------------------------------------------
\* The steps of the weighted balancer

\* Before anyone has earned, the credits are what they are.
LEMMA StartNone == ASSUME NEW c \in [Backend -> Int] PROVE Start(c, {}) = c
BY DEF Start, Only

LEMMA StartTyped ==
  ASSUME NEW c \in [Backend -> Int], NEW E
  PROVE  Start(c, E) \in [Backend -> Int]
<1>1. Only(E, Weight) \in [Backend -> Int]
  BY WeightsTyped, OnlyTyped
<1> QED BY <1>1 DEF Start

LEMMA WeightedInitInv == WeightedInit => WeightedInv
<1> SUFFICES ASSUME WeightedInit PROVE WeightedInv
  OBVIOUS
<1>1. WeightedTypeOK
  BY PoolAssumption DEF WeightedInit, WeightedTypeOK, Zero, AllAlive, Free, RoundType
<1>2. RoundOK({})
  <2>1. SumIn({}, Weight) = 0
    BY SumInNone
  <2>2. round.total = 0 /\ round.best = None /\ round.cursor = -1 /\ alive = AllAlive
    BY DEF WeightedInit, Free
  <2>3. Met = {}
    BY <2>2 DEF Met
  <2> QED BY <2>1, <2>2, <2>3 DEF RoundOK
<1>3. Zero \in [Backend -> Int] /\ \A b \in Backend : Zero[b] = 0
  BY DEF Zero
<1>4. SumOver(Zero) = 0
  BY SumZero
<1>5. Spread(Zero)
  <2> DEFINE n == Len(Backends)
             P == TotalWeight - n + 2
  <2>1. n \in Nat /\ P \in Nat
    BY WeightsTyped
  <2> SUFFICES ASSUME NEW T \in SUBSET Backend
               PROVE  2 * SumIn(T, Zero) <= Cardinality(T) * (n - Cardinality(T)) * P
    BY DEF Spread
  <2> DEFINE k == Cardinality(T)
             m == k * (n - k)
  <2>2. SumIn(T, Zero) <= 0 * k
    BY <1>3, SumAtMost
  <2>3. SumIn(T, Zero) \in Int /\ k \in Nat /\ n - k \in Nat
    BY <1>3, OnlyTyped, Sizes
  <2> HIDE DEF k, n, P
  <2>4. m \in Nat
    BY <2>3
  <2> HIDE DEF m
  <2>5. 0 <= m * P /\ m * P \in Int
    BY <2>1, <2>4
  <2>6. 2 * SumIn(T, Zero) <= m * P
    BY <2>2, <2>3, <2>5
  <2> QED BY <2>6 DEF m, k
<1>6. Patience(Zero, Zero)
  <2> SUFFICES ASSUME NEW b \in Backend
               PROVE  2 * (Zero[b] * Weight[b]) <= 2 * Zero[b] + Reach + 2 * Weight[b]
    BY DEF Patience
  <2>1. 2 * Zero[b] <= Reach /\ Reach \in Int
    BY <1>3, <1>4, <1>5, WithinReach, ReachTyped
  <2>2. Weight[b] \in Nat
    BY WeightedAssumption
  <2> QED BY <1>3, <2>1, <2>2
<1>7. Shares(Zero, Zero)
  <2> SUFFICES ASSUME NEW b \in Backend
               PROVE  /\ Zero[b] = SumOver(Zero) * Weight[b] - Zero[b] * TotalWeight
                      /\ Zero[b] > -TotalWeight
    BY DEF Shares
  <2>1. Weight[b] \in Nat /\ 1 <= Weight[b] /\ TotalWeight \in Nat /\ Weight[b] <= TotalWeight
    <3>1. SumIn({b}, Weight) = Weight[b]
      BY WeightsTyped, SumInOne
    <3>2. /\ SumIn({b}, Weight) <= TotalWeight - (Len(Backends) - Cardinality({b}))
          /\ Cardinality({b}) \in 0..Len(Backends) /\ Len(Backends) \in Nat
      BY WeightIn, Sizes
    <3> QED BY <3>1, <3>2, WeightsTyped, WeightedAssumption
  <2> QED BY <1>3, <1>4, <2>1
<1>8. CreditInv({})
  <2>1. Start(current, {}) = Zero /\ waited = Zero /\ picked = Zero
    BY <1>3, StartNone DEF WeightedInit
  <2> QED BY <1>4, <1>5, <1>6, <1>7, <2>1 DEF CreditInv
<1> QED BY <1>1, <1>2, <1>8 DEF WeightedInv

LEMMA WeightedTypeStep == WeightedTypeOK /\ [WeightedNext]_weightedVars => WeightedTypeOK'
<1> SUFFICES ASSUME WeightedTypeOK, [WeightedNext]_weightedVars PROVE WeightedTypeOK'
  OBVIOUS
<1>0. /\ Len(Backends) \in Nat
      /\ Weight \in [Backend -> Nat] /\ Zero \in [Backend -> Nat]
      /\ round.cursor \in Int /\ round.total \in Nat /\ round \in RoundType
  BY PoolAssumption, WeightedAssumption DEF WeightedTypeOK, RoundType, Zero
<1>1. Visiting => Visited \in Backend
  BY <1>0 DEF Visiting, Visited, Backend
<1>2. Free \in RoundType
  BY <1>0 DEF Free, RoundType
<1>3. CASE Enter
  <2>1. round' = [cursor |-> 0, total |-> 0, best |-> None]
    BY <1>3 DEF Enter, Free
  <2>2. round' \in RoundType
    BY <1>0, <2>1 DEF RoundType
  <2> QED BY <1>3, <2>2 DEF Enter, WeightedTypeOK
<1>4. CASE Skip
  <2>1. round' = [round EXCEPT !.cursor = @ + 1] /\ round.cursor + 1 \in -1..Len(Backends)
    BY <1>0, <1>4 DEF Skip, Visiting
  <2>2. round' \in RoundType
    BY <1>0, <2>1 DEF RoundType
  <2> QED BY <1>4, <2>2 DEF Skip, WeightedTypeOK
<1>5. CASE Visit
  <2>1. round' \in RoundType
    <3>1. /\ round.cursor + 1 \in -1..Len(Backends) /\ round.total + Weight[Visited] \in Nat
          /\ round.best \in Backend \cup {None}
      BY <1>0, <1>1, <1>5 DEF Visit, Visiting, RoundType
    <3> QED BY <1>1, <1>5, <3>1 DEF Visit, RoundType
  <2>2. current' \in [Backend -> Int]
    BY <1>0, <1>1, <1>5 DEF Visit, WeightedTypeOK
  <2> QED BY <1>5, <2>1, <2>2 DEF Visit, WeightedTypeOK
<1>6. CASE NobodyAlive
  BY <1>2, <1>6 DEF NobodyAlive, WeightedTypeOK
<1>7. CASE Pick
  <2>1. round.best \in Backend
    BY <1>0, <1>7 DEF Pick, RoundType
  <2>2. current' \in [Backend -> Int]
    BY <1>0, <1>7, <2>1 DEF Pick, WeightedTypeOK
  <2>3. waited' \in [Backend -> Nat]
    BY <1>7 DEF Pick, Remember, WeightedTypeOK
  <2>4. picked' \in [Backend -> Nat]
    <3> DEFINE r == IF SumOver(picked) = TotalWeight THEN Zero ELSE picked
    <3>1. r \in [Backend -> Nat]
      BY <1>0 DEF WeightedTypeOK
    <3>2. picked' = [r EXCEPT ![round.best] = @ + 1]
      BY <1>7 DEF Pick, Remember
    <3> HIDE DEF r
    <3> QED BY <2>1, <3>1, <3>2
  <2> QED BY <1>2, <1>7, <2>2, <2>3, <2>4 DEF Pick, WeightedTypeOK
<1>8. ASSUME NEW b \in Backend, FlipAny(b) PROVE WeightedTypeOK'
  BY <1>8 DEF FlipAny, WeightedTypeOK
<1>9. CASE UNCHANGED weightedVars
  BY <1>9 DEF weightedVars, WeightedTypeOK
<1> QED BY <1>3, <1>4, <1>5, <1>6, <1>7, <1>8, <1>9 DEF WeightedNext

\* Where a step leaves the credits at the beginning of the call, so that only the
\* locals of Next have to be looked at.
Kept(E, F) ==
    /\ Start(current', F) = Start(current, E)
    /\ picked' = picked
    /\ waited' = waited
    /\ steady' => steady

LEMMA CreditKept ==
  ASSUME NEW E, NEW F, CreditInv(E), Kept(E, F)
  PROVE  CreditInv(F)'
BY DEF Kept, CreditInv

\* Met grows by one backend per round.
LEMMA MetNext ==
  ASSUME Visiting, NEW v, v = Visited, round'.cursor = round.cursor + 1
  PROVE  v \in Backend /\ v \notin Met /\ Met' = Met \cup {v} /\ Met \subseteq Backend
<1> DEFINE k == round.cursor
           n == Len(Backends)
<1>1. n \in Nat /\ k \in 0..(n - 1) /\ round'.cursor = k + 1 /\ v = Backends[k + 1]
  BY PoolAssumption DEF Visiting, Visited
<1>2. /\ \A i \in 1..n : Backends[i] \in Backend
      /\ \A i, j \in 1..n : Backends[i] = Backends[j] => i = j
  BY PoolAssumption DEF Backend
<1>3. Met = {Backends[i] : i \in 1..k} /\ Met' = {Backends[i] : i \in 1..(k + 1)}
  BY <1>1 DEF Met
<1> HIDE DEF k, n
<1>4. 1..(k + 1) = (1..k) \cup {k + 1} /\ 1..k \subseteq 1..n /\ k + 1 \in 1..n /\ k + 1 \notin 1..k
  BY <1>1
<1>5. v \notin Met
  BY <1>1, <1>2, <1>3, <1>4
<1>6. Met' = Met \cup {v}
  BY <1>1, <1>3, <1>4
<1> QED BY <1>1, <1>2, <1>3, <1>4, <1>5, <1>6

LEMMA EnterStep ==
  ASSUME WeightedTypeOK, NEW E \in SUBSET Backend, RoundOK(E), CreditInv(E), Enter
  PROVE  RoundOK(E)' /\ CreditInv(E)'
<1>1. /\ round.cursor = -1 /\ round.total = 0 /\ round.best = None
      /\ round'.cursor = 0 /\ round'.total = 0 /\ round'.best = None
  BY DEF Enter, Free
<1>2. Met' = Met
  BY <1>1 DEF Met
<1>3. RoundOK(E)'
  BY <1>1, <1>2 DEF RoundOK, Enter
<1>4. Kept(E, E)
  BY DEF Kept, Enter
<1> QED BY <1>3, <1>4, CreditKept

LEMMA SkipStep ==
  ASSUME WeightedTypeOK, NEW E \in SUBSET Backend, RoundOK(E), CreditInv(E), Skip
  PROVE  RoundOK(E)' /\ CreditInv(E)'
<1>1. PICK v : v = Visited
  OBVIOUS
<1>2. /\ round'.cursor = round.cursor + 1 /\ round'.total = round.total
      /\ round'.best = round.best
      /\ Visiting /\ ~alive[v]
  BY <1>1 DEF Skip, Visiting, WeightedTypeOK, RoundType
<1>3. v \in Backend /\ v \notin Met /\ Met' = Met \cup {v}
  BY <1>1, <1>2, MetNext
<1>4. ~steady
  BY <1>2, <1>3 DEF RoundOK, AllAlive
<1>5. RoundOK(E)'
  BY <1>2, <1>3, <1>4 DEF RoundOK, Skip
<1>6. Kept(E, E)
  BY DEF Kept, Skip
<1> QED BY <1>5, <1>6, CreditKept

LEMMA VisitStep ==
  ASSUME WeightedTypeOK, NEW E \in SUBSET Backend, RoundOK(E), CreditInv(E), Visit
  PROVE  \E F \in SUBSET Backend : RoundOK(F)' /\ CreditInv(F)'
<1>1. PICK v : v = Visited
  OBVIOUS
<1> DEFINE F == E \cup {v}
           x == current[v] + Weight[v]
<1>2. /\ Visiting /\ alive[v]
      /\ round'.cursor = round.cursor + 1 /\ round'.total = round.total + Weight[v]
      /\ round'.best = IF round.best = None \/ x > current[round.best] THEN v ELSE round.best
      /\ current' = [current EXCEPT ![v] = x]
      /\ alive' = alive /\ steady' = steady /\ picked' = picked /\ waited' = waited
  BY <1>1 DEF Visit
<1>3. v \in Backend /\ v \notin Met /\ Met' = Met \cup {v} /\ Met \subseteq Backend
  BY <1>1, <1>2, MetNext
<1>4. /\ E \subseteq Met /\ v \notin E /\ F \in SUBSET Backend
      /\ round.total = SumIn(E, Weight)
      /\ IF round.best = None THEN E = {}
         ELSE round.best \in E /\ \A b \in E : current[b] <= current[round.best]
      /\ \A b \in Met \ E : alive[b] => waited[b] = 0
      /\ steady => E = Met /\ alive = AllAlive
  BY <1>3 DEF RoundOK
<1>5. current \in [Backend -> Int] /\ x \in Int /\ Weight \in [Backend -> Int]
  BY <1>3, WeightsTyped DEF WeightedTypeOK
<1>6. current'[v] = x /\ \A b \in Backend : b # v => current'[b] = current[b]
  BY <1>2, <1>3, <1>5
<1> HIDE DEF x
<1>7. round'.total = SumIn(F, Weight)
  <2>1. SumIn(E \cup {v}, Weight) = SumIn(E, Weight) + SumIn({v}, Weight)
    BY <1>4, <1>5, SumSplit
  <2> QED BY <1>2, <1>3, <1>4, <1>5, <2>1, SumInOne
<1>8. round'.best \in F /\ \A b \in F : current'[b] <= current'[round'.best]
  <2>1. CASE round.best = None
    <3>1. round'.best = v /\ F = {v}
      BY <1>2, <1>4, <2>1
    <3> HIDE DEF F
    <3> QED BY <1>5, <1>6, <3>1
  <2>2. CASE round.best # None /\ x > current[round.best]
    <3>1. round'.best = v
      BY <1>2, <2>2
    <3>2. ASSUME NEW b \in E PROVE current'[b] <= x
      <4>1. b \in Backend /\ b # v /\ round.best \in Backend
        BY <1>4, <2>2
      <4>2. current'[b] = current[b] /\ current[b] <= current[round.best]
        BY <1>4, <1>6, <2>2, <4>1
      <4>3. current[b] \in Int /\ current[round.best] \in Int
        BY <1>5, <4>1
      <4> QED BY <1>5, <2>2, <4>2, <4>3
    <3> QED BY <1>5, <1>6, <3>1, <3>2
  <2>3. CASE round.best # None /\ ~(x > current[round.best])
    <3>1. round'.best = round.best /\ round.best \in E /\ round.best # v /\ round.best \in Backend
      BY <1>2, <1>4, <2>3
    <3>2. current'[round.best] = current[round.best] /\ current[round.best] \in Int
      BY <1>5, <1>6, <3>1
    <3>3. x <= current[round.best]
      BY <1>5, <2>3, <3>2
    <3>4. ASSUME NEW b \in E PROVE current'[b] <= current[round.best]
      BY <1>4, <1>6, <2>3
    <3> QED BY <1>6, <3>1, <3>2, <3>3, <3>4
  <2> QED BY <2>1, <2>2, <2>3
<1>9. round'.best # None
  BY <1>4, <1>8, PoolAssumption
<1>10. RoundOK(F)'
  <2>1. F \subseteq Met' /\ Met' \ F = Met \ E
    BY <1>3, <1>4
  <2>2. steady => F = Met'
    BY <1>3, <1>4
  <2> HIDE DEF F
  <2> QED BY <1>2, <1>4, <1>7, <1>8, <1>9, <2>1, <2>2 DEF RoundOK
<1>11. Start(current', F) = Start(current, E)
  <2>1. ASSUME NEW b \in Backend
        PROVE  current'[b] - Only(F, Weight)[b] = current[b] - Only(E, Weight)[b]
    <3>1. current[b] \in Int /\ Weight[b] \in Int
      BY <1>5
    <3>2. CASE b = v
      BY <1>4, <1>6, <3>1, <3>2 DEF Only, x
    <3>3. CASE b # v
      BY <1>6, <3>3 DEF Only
    <3> QED BY <3>2, <3>3
  <2> HIDE DEF F
  <2> QED BY <2>1 DEF Start
<1>12. CreditInv(F)'
  <2> HIDE DEF F
  <2>1. Kept(E, F)
    BY <1>2, <1>11 DEF Kept
  <2> QED BY <2>1, CreditKept
<1> QED BY <1>4, <1>10, <1>12

LEMMA NobodyStep ==
  ASSUME WeightedTypeOK, NEW E \in SUBSET Backend, RoundOK(E), CreditInv(E), NobodyAlive
  PROVE  RoundOK(E)' /\ CreditInv(E)'
<1>1. /\ round.best = None /\ round'.cursor = -1 /\ round'.total = 0 /\ round'.best = None
  BY DEF NobodyAlive, Free
<1>2. E = {} /\ SumIn(E, Weight) = 0
  BY <1>1, SumInNone DEF RoundOK
<1>3. Met' = {}
  BY <1>1 DEF Met
<1>4. RoundOK(E)'
  BY <1>1, <1>2, <1>3 DEF RoundOK, NobodyAlive
<1>5. Kept(E, E)
  BY DEF Kept, NobodyAlive
<1> QED BY <1>4, <1>5, CreditKept

LEMMA FlipAnyStep ==
  ASSUME WeightedTypeOK, NEW E \in SUBSET Backend, RoundOK(E), CreditInv(E),
         NEW x \in Backend, FlipAny(x)
  PROVE  RoundOK(E)' /\ CreditInv(E)'
<1>0. /\ ~steady' /\ alive' = [alive EXCEPT ![x] = ~@] /\ waited' = [waited EXCEPT ![x] = 0]
      /\ current' = current /\ round' = round /\ picked' = picked
      /\ alive \in [Backend -> BOOLEAN] /\ waited \in [Backend -> Nat]
      /\ current \in [Backend -> Int]
  BY DEF FlipAny, WeightedTypeOK
<1>1. Met' = Met /\ Met \subseteq Backend
  <2>1. round.cursor \in -1..Len(Backends) /\ Len(Backends) \in Nat
    BY PoolAssumption DEF WeightedTypeOK, RoundType
  <2>2. \A i \in 1..round.cursor : Backends[i] \in Backend
    BY <2>1, PoolAssumption DEF Backend
  <2> QED BY <1>0, <2>2 DEF Met
<1>2. ASSUME NEW b \in Met \ E, alive'[b] PROVE waited'[b] = 0
  <2>1. CASE b = x
    BY <1>0, <2>1
  <2>2. CASE b # x
    <3>1. b \in Backend
      BY <1>1
    <3> QED BY <1>0, <1>2, <2>2, <3>1 DEF RoundOK
  <2> QED BY <2>1, <2>2
<1>3. RoundOK(E)'
  BY <1>0, <1>1, <1>2 DEF RoundOK
<1> DEFINE c == Start(current, E)
<1>4. c \in [Backend -> Int]
  BY <1>0, StartTyped
<1>5. SumOver(c) = 0 /\ Spread(c) /\ Patience(c, waited)
  BY DEF CreditInv
<1> HIDE DEF c
<1>6. Patience(c, waited')
  <2> SUFFICES ASSUME NEW b \in Backend
               PROVE  2 * (waited'[b] * Weight[b]) <= 2 * c[b] + Reach + 2 * Weight[b]
    BY DEF Patience
  <2>1. CASE b # x
    BY <1>0, <1>5, <2>1 DEF Patience
  <2>2. CASE b = x
    <3>1. -Reach <= 2 * c[b] /\ Reach \in Int /\ c[b] \in Int
      BY <1>4, <1>5, WithinReach, ReachTyped
    <3>2. Weight[b] \in Nat /\ waited'[b] = 0
      BY <1>0, <2>2, WeightedAssumption
    <3> QED BY <3>1, <3>2
  <2> QED BY <2>1, <2>2
<1>7. CreditInv(E)'
  <2>1. Start(current, E)' = c
    BY <1>0 DEF c
  <2> QED BY <1>0, <1>5, <1>6, <2>1 DEF CreditInv
<1> QED BY <1>3, <1>7

LEMMA PickStep ==
  ASSUME WeightedTypeOK, NEW E \in SUBSET Backend, RoundOK(E), CreditInv(E), Pick
  PROVE  RoundOK({})' /\ CreditInv({})'
<1>1. PICK v : v = round.best
  OBVIOUS
<1> DEFINE c == Start(current, E)
<1>2. /\ round.cursor = Len(Backends) /\ v # None
      /\ current' = [current EXCEPT ![v] = @ - round.total]
      /\ round' = Free /\ alive' = alive /\ steady' = steady
      /\ picked' = [IF SumOver(picked) = TotalWeight THEN Zero ELSE picked EXCEPT ![v] = @ + 1]
      /\ waited' = [b \in Backend |-> IF b = v \/ ~alive[b] THEN 0 ELSE waited[b] + 1]
  BY <1>1 DEF Pick, Remember
<1>3. /\ v \in E /\ v \in Backend /\ \A b \in E : current[b] <= current[v]
      /\ round.total = SumIn(E, Weight)
      /\ \A b \in Met \ E : alive[b] => waited[b] = 0
      /\ steady => E = Met /\ alive = AllAlive
  BY <1>1, <1>2 DEF RoundOK
<1>4. Met = Backend
  BY <1>2, PoolAssumption DEF Met, Backend
<1>5. /\ current \in [Backend -> Int] /\ c \in [Backend -> Int]
      /\ Weight \in [Backend -> Int] /\ SumIn(E, Weight) \in Int
      /\ waited \in [Backend -> Nat] /\ picked \in [Backend -> Nat]
      /\ Only(E, Weight) \in [Backend -> Int]
  BY StartTyped, WeightsTyped, OnlyTyped DEF WeightedTypeOK
<1>6. current' \in [Backend -> Int]
  BY <1>2, <1>3, <1>5
<1>7. SumOver(c) = 0 /\ Spread(c) /\ Patience(c, waited) /\ (steady => Shares(c, picked))
  BY DEF CreditInv
<1>8. Paid(c, current, current', E, v)
  <2>1. \A b \in Backend : current[b] = c[b] + Only(E, Weight)[b]
    BY <1>5 DEF Start
  <2>2. \A b \in Backend : b # v => current'[b] = current[b]
    BY <1>2, <1>3, <1>5
  <2>3. current'[v] = current[v] - SumIn(E, Weight)
    BY <1>2, <1>3, <1>5
  <2> HIDE DEF c
  <2> QED BY <1>3, <2>1, <2>2, <2>3 DEF Paid
<1> HIDE DEF c
<1>9. RoundOK({})'
  <2>1. Met' = {} /\ round'.best = None /\ round'.total = 0
    BY <1>2 DEF Met, Free
  <2>2. SumIn({}, Weight) = 0
    BY SumInNone
  <2> QED BY <1>2, <1>3, <2>1, <2>2 DEF RoundOK
<1>10. SumOver(current') = 0
  BY <1>3, <1>5, <1>6, <1>7, <1>8, BalanceStep
<1>11. Spread(current')
  BY <1>3, <1>5, <1>6, <1>7, <1>8, SpreadStep
<1>12. Patience(current', waited')
  <2> SUFFICES ASSUME NEW b \in Backend
               PROVE  2 * (waited'[b] * Weight[b]) <= 2 * current'[b] + Reach + 2 * Weight[b]
    BY DEF Patience
  <2>1. /\ -Reach <= 2 * current'[b] /\ Reach \in Int /\ current'[b] \in Int
        /\ Weight[b] \in Nat /\ waited[b] \in Nat /\ c[b] \in Int
    BY <1>5, <1>6, <1>10, <1>11, WithinReach, ReachTyped, WeightedAssumption
  <2>2. CASE b = v \/ ~alive[b]
    <3>1. waited'[b] = 0
      BY <1>2, <2>2
    <3> QED BY <2>1, <3>1
  <2>3. CASE b # v /\ alive[b] /\ b \in E
    <3>1. waited'[b] = waited[b] + 1 /\ current'[b] = c[b] + Weight[b]
      BY <1>2, <1>8, <2>3 DEF Paid, Only
    <3>2. 2 * (waited[b] * Weight[b]) <= 2 * c[b] + Reach + 2 * Weight[b]
      BY <1>7 DEF Patience
    <3>3. (waited[b] + 1) * Weight[b] = waited[b] * Weight[b] + Weight[b]
          /\ waited[b] * Weight[b] \in Int
      BY <2>1
    <3> QED BY <2>1, <3>1, <3>2, <3>3
\* It came back after the loop had passed it, and has earned nothing yet.
  <2>4. CASE b # v /\ alive[b] /\ b \notin E
    <3>1. waited'[b] = 1
      BY <1>2, <1>3, <1>4, <2>4
    <3> QED BY <2>1, <3>1
  <2> QED BY <2>2, <2>3, <2>4
<1>13. steady => Shares(current', picked')
  <2> SUFFICES ASSUME steady PROVE Shares(current', picked')
    OBVIOUS
  <2>1. E = Backend
    BY <1>3, <1>4
  <2>2. Paid(c, current, current', Backend, v)
    BY <1>8, <2>1
  <2>3. SumOver(c) = 0 /\ Shares(c, picked)
    BY <1>7
  <2>4. v \in Backend /\ c \in [Backend -> Int] /\ current \in [Backend -> Int]
        /\ current' \in [Backend -> Int] /\ picked \in [Backend -> Nat]
    BY <1>3, <1>5, <1>6
  <2>5. picked' = [IF SumOver(picked) = TotalWeight THEN Zero ELSE picked EXCEPT ![v] = @ + 1]
    BY <1>2
  <2> QED BY <2>2, <2>3, <2>4, <2>5, SharesStep
<1>14. CreditInv({})'
  <2>1. Start(current', {}) = current'
    BY <1>6, StartNone
  <2> QED BY <1>2, <1>10, <1>11, <1>12, <1>13, <2>1 DEF CreditInv
<1> QED BY <1>9, <1>14

LEMMA WeightedStep == WeightedInv /\ [WeightedNext]_weightedVars => WeightedInv'
<1> SUFFICES ASSUME WeightedInv, [WeightedNext]_weightedVars PROVE WeightedInv'
  OBVIOUS
<1>1. WeightedTypeOK /\ WeightedTypeOK'
  BY WeightedTypeStep DEF WeightedInv
<1>2. PICK E \in SUBSET Backend : RoundOK(E) /\ CreditInv(E)
  BY DEF WeightedInv
<1> SUFFICES \E F \in SUBSET Backend : RoundOK(F)' /\ CreditInv(F)'
  BY <1>1 DEF WeightedInv
<1>3. CASE Enter
  BY <1>1, <1>2, <1>3, EnterStep
<1>4. CASE Skip
  BY <1>1, <1>2, <1>4, SkipStep
<1>5. CASE Visit
  BY <1>1, <1>2, <1>5, VisitStep
<1>6. CASE NobodyAlive
  BY <1>1, <1>2, <1>6, NobodyStep
<1>7. CASE Pick
  BY <1>1, <1>2, <1>7, PickStep
<1>8. ASSUME NEW x \in Backend, FlipAny(x)
      PROVE  \E F \in SUBSET Backend : RoundOK(F)' /\ CreditInv(F)'
  BY <1>1, <1>2, <1>8, FlipAnyStep
<1>9. CASE UNCHANGED weightedVars
  <2>1. RoundOK(E)' /\ CreditInv(E)'
    BY <1>2, <1>9 DEF weightedVars, RoundOK, CreditInv, Met
  <2> QED BY <2>1
<1> QED BY <1>3, <1>4, <1>5, <1>6, <1>7, <1>8, <1>9 DEF WeightedNext

\* The strengthened invariant of the weighted balancer: what has been earned in the
\* round under way, and what every group of backends was owed when it began.
THEOREM WeightedInvariant == WeightedSpec => []WeightedInv
BY WeightedInitInv, WeightedStep, PTL DEF WeightedSpec

\* Credits are neither lost nor made, whatever flags change in the middle of a call.
THEOREM LedgerTheorem == WeightedSpec => []LedgerBalanced
<1>1. WeightedInv => LedgerBalanced
  <2> SUFFICES ASSUME WeightedInv PROVE LedgerBalanced
    OBVIOUS
  <2>1. PICK E \in SUBSET Backend : RoundOK(E) /\ CreditInv(E)
    BY DEF WeightedInv
  <2> DEFINE c == Start(current, E)
             o == Only(E, Weight)
  <2>2. current \in [Backend -> Int] /\ c \in [Backend -> Int] /\ o \in [Backend -> Int]
    BY StartTyped, WeightsTyped, OnlyTyped DEF WeightedInv, WeightedTypeOK
  <2>3. \A b \in Backend : current[b] = c[b] + o[b]
    BY <2>2 DEF Start
  <2>4. SumOver(c) = 0 /\ round.total = SumOver(o) /\ SumOver(o) \in Int
    BY <2>1, <2>2, SumType DEF CreditInv, RoundOK, SumIn
  <2> HIDE DEF c, o
  <2>5. SumOver(current) = SumOver(c) + SumOver(o)
    BY <2>2, <2>3, SumAdd
  <2> QED BY <2>4, <2>5 DEF LedgerBalanced
<1> QED BY <1>1, WeightedInvariant, PTL

\* Between calls nothing has been earned that is not settled.
LEMMA Settled ==
  ASSUME WeightedInv, round = Free
  PROVE  /\ current \in [Backend -> Int] /\ SumOver(current) = 0 /\ Spread(current)
         /\ steady => Shares(current, picked)
<1>1. PICK E \in SUBSET Backend : RoundOK(E) /\ CreditInv(E)
  BY DEF WeightedInv
<1>2. E = {}
  BY <1>1 DEF RoundOK, Free
<1>3. current \in [Backend -> Int] /\ Start(current, E) = current
  BY <1>2, StartNone DEF WeightedInv, WeightedTypeOK
<1> QED BY <1>1, <1>3 DEF CreditInv

\* No credit drifts, however often backends die and come back.
THEOREM CreditsTheorem == WeightedSpec => []CreditsBounded
<1>1. WeightedInv => CreditsBounded
  <2> SUFFICES ASSUME WeightedInv, round = Free, NEW b \in Backend
               PROVE  2 * current[b] \in -Reach..Reach
    BY DEF CreditsBounded
  <2>1. current \in [Backend -> Int] /\ SumOver(current) = 0 /\ Spread(current)
    BY Settled
  <2>2. 2 * current[b] <= Reach /\ -Reach <= 2 * current[b]
    BY <2>1, WithinReach
  <2>3. current[b] \in Int /\ Reach \in Int
    BY <2>1, ReachTyped
  <2> QED BY <2>2, <2>3
<1> QED BY <1>1, WeightedInvariant, PTL

\* While every backend is alive, shares are exact to less than one request ahead and
\* within Reach behind, and exact after every cycle.
THEOREM ShareTheorem == WeightedSpec => []SmoothShare
<1>1. WeightedInv => SmoothShare
  <2> SUFFICES ASSUME WeightedInv, steady, round = Free PROVE SmoothShare
    BY DEF SmoothShare
  <2>1. /\ current \in [Backend -> Int] /\ SumOver(current) = 0 /\ Spread(current)
        /\ Shares(current, picked) /\ picked \in [Backend -> Nat]
    BY Settled DEF WeightedInv, WeightedTypeOK
  <2>2. ASSUME NEW b \in Backend
        PROVE  LET owed == SumOver(picked) * Weight[b] - picked[b] * TotalWeight
               IN  owed > -TotalWeight /\ 2 * owed <= Reach
    <3>1. /\ current[b] = SumOver(picked) * Weight[b] - picked[b] * TotalWeight
          /\ current[b] > -TotalWeight
      BY <2>1 DEF Shares
    <3>2. 2 * current[b] <= Reach
      BY <2>1, WithinReach
    <3> QED BY <3>1, <3>2
  <2>3. SumOver(picked) = TotalWeight => picked = Weight
    BY <2>1, CycleExact
  <2> QED BY <2>2, <2>3 DEF SmoothShare
<1> QED BY <1>1, WeightedInvariant, PTL

\* A backend that stays alive is picked again after a number of picks that depends on
\* the weights alone.
THEOREM StarvedTheorem == WeightedSpec => []NotStarved
<1>1. WeightedInv => NotStarved
  <2> SUFFICES ASSUME WeightedInv, NEW b \in Backend
               PROVE  waited[b] * Weight[b] <= Reach + Weight[b]
    BY DEF NotStarved
  <2>1. PICK E \in SUBSET Backend : RoundOK(E) /\ CreditInv(E)
    BY DEF WeightedInv
  <2> DEFINE c == Start(current, E)
  <2>2. c \in [Backend -> Int] /\ waited[b] \in Nat /\ Weight[b] \in Nat
    BY StartTyped, WeightedAssumption DEF WeightedInv, WeightedTypeOK
  <2>3. SumOver(c) = 0 /\ Spread(c)
        /\ 2 * (waited[b] * Weight[b]) <= 2 * c[b] + Reach + 2 * Weight[b]
    BY <2>1 DEF CreditInv, Patience
  <2> HIDE DEF c
  <2>4. 2 * c[b] <= Reach /\ Reach \in Int /\ c[b] \in Int
    BY <2>2, <2>3, WithinReach, ReachTyped
  <2>5. waited[b] * Weight[b] \in Int
    BY <2>2
  <2> QED BY <2>2, <2>3, <2>4, <2>5
<1> QED BY <1>1, WeightedInvariant, PTL
=============================================================================
