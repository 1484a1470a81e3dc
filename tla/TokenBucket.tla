----------------------------- MODULE TokenBucket -----------------------------
(***************************************************************************)
(* localTokenBucket: a bucket holds tokens, refilled in proportion to the  *)
(* time that has passed and capped at burst.                               *)
(*                                                                         *)
(* The code counts in float64 seconds. Here a clock tick is 1/Second of a  *)
(* second and tokens are counted in units of 1/Second, so that a tick adds *)
(* Rate units and a request costs Second; the rounding of float64 is left  *)
(* out.                                                                    *)
(***************************************************************************)
EXTENDS BucketTable

CONSTANTS
    Rate,     \* cfg.Rate, tokens per second
    Burst     \* cfg.Burst

ASSUME TokenBucketAssumption ==
    /\ Rate \in Nat
    /\ Burst \in Nat
    /\ MaxTime \in Nat

tokenVars == <<buckets, heap, req, now, admitted>>

BucketType == [tokens : 0..Burst * Second, lastFill : Nat]

TokenTypeOK ==
    /\ buckets \in [Keys -> 0..Len(heap)]
    /\ heap \in Seq(BucketType)
    /\ req \in [Reqs -> HandlerType]
    /\ now \in Nat
    /\ admitted \in [Keys -> Seq(Nat)]

TokenInit == TableInit

\* Mutant of Refill: the time of the last refill is not moved.
RefillTwice(b) ==
    LET full == Burst * Second
        sum == b.tokens + (now - b.lastFill) * Rate
    IN  [tokens |-> IF full < sum THEN full ELSE sum, lastFill |-> b.lastFill]

\* The refill with which Allow begins; it is kept when the request is rejected.
Refill(b) ==
    LET full == Burst * Second
        sum == b.tokens + (now - b.lastFill) * Rate
    IN  [tokens |-> IF full < sum THEN full ELSE sum, lastFill |-> now]

Filled(r) == Refill(heap[req[r].bucket])

BeginTokenAllow(r, k) == Lookup(r, k) /\ UNCHANGED <<now, admitted>>

CreateTokenBucket(r) ==
    /\ Create(r, [tokens |-> Burst * Second, lastFill |-> now])
    /\ UNCHANGED <<now, admitted>>

\* Under the bucket's mutex: the request takes a token.
TakeToken(r) ==
    /\ req[r].pc = "allow"
    /\ ~(Filled(r).tokens < Second)
    /\ Leave(r, [Filled(r) EXCEPT !.tokens = @ - Second])
    /\ admitted' = [admitted EXCEPT ![req[r].key] = Append(@, now)]
    /\ UNCHANGED now

\* Mutant of LackToken: a rejected request forfeits the refill.
LackForfeits(r) ==
    /\ req[r].pc = "allow"
    /\ Filled(r).tokens < Second
    /\ Leave(r, [heap[req[r].bucket] EXCEPT !.lastFill = now])
    /\ UNCHANGED <<now, admitted>>

\* Mutant of Waits: what is left in the bucket is not considered.
WaitsForWhole(r) == IF Rate = 0 THEN Int ELSE {Second \div Rate}

\* The waits with which request r may be rejected: until the missing part of a token
\* has come, rounded down. A rate of zero divides by zero; what the conversion of
\* +Inf to a Duration yields depends on the processor.
Waits(r) == IF Rate = 0 THEN Int ELSE {(Second - Filled(r).tokens) \div Rate}

\* ErrRateLimited.
LackToken(r) ==
    /\ req[r].pc = "allow"
    /\ Filled(r).tokens < Second
    /\ Leave(r, Filled(r))
    /\ UNCHANGED <<now, admitted>>

TokenAllow(r) ==
    \/ \E k \in Keys : BeginTokenAllow(r, k)
    \/ CreateTokenBucket(r) \/ TakeToken(r) \/ LackToken(r)

TokenNext == Tick \/ \E r \in Reqs : TokenAllow(r)

TokenSpec == TokenInit /\ [][TokenNext]_tokenVars

-----------------------------------------------------------------------------
\* What the limiter promises of a list of admissions: from any of them to any
\* later one, no more than burst plus what the rate yields in between.
Conforms(s) ==
    \A i, j \in DOMAIN s :
        i <= j => (j - i + 1) * Second <= Burst * Second + (s[j] - s[i]) * Rate

\* Every key's admissions conform, whatever requests race for its first bucket
\* and however rejected requests move lastFill (lines 120-157).
TokenRateBound == \A k \in Keys : Conforms(admitted[k])

\* A request is turned away only if admitting it would break the promise: no
\* token is lost in refilling, by rejections or by other keys.
TokenRejectionsJustified ==
    [][\A r \in Reqs : LackToken(r) => ~Conforms(Append(admitted[req[r].key], now))]_tokenVars

\* The wait of a rejection (line 135) is the time until the next token, to the
\* instant: before it is over a request would break the promise, and an instant
\* after it one keeps it, if nobody is admitted meanwhile. Half a second more than
\* the header says (gateway.go line 256) is enough too. Where burst is zero no
\* wait is enough, and where rate is zero none is meant to be.
TokenRetryHonest ==
    [][\A r \in Reqs : LackToken(r) /\ Rate > 0 /\ Burst > 0 =>
         \A wait \in Waits(r) :
            LET conforms(t) == Conforms(Append(admitted[req[r].key], t))
            IN  /\ \A d \in 0..(wait - 1) : ~conforms(now + d)
                /\ conforms(now + wait + 1)
                /\ conforms(now + Told(wait) + Slack + 1)]_tokenVars
=============================================================================
