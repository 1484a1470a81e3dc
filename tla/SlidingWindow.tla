---------------------------- MODULE SlidingWindow ----------------------------
(***************************************************************************)
(* localSlidingWindow: a bucket is the list of the times at which requests *)
(* of its key were admitted, without those that have left the window.      *)
(***************************************************************************)
EXTENDS BucketTable, FiniteSetsExt

CONSTANTS
    Rates,    \* values of cfg.Rate, any integers: nothing validates them
    Window    \* cfg.Window, in clock ticks

ASSUME SlidingWindowAssumption ==
    /\ Rates \subseteq Int
    /\ Window \in Nat
    /\ MaxTime \in Nat

VARIABLE
    rate  \* cfg.Rate of the limiter that New has made

vars == <<buckets, heap, req, rate, now, admitted>>

TypeOK ==
    /\ buckets \in [Keys -> 0..Len(heap)]
    /\ heap \in Seq(Seq(Nat))
    /\ rate \in Rates
    /\ req \in [Reqs -> HandlerType]
    /\ now \in Nat
    /\ admitted \in [Keys -> Seq(Nat)]

Init ==
    /\ TableInit
    /\ rate \in Rates

\* The loop drops the leading times before the cutoff.
Evict(s, cutoff) ==
    LET fresh == {i \in DOMAIN s : ~(s[i] < cutoff)}
    IN  IF fresh = {} THEN <<>> ELSE SubSeq(s, Min(fresh), Len(s))

\* What request r's bucket holds once the old entries are gone.
Live(r) == Evict(heap[req[r].bucket], now - Window)

BeginAllow(r, k) == Lookup(r, k) /\ UNCHANGED <<rate, now, admitted>>

CreateBucket(r) == Create(r, <<>>) /\ UNCHANGED <<rate, now, admitted>>

\* Mutant of Admit: the limit is compared with > instead of >=.
AdmitOneMore(r) ==
    /\ req[r].pc = "allow"
    /\ ~(Len(Live(r)) > rate)
    /\ Leave(r, Append(Live(r), now))
    /\ admitted' = [admitted EXCEPT ![req[r].key] = Append(@, now)]
    /\ UNCHANGED <<rate, now>>

\* Under the bucket's mutex: the request is admitted.
Admit(r) ==
    /\ req[r].pc = "allow"
    /\ ~(Len(Live(r)) >= rate)
    /\ Leave(r, Append(Live(r), now))
    /\ admitted' = [admitted EXCEPT ![req[r].key] = Append(@, now)]
    /\ UNCHANGED <<rate, now>>

\* Mutant of Limit: entries are left in the bucket until they are too many.
LimitUnevicted(r) ==
    /\ req[r].pc = "allow"
    /\ Len(heap[req[r].bucket]) >= rate
    /\ heap[req[r].bucket] # <<>>
    /\ Leave(r, heap[req[r].bucket])
    /\ UNCHANGED <<rate, now, admitted>>

\* Mutant of RetryAfter: the wait is counted from the newest entry.
RetryAfterNewest(r) == Live(r)[Len(Live(r))] + Window - now

\* The wait with which request r is rejected: until the oldest entry is as old as
\* the window.
RetryAfter(r) == Live(r)[1] + Window - now

\* ErrRateLimited.
Limit(r) ==
    /\ req[r].pc = "allow"
    /\ Len(Live(r)) >= rate
    /\ Live(r) # <<>>
    /\ Leave(r, Live(r))
    /\ UNCHANGED <<rate, now, admitted>>

\* With a limit of zero or less, timestamps[0] of an empty list panics; the
\* deferred Unlock runs and Recovery answers 500.
Panic(r) ==
    /\ req[r].pc = "allow"
    /\ Len(Live(r)) >= rate
    /\ Live(r) = <<>>
    /\ Leave(r, Live(r))
    /\ UNCHANGED <<rate, now, admitted>>

Allow(r) ==
    \/ \E k \in Keys : BeginAllow(r, k)
    \/ CreateBucket(r) \/ Admit(r) \/ Limit(r) \/ Panic(r)

Next == (Tick /\ UNCHANGED rate) \/ \E r \in Reqs : Allow(r)

Spec == Init /\ [][Next]_vars

-----------------------------------------------------------------------------
\* The limit holds for every key, whatever requests race for its first bucket:
\* rate + 1 successive admissions span more than the window, so no closed
\* interval of that length holds more than rate (lines 176-217).
RateBound ==
    \A k \in Keys : \A i, j \in DOMAIN admitted[k] :
        j - i >= rate => admitted[k][j] - admitted[k][i] > Window

\* A request is turned away only when rate requests of its key were admitted in
\* the window that ends now: no entry outlives its window, none belongs to
\* another key and none counts twice.
RejectionsJustified ==
    [][\A r \in Reqs : Limit(r) =>
         Cardinality({i \in DOMAIN admitted[req[r].key] :
                         admitted[req[r].key][i] >= now - Window}) >= rate]_vars

\* The entries of key k that count at a time t, if nobody is admitted until then.
Counted(k, t) == {i \in DOMAIN admitted[k] : admitted[k][i] >= t - Window}

\* The wait of a rejection (line 195) is one instant short, as an entry that is
\* exactly as old as the window still counts (line 188): a client that comes back
\* then finds no room, and one that comes an instant later finds some, if nobody is
\* admitted meanwhile. The header (gateway.go line 256) may take half a second more
\* off the wait, and never more: half a second and an instant later than it says
\* there is room.
RetryHonest ==
    [][\A r \in Reqs : Limit(r) =>
         LET k == req[r].key
             wait == RetryAfter(r)
         IN  /\ Cardinality(Counted(k, now + wait)) >= rate
             /\ Cardinality(Counted(k, now + wait + 1)) < rate
             /\ Cardinality(Counted(k, now + Told(wait) + Slack + 1)) < rate]_vars

\* architecture.md line 48, "On rejection it sets Retry-After and
\* X-RateLimit-Reset headers before returning 429": every request is admitted or
\* rejected with ErrRateLimited. It does not hold for a limit of zero (line 194).
AlwaysAnswers == [][\A r \in Reqs : ~Panic(r)]_vars
=============================================================================
