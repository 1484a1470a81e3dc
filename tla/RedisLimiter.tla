----------------------------- MODULE RedisLimiter -----------------------------
(***************************************************************************)
(* redisLimiter: a sliding window that several gateways share in Redis, as *)
(* a sorted set per key. Keys do not interact, so there is one.            *)
(*                                                                         *)
(* A handler reads its gateway's clock, sends the script and waits 50 ms   *)
(* for the answer. Redis runs the script as one step, at any later moment: *)
(* after others that read their clocks later, after the handler has given  *)
(* up, or not at all. The member of the set is the time stamp itself, so   *)
(* the set is one of stamps. When the reply is lost with the connection,   *)
(* the client library repeats the command with the same stamp.             *)
(***************************************************************************)
EXTENDS RetryHeader, Sequences, FiniteSets, FiniteSetsExt

CONSTANTS
    Reqs,      \* handler goroutines of all gateways
    Skew,      \* how far the clock of a handler's gateway is ahead of Redis
    Rates,     \* values of cfg.Rate, any integers: nothing validates them
    Window,    \* the window, in clock ticks (milliseconds)
    Timeout,   \* how long a handler waits
    MaxLate,   \* bound on commands whose handler has given up
    MaxPassed, \* bound on the history of requests that were let pass
    MaxTime    \* bound on the clock

ASSUME RedisAssumption ==
    /\ IsFiniteSet(Reqs) /\ Reqs # {}
    /\ Skew \in [Reqs -> Int]
    /\ Rates \subseteq Int
    /\ Window \in Nat \ {0}
    /\ Timeout \in Nat
    /\ MaxLate \in Nat
    /\ MaxPassed \in Nat
    /\ MaxTime \in Nat

VARIABLES
    rate,      \* cfg.Rate of the limiters
    now,       \* the clock of Redis
    stamps,    \* the sorted set: its members, which are also its scores
    expireAt,  \* when Redis drops the key; Never if there is none
    req,       \* the handlers: where they are in Allow, its locals, the reply
    late,      \* stamps of commands whose handler has given up
    admitted   \* history: every request that the script let pass, by its stamp

vars == <<rate, now, stamps, expireAt, req, late, admitted>>

Never == -1

HandlerType ==
    [pc : {"idle", "sent", "pass", "reject", "short"}, began : Nat, stamp : Int, oldest : Int]

Idle == [pc |-> "idle", began |-> 0, stamp |-> 0, oldest |-> 0]

TypeOK ==
    /\ rate \in Rates
    /\ now \in Nat
    /\ stamps \subseteq Int
    /\ expireAt \in Nat \cup {Never}
    /\ req \in [Reqs -> HandlerType]
    /\ late \subseteq Int
    /\ admitted \in Seq(Int)

Init ==
    /\ rate \in Rates
    /\ now = 0
    /\ stamps = {}
    /\ expireAt = Never
    /\ req = [r \in Reqs |-> Idle]
    /\ late = {}
    /\ admitted = <<>>

-----------------------------------------------------------------------------
\* The script

\* The argument of EXPIRE: the window in whole seconds, rounded up.
Expiry == ((Window + Second - 1) \div Second) * Second

\* Mutant of Evict: a stamp at the cutoff stays.
EvictExclusive(S, t) == {s \in S : s >= t - Window}

\* ZREMRANGEBYSCORE -inf cutoff, the cutoff included.
Evict(S, t) == {s \in S : ~(s <= t - Window)}

\* Mutant of Full: one request more.
FullOneMore(S, t) == Cardinality(Evict(S, t)) > rate

\* ZCARD >= limit, after the eviction.
Full(S, t) == Cardinality(Evict(S, t)) >= rate

\* Mutant of Script: the expiry is set when the set is full, not when it grows.
ScriptExpiresFull(t) ==
    LET live == Evict(stamps, t)
    IN  /\ stamps' = IF Full(stamps, t) THEN live ELSE live \cup {t}
        /\ expireAt' = IF Full(stamps, t) /\ live # {} THEN now + Expiry
                       ELSE IF live = {} THEN Never ELSE expireAt

\* What a run of the script with stamp t does to the key. An empty set is no key,
\* and has no expiry; EXPIRE is set only when a stamp is added.
Script(t) ==
    LET live == Evict(stamps, t)
    IN  IF Full(stamps, t)
        THEN /\ stamps' = live
             /\ expireAt' = IF live = {} THEN Never ELSE expireAt
        ELSE /\ stamps' = live \cup {t}
             /\ expireAt' = now + Expiry

\* {1, 0}, {0, oldest}, or {0} when there is no oldest: a table ends at nil.
Reply(t) ==
    LET live == Evict(stamps, t)
    IN  IF ~Full(stamps, t) THEN [pc |-> "pass", oldest |-> 0]
        ELSE IF live = {} THEN [pc |-> "short", oldest |-> 0]
        ELSE [pc |-> "reject", oldest |-> Min(live)]

-----------------------------------------------------------------------------
\* Allow

\* nowMs is read, the command goes out.
Send(r) ==
    /\ req[r].pc = "idle"
    /\ req' = [req EXCEPT ![r] = [Idle EXCEPT !.pc = "sent", !.began = now,
                                              !.stamp = now + Skew[r]]]
    /\ UNCHANGED <<rate, now, stamps, expireAt, late, admitted>>

\* Redis runs the script for a handler that is waiting.
Run(r) ==
    /\ req[r].pc = "sent"
    /\ Script(req[r].stamp)
    /\ LET reply == Reply(req[r].stamp)
       IN  req' = [req EXCEPT ![r].pc = reply.pc, ![r].oldest = reply.oldest]
    /\ UNCHANGED <<rate, now, late, admitted>>

\* The connection breaks while the reply is on its way, and the client library
\* sends the command again.
Resend(r) ==
    /\ req[r].pc \in {"pass", "reject", "short"}
    /\ req' = [req EXCEPT ![r].pc = "sent", ![r].oldest = 0]
    /\ UNCHANGED <<rate, now, stamps, expireAt, late, admitted>>

\* res[0] is 1.
Pass(r) ==
    /\ req[r].pc = "pass"
    /\ Len(admitted) < MaxPassed
    /\ admitted' = Append(admitted, req[r].stamp)
    /\ req' = [req EXCEPT ![r] = Idle]
    /\ UNCHANGED <<rate, now, stamps, expireAt, late>>

\* ErrRateLimited{RetryAfter}
RetryAfter(r) == req[r].oldest + Window - req[r].stamp

Reject(r) ==
    /\ req[r].pc = "reject"
    /\ req' = [req EXCEPT ![r] = Idle]
    /\ UNCHANGED <<rate, now, stamps, expireAt, late, admitted>>

\* With a limit of zero or less the reply has one element, and res[1] panics;
\* Recovery answers 500.
Panic(r) ==
    /\ req[r].pc = "short"
    /\ req' = [req EXCEPT ![r] = Idle]
    /\ UNCHANGED <<rate, now, stamps, expireAt, late, admitted>>

Waiting(r) == req[r].pc # "idle"

\* Redis cannot be reached, or 50 ms are over: the request is allowed. A command
\* that has not run yet is lost, or may still run.
FailOpen(r) ==
    /\ Waiting(r)
    /\ \/ late' = late
       \/ /\ req[r].pc = "sent"
          /\ late' = late \cup {req[r].stamp}
          /\ Cardinality(late') <= MaxLate
    /\ req' = [req EXCEPT ![r] = Idle]
    /\ UNCHANGED <<rate, now, stamps, expireAt, admitted>>

\* Redis comes to a command whose handler has given up.
RunLate(t) ==
    /\ t \in late
    /\ late' = late \ {t}
    /\ Script(t)
    /\ UNCHANGED <<rate, now, req, admitted>>

-----------------------------------------------------------------------------
\* A handler does not wait longer than Timeout, and Redis drops a key that has
\* expired before anybody sees it again.
Tick ==
    /\ now < MaxTime
    /\ \A r \in Reqs : Waiting(r) => now < req[r].began + Timeout
    /\ now' = now + 1
    /\ stamps' = IF expireAt = now + 1 THEN {} ELSE stamps
    /\ expireAt' = IF expireAt = now + 1 THEN Never ELSE expireAt
    /\ UNCHANGED <<rate, req, late, admitted>>

Allow(r) ==
    \/ Send(r) \/ Run(r) \/ Resend(r) \/ Pass(r) \/ Reject(r) \/ Panic(r) \/ FailOpen(r)

Next ==
    \/ \E r \in Reqs : Allow(r)
    \/ \E t \in late : RunLate(t)
    \/ Tick

Spec == Init /\ [][Next]_vars

-----------------------------------------------------------------------------
\* How far the clocks of two handlers can be apart, and with the wait for Redis,
\* how much older a stamp can be than one that was used before it.
Offsets == {Skew[r] : r \in Reqs}

Lag == Max(Offsets) - Min(Offsets) + Timeout

\* The limit that gateways with different clocks enforce together is one of distinct
\* milliseconds: rate + 1 different stamps among the requests that were let pass
\* span at least a window less what the clocks differ and what a stamp ages on its
\* way. How many requests have the same stamp is not limited unless rate is 1, see
\* RateBound. With a window of whole seconds the key expires with its last stamp, so
\* that a stamp exactly that far away can pass (lines 225-241 and 272-293).
MillisecondBound ==
    \A S \in SUBSET {admitted[i] : i \in DOMAIN admitted} :
        S # {} /\ Cardinality(S) > rate => Max(S) - Min(S) >= Window - Lag

\* Line 224, "Each request adds current timestamp": any rate + 1 requests that were
\* let pass span at least as much. It does not hold for a rate of 2 or more: the stamp
\* is the member of the set (line 238), so that a request adds nothing if another has
\* come in the same millisecond, and while the set is not full all of them pass.
RateBound ==
    \A I \in SUBSET DOMAIN admitted :
        I # {} /\ Cardinality(I) > rate =>
            \E i, j \in I : admitted[i] - admitted[j] >= Window - Lag

\* The wait of a rejection (line 289) is exact: a client that comes back then is let
\* in, and not a millisecond before, if no other request passes meanwhile; and with
\* clocks that agree it is no longer than a window. The header (gateway.go line 256)
\* may take half a second off it, and never more: half a second later than it says
\* there is room.
RetryHonest ==
    [][\A r \in Reqs : Run(r) /\ req'[r].pc = "reject" =>
         LET t == req[r].stamp
             wait == RetryAfter(r)'
         IN  /\ wait \in 1..(Window + Lag)
             /\ Full(stamps', t + wait - 1)
             /\ ~Full(stamps', t + wait)
             /\ ~Full(stamps', t + Told(wait) + Slack)]_vars

\* gateway.go line 256: a client that waits as the header tells it is let in, if no
\* other request passes meanwhile. It does not hold: less than half a second is
\* told as 0.
ToldSuffices ==
    [][\A r \in Reqs : Run(r) /\ req'[r].pc = "reject" =>
         ~Full(stamps', req[r].stamp + Told(RetryAfter(r)'))]_vars

\* No client leaves a key in Redis for ever: a set that holds anything expires
\* within the window, rounded up to seconds (line 239).
KeysExpire == stamps # {} => expireAt \in (now + 1)..(now + Expiry)
=============================================================================
