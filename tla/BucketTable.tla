----------------------------- MODULE BucketTable -----------------------------
(***************************************************************************)
(* The table from keys to buckets that both in-process rate limiters keep, *)
(* and getOrCreate, which fills it under double-checked locking: a look    *)
(* under the read lock, and on a miss a second look under the write lock   *)
(* before a bucket is made. The two looks are two steps, so that other     *)
(* requests of the same key come between them.                             *)
(***************************************************************************)
EXTENDS RetryHeader, Sequences, FiniteSets

CONSTANTS
    Reqs,    \* handler goroutines, each serving request after request
    Keys,    \* the keys that keyFn derives from requests
    MaxTime  \* bound on the clock

VARIABLES
    buckets,  \* the map: the position of a key's bucket in heap, 0 if absent
    heap,     \* every bucket ever made; what a bucket is, the limiter says
    req,      \* the handlers: where they are in Allow, their key and bucket
    now,      \* the monotonic clock
    admitted  \* history: when the requests of a key were admitted, in order

NoKey == "none"

HandlerType == [pc : {"idle", "create", "allow"}, key : Keys \cup {NoKey}, bucket : Nat]

Idle == [pc |-> "idle", key |-> NoKey, bucket |-> 0]

TableInit ==
    /\ buckets = [k \in Keys |-> 0]
    /\ heap = <<>>
    /\ req = [r \in Reqs |-> Idle]
    /\ now = 0
    /\ admitted = [k \in Keys |-> <<>>]

Tick ==
    /\ now < MaxTime
    /\ now' = now + 1
    /\ UNCHANGED <<buckets, heap, req, admitted>>

\* The look under the read lock.
Lookup(r, k) ==
    /\ req[r].pc = "idle"
    /\ req' = [req EXCEPT ![r] =
                 [pc |-> IF buckets[k] = 0 THEN "create" ELSE "allow",
                  key |-> k, bucket |-> buckets[k]]]
    /\ UNCHANGED <<buckets, heap>>

\* Mutant of Create: no second look.
CreateUnchecked(r, fresh) ==
    /\ req[r].pc = "create"
    /\ heap' = Append(heap, fresh)
    /\ buckets' = [buckets EXCEPT ![req[r].key] = Len(heap) + 1]
    /\ req' = [req EXCEPT ![r].pc = "allow", ![r].bucket = Len(heap) + 1]

\* The second look, under the write lock, and the creation of a fresh bucket.
Create(r, fresh) ==
    LET k == req[r].key
        found == buckets[k] # 0
        id == IF found THEN buckets[k] ELSE Len(heap) + 1
    IN  /\ req[r].pc = "create"
        /\ heap' = IF found THEN heap ELSE Append(heap, fresh)
        /\ buckets' = [buckets EXCEPT ![k] = id]
        /\ req' = [req EXCEPT ![r].pc = "allow", ![r].bucket = id]

\* Allow ends for request r with its bucket holding b.
Leave(r, b) ==
    /\ heap' = [heap EXCEPT ![req[r].bucket] = b]
    /\ req' = [req EXCEPT ![r] = Idle]
    /\ UNCHANGED buckets

-----------------------------------------------------------------------------
\* All requests of a key that are about to take its bucket's mutex have the same
\* bucket, the one in the table, and no two keys share one: nobody is counted in
\* a bucket that has been replaced (getOrCreate, lines 142-157, and
\* swGetOrCreate, lines 202-217).
OneBucketPerKey ==
    /\ \A r \in Reqs : req[r].pc = "allow" =>
          req[r].bucket # 0 /\ req[r].bucket = buckets[req[r].key]
    /\ \A k, l \in Keys : buckets[k] # 0 /\ buckets[k] = buckets[l] => k = l
=============================================================================
