--------------------------- MODULE MCRedisLimiter ----------------------------
(* Small instances of RedisLimiter for TLC. *)
EXTENDS RedisLimiter, TLC

CONSTANTS r1, r2

\* The second handler is at a gateway whose clock is ahead.
MCSkew == (r1 :> 0) @@ (r2 :> 1)
=============================================================================
