------------------------------ MODULE RateLimit -----------------------------
(***************************************************************************)
(* The token buckets in Redis (the Lua script of RateLimiter).  The script *)
(* is atomic, but the time t it works with is an argument: Date.now() of   *)
(* the replica that sends it.                                              *)
(*                                                                         *)
(* Time is counted in ticks, PerSecond of them in a second.  Tokens are    *)
(* counted in shares: one share is added in a tick, and limit.unit shares  *)
(* are one token of that limit, so its refillPerSec is PerSecond over      *)
(* limit.unit.  The rounding of Lua's numbers is left out.                 *)
(***************************************************************************)
EXTENDS Integers, FiniteSets, FiniteSetsExt, Functions

CONSTANTS
  PerSecond,
  Horizon          \* bound: the clock stops here

ASSUME RateLimitAssumption == PerSecond \in Nat \ {0} /\ Horizon \in Nat

VARIABLES
  now,       \* the time that Redis expires keys by
  bucket     \* the hashes that exist: tokens and ts, until EXPIRE

LimiterInit ==
  /\ now = 0
  /\ bucket = [b \in {} |-> 0]

-----------------------------------------------------------------------------
(* The script: KEYS[1] is b, its arguments are those of limit, and t       *)

Full(limit) == limit.capacity * limit.unit
Exists(b) == b \in DOMAIN bucket
Ceil(n, d) == (n + d - 1) \div d

\* Seconds until a full refill, and one more.
HastyTtl(limit) == 1                             \* mutant: forgets too early
TtlSeconds(limit) == Ceil(Full(limit), PerSecond) + 1

\* The tokens there are at time t, before one is taken.
RefilledUncapped(b, limit, t) ==                 \* mutant: no math.min
  IF Exists(b) THEN bucket[b].tokens + Max({0, t - bucket[b].ts}) ELSE Full(limit)
RefilledNever(b, limit, t) ==                    \* mutant: no refill
  IF Exists(b) THEN bucket[b].tokens ELSE Full(limit)
RefilledTwice(b, limit, t) ==                    \* mutant: |now_ms - ts|
  IF Exists(b) THEN Min({Full(limit), bucket[b].tokens + Max({t - bucket[b].ts, bucket[b].ts - t})})
               ELSE Full(limit)
Refilled(b, limit, t) ==
  IF Exists(b) THEN Min({Full(limit), bucket[b].tokens + Max({0, t - bucket[b].ts})})
               ELSE Full(limit)

Allowed(b, limit, t) == Refilled(b, limit, t) >= limit.unit

\* The answer when there is no token.
RetrySecondsShort(b, limit, t) ==                \* mutant: rounds down
  (limit.unit - Refilled(b, limit, t)) \div PerSecond
RetrySeconds(b, limit, t) == Ceil(limit.unit - Refilled(b, limit, t), PerSecond)

\* HSET and EXPIRE.
TakeToken(b, limit, t) ==
  LET hash == [tokens |-> Refilled(b, limit, t) - limit.unit, ts |-> t,
               until |-> now + TtlSeconds(limit) * PerSecond]
  IN bucket' = [c \in DOMAIN bucket \cup {b} |-> IF c = b THEN hash ELSE bucket[c]]

\* By how much taking a token at time t moves ts backwards.
BackwardsBy(b, t) == IF Exists(b) THEN Max({0, bucket[b].ts - t}) ELSE 0

\* Time passes, and Redis forgets a bucket whose EXPIRE has passed.
LimiterTick ==
  /\ now < Horizon
  /\ now' = now + 1
  /\ bucket' = Restrict(bucket, {b \in DOMAIN bucket : bucket[b].until > now'})
=============================================================================
