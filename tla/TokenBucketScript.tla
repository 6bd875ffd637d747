-------------------------- MODULE TokenBucketScript --------------------------
(***************************************************************************)
(* What one run of src/src/adapters/lua/token_bucket.lua computes from the *)
(* bucket key, the rule, the cost and the Redis clock.  Redis runs a       *)
(* script without interleaving, so the run is one operator: RunBucket.     *)
(*                                                                         *)
(* Token quantities are counted in units.  A token is Unit units, and a    *)
(* rule refills rule.refill units per millisecond: refillRate tokens per   *)
(* second are refillRate * Unit / 1000 units per millisecond.  With        *)
(* Unit = 1000 a unit is a milli-token and refill is refillRate itself;    *)
(* the small instances use coarser units, so that a millisecond adds a     *)
(* visible fraction of a token.  rule.capacity is in units, cost in tokens.*)
(***************************************************************************)
EXTENDS Integers

CONSTANTS
  Unit,        \* units in one token
  Rounding     \* units by which one computation on doubles may err

Least(a, b) == IF a <= b THEN a ELSE b
Most(a, b)  == IF a >= b THEN a ELSE b

\* math.ceil(a / b) for b > 0.
CeilDiv(a, b) == (a + b - 1) \div b

(***************************************************************************)
(* Lua computes in doubles, and a level need not be a whole number of      *)
(* units.  Here a level is the floor of the real one, and an operation     *)
(* that may round has a set of results, those within Rounding units of     *)
(* the exact one.  Rounding = 1 covers the script as long as a level has   *)
(* fewer than 10^13 units: the errors of one refill, or of tostring, are   *)
(* then less than a unit, and move the floor by at most one.  Rounding = 0 *)
(* is exact arithmetic.                                                    *)
(***************************************************************************)
Errors == -Rounding..Rounding

Near(x) == {Most(0, x + e) : e \in Errors}

\* tostring() keeps 14 significant digits, so a level such as 1/60 of a token
\* is stored a little below or above what was left.
Tostring(x) == Near(x)

(***************************************************************************)
(* A key as Redis holds it: the two hash fields and the instant set by     *)
(* PEXPIRE.  A key past that instant is deleted before it is read, so it   *)
(* reads as one that was never written.                                    *)
(***************************************************************************)
NoBucket == [tokens |-> 0, lastRefillMs |-> 0, expireAt |-> -1]

Alive(key, now) == now <= key.expireAt

UnguardedElapsedMs(key, now) == now - key.lastRefillMs

\* Milliseconds since the last refill, with the guard for a clock that is
\* behind the stored stamp.
ElapsedMs(key, now) == Most(0, now - key.lastRefillMs)

\* The level but for rounding: a bucket never seen is full, any other is refilled
\* for the time that has passed, up to the capacity.
Refilled(key, rule, now) ==
  IF Alive(key, now)
  THEN Least(rule.capacity, key.tokens + ElapsedMs(key, now) * rule.refill)
  ELSE rule.capacity

UncappedLevels(key, rule, now) ==
  IF Alive(key, now)
  THEN Near(key.tokens + ElapsedMs(key, now) * rule.refill)
  ELSE {rule.capacity}

\* The levels the script may compute before it decides.  The capacity is taken
\* as it is, and the refilled level cut to it after rounding.
Levels(key, rule, now) ==
  IF Alive(key, now)
  THEN {Least(rule.capacity, y) : y \in Near(key.tokens + ElapsedMs(key, now) * rule.refill)}
  ELSE {rule.capacity}

FloorMs(missing, rule) ==
  IF missing = 0 THEN {0} ELSE {(missing + e) \div rule.refill : e \in Errors}

\* math.ceil((missing / refillPerSec) * 1000): the milliseconds in which missing
\* units accrue.  The subtraction that gave missing, the quotient and the product
\* are rounded: 1 - 0.999 at one token per second gives 2, not 1.  Something
\* positive takes a millisecond at least.
CeilMs(missing, rule) ==
  IF missing = 0 THEN {0}
  ELSE {CeilDiv(Most(1, missing + e), rule.refill) : e \in Errors}

OneTokenTtls(rule) == {Most(1, CeilDiv(Unit, rule.refill))}

\* Time to fill an empty bucket, at least a millisecond.  Here both operands are
\* whole numbers of units, and a rounding below 10^13 of them cannot carry the
\* quotient across a whole millisecond downwards.
TtlMs(rule) == {Most(1, CeilDiv(rule.capacity + e, rule.refill)) : e \in 0..Rounding}

\* What the decision leaves.  cost is a whole number of tokens not above the
\* level, so that this subtraction is exact.
Left(level, cost) == IF level >= cost * Unit THEN level - cost * Unit ELSE level

RetryAfterMs(level, rule, cost) ==
  IF level >= cost * Unit THEN {0} ELSE CeilMs(cost * Unit - level, rule)

KeysAfter(rule, left, now) ==
  [tokens: Tostring(left), lastRefillMs: {now}, expireAt: {now + ttl : ttl \in TtlMs(rule)}]

Replies(level, rule, cost, now) ==
  [allowed:      {level >= cost * Unit},
   remaining:    {Left(level, cost) \div Unit},
   retryAfterMs: RetryAfterMs(level, rule, cost),
   resetMs:      {now + ms : ms \in CeilMs(rule.capacity - Left(level, cost), rule)}]

\* The whole script: the keys it may leave behind, with the replies it may return.
RunBucket(key, rule, cost, now) ==
  UNION {[key:   KeysAfter(rule, Left(level, cost), now),
          reply: Replies(level, rule, cost, now)] : level \in Levels(key, rule, now)}
=============================================================================
