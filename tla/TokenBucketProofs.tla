-------------------------- MODULE TokenBucketProofs --------------------------
(***************************************************************************)
(* For every rule and every set of costs: the token bucket script keeps    *)
(* its variables typed, admits at most a burst plus the refill over every  *)
(* interval, also on a clock that is set back, and on a steady clock       *)
(* implements the eager bucket; each but for the rounding of its doubles,  *)
(* of which Rounding bounds a single one.                                  *)
(***************************************************************************)
EXTENDS TokenBucket, TLAPS

-----------------------------------------------------------------------------
(***************************************************************************)
(* Products and integer division.                                          *)
(***************************************************************************)
\* A quotient times its divisor is within one divisor below the dividend.
LEMMA DivBounds ==
  ASSUME NEW a \in Nat, NEW b \in Nat \ {0}
  PROVE  /\ a \div b \in Nat
         /\ (a \div b) * b <= a
         /\ a < (a \div b) * b + b
BY SMT

\* Multiplying by a natural number preserves the order.
LEMMA ProductMono ==
  ASSUME NEW x \in Int, NEW y \in Int, NEW r \in Nat, x <= y
  PROVE  x * r <= y * r
BY SMT

\* Dividing by a positive number preserves the order.
LEMMA QuotientMono ==
  ASSUME NEW x \in Nat, NEW y \in Nat, NEW r \in Nat \ {0}, x <= y
  PROVE  x \div r <= y \div r
<1>1. SUFFICES ASSUME y \div r < x \div r PROVE FALSE
  BY DivBounds
<1>2. (y \div r + 1) * r <= (x \div r) * r
  BY <1>1, DivBounds, ProductMono
<1>3. (y \div r + 1) * r = (y \div r) * r + r
  BY DivBounds
<1> QED BY <1>2, <1>3, DivBounds

\* Rounding a quotient up gives the first multiple of b that reaches a.
LEMMA RoundUpReaches ==
  ASSUME NEW a \in Nat, NEW b \in Nat \ {0}
  PROVE  LET n == (a + b - 1) \div b
         IN  /\ n \in Nat
             /\ n * b >= a
             /\ (n - 1) * b < a
<1> DEFINE q == (a + b - 1) \div b
<1>1. a + b - 1 \in Nat
  OBVIOUS
<1>2. /\ q \in Nat
      /\ q * b <= a + b - 1
      /\ a + b - 1 < q * b + b
  BY <1>1, DivBounds
<1>3. (q - 1) * b = q * b - b
  BY <1>2
<1> HIDE DEF q
<1>4. /\ q \in Nat
      /\ q * b >= a
      /\ (q - 1) * b < a
  BY <1>2, <1>3
<1> QED BY <1>4 DEF q

USE RuleAssumption

-----------------------------------------------------------------------------
\* A rounded result is a natural number within Rounding of the exact one.
LEMMA NearBounds ==
  ASSUME NEW x \in Nat, NEW y \in Near(x)
  PROVE  y \in Nat /\ x - Rounding <= y /\ y <= x + Rounding
BY DEF Near, Errors, Most

\* Waits are ordered as what they wait for.
LEMMA CeilDivMono ==
  ASSUME NEW a \in Nat, NEW b \in Nat, a <= b
  PROVE  /\ CeilDiv(a, Refill) \in Nat /\ CeilDiv(b, Refill) \in Nat
         /\ CeilDiv(a, Refill) <= CeilDiv(b, Refill)
<1>1. a + Refill - 1 \in Nat /\ b + Refill - 1 \in Nat
  OBVIOUS
<1> QED BY <1>1, QuotientMono, DivBounds DEF CeilDiv

\* CeilMs is the wait EagerBucket asks for, and no longer than a full refill.
LEMMA CeilMsIsWait ==
  ASSUME NEW missing \in 0..Capacity, NEW n \in CeilMs(missing, Rule)
  PROVE  /\ n \in 0..CeilDiv(Capacity + Rounding, Refill)
         /\ Eager!IsWait(n, missing)
<1>1. CeilDiv(Capacity + Rounding, Refill) \in Nat
  BY CeilDivMono
<1>2. CASE missing = 0
  BY <1>1, <1>2 DEF CeilMs, Eager!IsWait
<1>3. CASE missing # 0
  <2>1. PICK e \in Errors : n = CeilDiv(Most(1, missing + e), Refill)
    BY <1>3 DEF CeilMs, Rule
  <2> DEFINE a == Most(1, missing + e)
  <2>2. /\ a \in Nat \ {0} /\ missing - Rounding <= a /\ a <= missing + Rounding
    BY <1>3 DEF Errors, Most
  <2>3. n = CeilDiv(a, Refill)
    BY <2>1
  <2> HIDE DEF a
  <2>4. n \in Nat /\ n * Refill >= a /\ (n - 1) * Refill < a
    BY <2>2, <2>3, RoundUpReaches DEF CeilDiv
  <2>5. n # 0
    BY <2>2, <2>4
  <2>6. n <= CeilDiv(Capacity + Rounding, Refill)
    BY <2>2, <2>3, CeilDivMono
  <2>7. n * Refill \in Int /\ (n - 1) * Refill \in Int
    BY <2>4
  <2>8. n * Refill >= missing - Rounding /\ (n - 1) * Refill < missing + Rounding
    BY <2>2, <2>4, <2>7
  <2> QED BY <1>1, <1>3, <2>4, <2>5, <2>6, <2>8 DEF Eager!IsWait
<1> QED BY <1>2, <1>3

\* The key outlives the time an empty bucket needs to fill.
LEMMA TtlFills ==
  ASSUME NEW ttl \in TtlMs(Rule)
  PROVE  ttl \in Nat \ {0} /\ ttl * Refill >= Capacity
<1>1. PICK e \in 0..Rounding : ttl = Most(1, CeilDiv(Capacity + e, Refill))
  BY DEF TtlMs, Rule
<1> DEFINE n == CeilDiv(Capacity + e, Refill)
<1>2. n \in Nat /\ n * Refill >= Capacity + e
  BY RoundUpReaches DEF CeilDiv
<1> HIDE DEF n
<1>3. n # 0
  BY <1>2
<1>4. ttl = n
  BY <1>1, <1>2, <1>3 DEF Most, n
<1> QED BY <1>2, <1>3, <1>4

\* A level the bucket can hold.
LEMMA RefilledInRange ==
  ASSUME NEW k \in Keys, NEW t \in Nat
  PROVE  Refilled(k, Rule, t) \in 0..Capacity
<1>1. ElapsedMs(k, t) \in Nat
  BY DEF ElapsedMs, Most, Keys
<1>2. ElapsedMs(k, t) * Refill \in Nat
  BY <1>1
<1> QED BY <1>2 DEF Refilled, Least, Rule, Keys

LEMMA LevelInRange ==
  ASSUME TypeOK
  PROVE  Level \in 0..Capacity /\ now \in Nat /\ key \in Keys
<1>1. now \in Nat /\ key \in Keys
  BY DEF TypeOK
<1> QED BY <1>1, RefilledInRange DEF Level

\* Right after a check wrote a level, the key holds that level as stored.
LEMMA WrittenLevel ==
  ASSUME NEW left \in 0..Capacity, NEW t \in 0..MaxTime, NEW k \in KeysAfter(Rule, left, t)
  PROVE  /\ k \in Keys
         /\ left - Rounding <= k.tokens /\ k.tokens <= left + Rounding
         /\ k.lastRefillMs = t
         /\ k.expireAt - k.lastRefillMs \in TtlMs(Rule)
         /\ Refilled(k, Rule, t) = Least(Capacity, k.tokens)
<1>1. PICK ttl \in TtlMs(Rule), x \in Near(left) :
        k = [tokens |-> x, lastRefillMs |-> t, expireAt |-> t + ttl]
  BY DEF KeysAfter, Tostring
<1>2. ttl \in Nat
  BY TtlFills
<1>3. x \in 0..(Capacity + Rounding) /\ left - Rounding <= x /\ x <= left + Rounding
  BY NearBounds
<1>4. ElapsedMs(k, t) = 0 /\ Alive(k, t)
  BY <1>1, <1>2 DEF ElapsedMs, Most, Alive
<1>5. k.expireAt - k.lastRefillMs = ttl
  BY <1>1, <1>2
<1>6. k \in Keys
  BY <1>1, <1>2, <1>3 DEF Keys
<1>7. Refilled(k, Rule, t) = Least(Capacity, k.tokens)
  BY <1>1, <1>3, <1>4 DEF Refilled, Rule
<1> QED BY <1>1, <1>3, <1>5, <1>6, <1>7

\* The level a check computes is near the exact one.
LEMMA LevelsNear ==
  ASSUME TypeOK, NEW level \in Levels(key, Rule, now)
  PROVE  /\ level \in 0..Capacity
         /\ Level - Rounding <= level /\ level <= Level + Rounding
<1> DEFINE exact == key.tokens + ElapsedMs(key, now) * Refill
<1>1. key \in Keys /\ now \in Nat
  BY DEF TypeOK
<1>2. ElapsedMs(key, now) \in Nat /\ key.tokens \in Nat
  BY <1>1 DEF ElapsedMs, Most, Keys
<1>3. exact \in Nat
  BY <1>2
<1>4. CASE Alive(key, now)
  <2>1. PICK y \in Near(exact) : level = Least(Capacity, y)
    BY <1>4 DEF Levels, Rule
  <2>2. Level = Least(Capacity, exact)
    BY <1>4 DEF Level, Refilled, Rule
  <2> HIDE DEF exact
  <2>3. y \in Nat /\ exact - Rounding <= y /\ y <= exact + Rounding
    BY <1>3, NearBounds
  <2> QED BY <1>3, <2>1, <2>2, <2>3 DEF Least
<1>5. CASE ~Alive(key, now)
  BY <1>5 DEF Levels, Level, Refilled, Rule
<1> QED BY <1>4, <1>5

\* A cost the service lets through, in units.
LEMMA CostInUnits ==
  ASSUME NEW cost \in Costs
  PROVE  cost \in Nat \ {0} /\ cost * Unit \in Nat /\ cost * Unit <= Capacity
OBVIOUS

LEMMA LeftInRange ==
  ASSUME NEW level \in 0..Capacity, NEW cost \in Costs
  PROVE  Left(level, cost) \in 0..Capacity
BY CostInUnits DEF Left

\* The lazy bucket seen through Level is the eager one: a millisecond adds
\* Refill up to Capacity, also over the expiry of the key.
LEMMA TickRefills ==
  ASSUME TypeOK, KeyWritten, InStep, NEW t, t = now + 1
  PROVE  Refilled(key, Rule, t) = Least(Capacity, Level + Refill)
<1> DEFINE last == key.lastRefillMs
           gained(m) == (m - last) * Refill
<1>0. key \in Keys /\ now \in Nat
  BY DEF TypeOK
<1>1. CASE key = NoBucket
  BY <1>0, <1>1 DEF Level, Refilled, Alive, NoBucket, Least, Rule
<1>2. CASE key # NoBucket
  <2>0. PICK ttl \in TtlMs(Rule) : key.expireAt - last = ttl
    BY <1>2 DEF KeyWritten
  <2>1. last \in Nat /\ last <= now /\ ttl \in Nat /\ key.expireAt = last + ttl
    BY <1>0, <1>2, <2>0, TtlFills DEF InStep, Keys
  <2>2. ElapsedMs(key, now) = now - last /\ ElapsedMs(key, t) = t - last
    BY <1>0, <2>1 DEF ElapsedMs, Most
  <2>3. gained(t) = gained(now) + Refill /\ gained(now) \in Nat
    <3>1. now - last \in Nat /\ t - last = (now - last) + 1
      BY <1>0, <2>1
    <3>2. ((now - last) + 1) * Refill = (now - last) * Refill + Refill
      BY <3>1
    <3> QED BY <3>1, <3>2
  <2>4. key.tokens \in Nat
    BY <1>0 DEF Keys
  <2>5. Alive(key, now) => Level = Least(Capacity, key.tokens + gained(now))
    BY <2>2 DEF Level, Refilled, Rule
  <2>6. Alive(key, t) => Refilled(key, Rule, t) = Least(Capacity, key.tokens + gained(t))
    BY <2>2 DEF Refilled, Rule
  <2>7. ~Alive(key, t) => Refilled(key, Rule, t) = Capacity
    BY DEF Refilled, Rule
  <2>8. ~Alive(key, now) => Level = Capacity
    BY DEF Level, Refilled, Rule
  <2>9. CASE Alive(key, t)
    <3>1. Alive(key, now)
      BY <1>0, <2>1, <2>9, TtlFills DEF Alive
    <3> HIDE DEF gained
    <3> QED BY <2>3, <2>4, <2>5, <2>6, <2>9, <3>1 DEF Least
  <2>10. CASE ~Alive(key, t) /\ Alive(key, now)
    <3>1. now - last = ttl
      BY <1>0, <2>1, <2>10, TtlFills DEF Alive
    <3>2. gained(now) >= Capacity
      BY <3>1, TtlFills
    <3> HIDE DEF gained
    <3> QED BY <2>3, <2>4, <2>5, <2>7, <2>10, <3>2 DEF Least
  <2>11. CASE ~Alive(key, t) /\ ~Alive(key, now)
    BY <2>7, <2>8, <2>11 DEF Least
  <2> QED BY <2>9, <2>10, <2>11
<1> QED BY <1>1, <1>2

\* Behind a clock that was set back the bucket gains no more than that.
LEMMA TickAddsAtMost ==
  ASSUME TypeOK, KeyWritten, NEW t, t = now + 1
  PROVE  Refilled(key, Rule, t) <= Level + Refill
<1> DEFINE last == key.lastRefillMs
<1>1. key \in Keys /\ now \in Nat /\ Level \in 0..Capacity
  BY LevelInRange
<1>2. CASE key # NoBucket /\ now < last
  <2>0. PICK ttl \in TtlMs(Rule) : key.expireAt - last = ttl
    BY <1>2 DEF KeyWritten
  <2>1. last \in Nat /\ ttl \in Nat /\ key.expireAt = last + ttl
    BY <1>1, <2>0, TtlFills DEF Keys
  <2>2. ElapsedMs(key, now) = 0 /\ ElapsedMs(key, t) = 0
    BY <1>1, <1>2, <2>1 DEF ElapsedMs, Most
  <2>3. Alive(key, now) /\ Alive(key, t)
    BY <1>1, <1>2, <2>1, TtlFills DEF Alive
  <2>4. Refilled(key, Rule, t) = Level
    BY <2>2, <2>3 DEF Refilled, Level, Rule
  <2> QED BY <1>1, <2>4
<1>3. CASE key = NoBucket \/ ~(now < last)
  <2>1. Refilled(key, Rule, t) <= Capacity
    BY <1>1, RefilledInRange
  <2>2. CASE key = NoBucket
    <3>1. Level = Capacity
      BY <1>1, <2>2 DEF Level, Refilled, Alive, NoBucket, Rule
    <3>2. Refilled(key, Rule, t) \in Int
      BY <1>1, RefilledInRange
    <3> QED BY <2>1, <3>1, <3>2
  <2>3. CASE key # NoBucket /\ ~(now < last)
    <3>0. PICK ttl \in TtlMs(Rule) : key.expireAt - last = ttl
      BY <2>3 DEF KeyWritten
    <3>1. last \in Nat /\ last <= now /\ ttl \in Nat /\ key.expireAt = last + ttl
      BY <1>1, <2>3, <3>0, TtlFills DEF Keys
    <3>2. ElapsedMs(key, now) = now - last /\ ElapsedMs(key, t) = t - last
      BY <1>1, <3>1 DEF ElapsedMs, Most
    <3> DEFINE g == (now - last) * Refill
    <3>3. (t - last) * Refill = g + Refill /\ g \in Nat
      BY <1>1, <3>1
    <3>4. CASE Alive(key, now)
      <4>1. Level = Least(Capacity, key.tokens + g)
        BY <3>2, <3>4 DEF Level, Refilled, Rule
      <4>2. CASE Alive(key, t)
        <5>1. Refilled(key, Rule, t) = Least(Capacity, key.tokens + (g + Refill))
          BY <3>2, <3>3, <4>2 DEF Refilled, Rule
        <5>2. key.tokens \in Nat
          BY <1>1 DEF Keys
        <5> HIDE DEF g
        <5> QED BY <3>3, <4>1, <5>1, <5>2 DEF Least
      <4>3. CASE ~Alive(key, t)
        <5>1. now - last = ttl
          BY <1>1, <3>1, <3>4, <4>3, TtlFills DEF Alive
        <5>2. g >= Capacity
          BY <5>1, TtlFills
        <5>3. key.tokens \in Nat /\ Refilled(key, Rule, t) = Capacity
          BY <1>1, <4>3 DEF Keys, Refilled, Rule
        <5> HIDE DEF g
        <5> QED BY <3>3, <4>1, <5>2, <5>3 DEF Least
      <4> QED BY <4>2, <4>3
    <3>5. CASE ~Alive(key, now)
      <4>1. Level = Capacity /\ Refilled(key, Rule, t) \in Int
        BY <1>1, <3>5, RefilledInRange DEF Level, Refilled, Rule
      <4> QED BY <2>1, <4>1
    <3> QED BY <3>4, <3>5
  <2> QED BY <1>3, <2>2, <2>3
<1> QED BY <1>2, <1>3

\* Setting the clock back never raises the level.
LEMMA BackAddsNothing ==
  ASSUME TypeOK, KeyWritten, NEW t \in Nat, t < now
  PROVE  Refilled(key, Rule, t) <= Level
<1> DEFINE last == key.lastRefillMs
<1>1. key \in Keys /\ now \in Nat /\ Level \in 0..Capacity
  BY LevelInRange
<1>2. Refilled(key, Rule, t) \in 0..Capacity
  BY <1>1, RefilledInRange
<1>3. CASE ~Alive(key, now)
  BY <1>1, <1>2, <1>3 DEF Level, Refilled, Rule
<1>4. CASE Alive(key, now)
  <2>1. Alive(key, t)
    BY <1>1, <1>4 DEF Alive, Keys
  <2>2. /\ ElapsedMs(key, t) \in Nat /\ ElapsedMs(key, now) \in Nat
        /\ ElapsedMs(key, t) <= ElapsedMs(key, now)
    BY <1>1 DEF ElapsedMs, Most, Keys
  <2>3. ElapsedMs(key, t) * Refill <= ElapsedMs(key, now) * Refill
    BY <2>2, ProductMono
  <2>4. key.tokens \in Nat /\ ElapsedMs(key, t) * Refill \in Nat
        /\ ElapsedMs(key, now) * Refill \in Nat
    BY <1>1, <2>2 DEF Keys
  <2>5. /\ Refilled(key, Rule, t) = Least(Capacity, key.tokens + ElapsedMs(key, t) * Refill)
        /\ Level = Least(Capacity, key.tokens + ElapsedMs(key, now) * Refill)
    BY <1>4, <2>1 DEF Level, Refilled, Rule
  <2> QED BY <2>3, <2>4, <2>5 DEF Least
<1> QED BY <1>3, <1>4

-----------------------------------------------------------------------------
\* The reply of a check is well typed.
LEMMA ReplyTyped ==
  ASSUME NEW level \in 0..Capacity, NEW cost \in Costs, NEW t \in Nat,
         NEW r \in Replies(level, Rule, cost, t)
  PROVE  r \in [allowed: BOOLEAN, remaining: 0..(Capacity \div Unit),
                retryAfterMs: 0..CeilDiv(Capacity + Rounding, Refill), resetMs: Nat]
<1> DEFINE left == Left(level, cost)
<1>1. left \in 0..Capacity /\ Capacity - left \in 0..Capacity
  BY LeftInRange
<1>2. left \div Unit \in 0..(Capacity \div Unit)
  BY <1>1, DivBounds, QuotientMono
<1>3. PICK ms \in CeilMs(Capacity - left, Rule), wait \in RetryAfterMs(level, Rule, cost) :
        r = [allowed |-> level >= cost * Unit, remaining |-> left \div Unit,
             retryAfterMs |-> wait, resetMs |-> t + ms]
  BY DEF Replies, Rule
<1> HIDE DEF left
<1>4. ms \in Nat
  BY <1>1, CeilMsIsWait
<1>5. wait \in 0..CeilDiv(Capacity + Rounding, Refill)
  <2>1. CASE level >= cost * Unit
    <3>1. CeilDiv(Capacity + Rounding, Refill) \in Nat
      BY CeilDivMono
    <3> QED BY <2>1, <3>1 DEF RetryAfterMs
  <2>2. CASE ~(level >= cost * Unit)
    <3>1. cost * Unit - level \in 0..Capacity
      BY <2>2, CostInUnits
    <3> QED BY <2>2, <3>1, CeilMsIsWait DEF RetryAfterMs
  <2> QED BY <2>1, <2>2
<1> QED BY <1>2, <1>3, <1>4, <1>5

\* What a check that computed `level` does, seen from outside: it stores what
\* the decision leaves of the level, and replies accordingly.
Ran(level, cost) ==
  /\ level \in 0..Capacity
  /\ Level - Rounding <= level /\ level <= Level + Rounding
  /\ key' \in KeysAfter(Rule, Left(level, cost), now)
  /\ reply' \in Replies(level, Rule, cost, now)
  /\ granted' = IF level >= cost * Unit THEN granted + cost ELSE granted

LEMMA CheckRan ==
  ASSUME SteppedInv, NEW cost \in Costs, Check(cost)
  PROVE  /\ \E level : Ran(level, cost)
         /\ runs < MaxRuns /\ runs' = runs + 1
         /\ now' = now /\ elapsed' = elapsed /\ since' = since
<1>1. PICK run \in RunBucket(key, Rule, cost, now) :
        /\ key' = run.key /\ reply' = run.reply
        /\ granted' = IF run.reply.allowed THEN granted + cost ELSE granted
  BY DEF Check
<1>2. PICK level \in Levels(key, Rule, now) :
        run \in [key: KeysAfter(Rule, Left(level, cost), now),
                 reply: Replies(level, Rule, cost, now)]
  BY DEF RunBucket
<1>3. run.reply.allowed = (level >= cost * Unit)
  BY <1>2 DEF Replies
<1>4. Ran(level, cost)
  BY <1>1, <1>2, <1>3, LevelsNear DEF Ran, SteppedInv
<1> QED BY <1>4 DEF Check

\* The stored level, and with it the exact one, is what was left but for the
\* rounding; and the key is a written key.
LEMMA CheckEffect ==
  ASSUME SteppedInv, NEW cost \in Costs, NEW level, Ran(level, cost), now' = now
  PROVE  /\ Left(level, cost) \in 0..Capacity
         /\ key' \in Keys
         /\ Left(level, cost) - Rounding <= key'.tokens
         /\ key'.tokens <= Left(level, cost) + Rounding
         /\ key'.lastRefillMs = now
         /\ key'.expireAt - key'.lastRefillMs \in TtlMs(Rule)
         /\ Level' = Least(Capacity, key'.tokens)
<1>1. Left(level, cost) \in 0..Capacity /\ now \in 0..MaxTime
  BY LeftInRange DEF Ran, SteppedInv, TypeOK
<1>2. key' \in KeysAfter(Rule, Left(level, cost), now)
  BY DEF Ran
<1>3. Level' = Refilled(key', Rule, now)
  BY DEF Level, Rule
<1> QED BY <1>1, <1>2, <1>3, WrittenLevel

-----------------------------------------------------------------------------
LEMMA InitStepped == Init => SteppedInv
<1> SUFFICES ASSUME Init PROVE SteppedInv
  OBVIOUS
<1>1. Capacity \div Unit \in Nat
  BY DivBounds
<1>2. TypeOK
  BY <1>1, CeilDivMono DEF Init, TypeOK, Keys, NoBucket
<1>3. Level = Capacity
  BY DEF Init, Level, Refilled, Alive, NoBucket, Rule
<1>4. KeyWritten /\ now <= elapsed
  BY DEF Init, KeyWritten
<1>5. Budget
  BY <1>3 DEF Init, Budget, Rounded
<1> QED BY <1>2, <1>4, <1>5 DEF SteppedInv

LEMMA TickStepped ==
  ASSUME SteppedInv, Tick
  PROVE  SteppedInv'
<1>1. TypeOK'
  BY DEF SteppedInv, TypeOK, Tick, Keys
<1>2. KeyWritten' /\ (now <= elapsed)'
  <2>1. /\ now \in Nat /\ elapsed \in Nat /\ now <= elapsed
        /\ now' = now + 1 /\ key' = key /\ elapsed' = elapsed + 1
    BY DEF Tick, SteppedInv, TypeOK
  <2>2. KeyWritten'
    BY <2>1 DEF SteppedInv, KeyWritten, TtlMs, Rule
  <2> QED BY <2>1, <2>2
<1>3. Budget'
  <2>1. Level \in 0..Capacity
    BY LevelInRange DEF SteppedInv
  <2>2. Level' <= Level + Refill /\ Level' \in 0..Capacity
    <3>1. now' = now + 1 /\ now' \in Nat /\ key' = key
      BY LevelInRange DEF Tick, SteppedInv
    <3>2. Level' = Refilled(key, Rule, now + 1)
      BY <3>1 DEF Level, Rule
    <3> QED BY <3>1, <3>2, TickAddsAtMost, LevelInRange, RefilledInRange DEF SteppedInv
  <2>3. /\ elapsed \in Nat /\ since \in 0..elapsed /\ elapsed' = elapsed + 1
        /\ granted \in Nat /\ runs \in Nat
    BY DEF Tick, SteppedInv, TypeOK
  <2>4. CASE since' = elapsed + 1 /\ granted' = 0 /\ runs' = 0
    <3>1. /\ granted' * Unit = 0 /\ Refill * (elapsed' - since') = 0
          /\ 2 * Rounding * runs' = 0
      BY <2>3, <2>4
    <3> QED BY <2>2, <3>1 DEF Budget, Rounded
  <2>5. CASE UNCHANGED <<since, granted, runs>>
    <3>1. Refill * (elapsed + 1 - since) = Refill * (elapsed - since) + Refill
      BY <2>3
    <3>2. granted * Unit + Level <= Capacity + Refill * (elapsed - since) + 2 * Rounding * runs
      BY DEF SteppedInv, Budget, Rounded
    <3>3. /\ granted * Unit \in Int /\ Refill * (elapsed - since) \in Int
          /\ 2 * Rounding * runs \in Int
      BY <2>3
    <3>4. granted * Unit + Level'
            <= Capacity + Refill * (elapsed + 1 - since) + 2 * Rounding * runs
      BY <2>1, <2>2, <3>1, <3>2, <3>3
    <3> QED BY <2>3, <2>5, <3>4 DEF Budget, Rounded
  <2> QED BY <2>4, <2>5 DEF Tick
<1> QED BY <1>1, <1>2, <1>3 DEF SteppedInv

LEMMA ExpireStepped ==
  ASSUME SteppedInv, Expire
  PROVE  SteppedInv' /\ Level' = Level
<1>1. Level' = Level
  BY DEF Expire, Level, Refilled, Alive, NoBucket, SteppedInv, TypeOK, Rule
<1>2. TypeOK'
  BY DEF Expire, observer, SteppedInv, TypeOK, Keys, NoBucket
<1>3. Budget'
  BY <1>1 DEF Expire, observer, SteppedInv, Budget, Rounded
<1> QED BY <1>1, <1>2, <1>3 DEF Expire, observer, SteppedInv, KeyWritten

LEMMA CheckStepped ==
  ASSUME SteppedInv, NEW cost \in Costs, Check(cost)
  PROVE  SteppedInv'
<1> DEFINE left(level) == Left(level, cost)
<1>1. /\ now \in 0..MaxTime /\ granted \in Nat /\ elapsed \in 0..MaxTime
      /\ since \in 0..elapsed /\ runs \in Nat /\ now <= elapsed
  BY DEF SteppedInv, TypeOK
<1>2. PICK level : Ran(level, cost)
  BY CheckRan
<1>3. /\ runs' = runs + 1 /\ runs < MaxRuns
      /\ now' = now /\ elapsed' = elapsed /\ since' = since
  BY CheckRan
<1>4. /\ left(level) \in 0..Capacity
      /\ key' \in Keys
      /\ left(level) - Rounding <= key'.tokens /\ key'.tokens <= left(level) + Rounding
      /\ key'.expireAt - key'.lastRefillMs \in TtlMs(Rule)
      /\ Level' = Least(Capacity, key'.tokens)
  BY <1>2, <1>3, CheckEffect
<1>5. level \in 0..Capacity /\ level <= Level + Rounding /\ Level \in 0..Capacity
  BY <1>2, LevelInRange DEF Ran, SteppedInv
<1>6. granted' \in Nat
  BY <1>1, <1>2, CostInUnits DEF Ran
<1>7. TypeOK'
  <2>1. reply' \in [allowed: BOOLEAN, remaining: 0..(Capacity \div Unit),
                    retryAfterMs: 0..CeilDiv(Capacity + Rounding, Refill), resetMs: Nat]
    <3>1. now \in Nat /\ reply' \in Replies(level, Rule, cost, now)
      BY <1>1, <1>2 DEF Ran
    <3> QED BY <1>5, <3>1, ReplyTyped
  <2> QED BY <1>1, <1>3, <1>4, <1>6, <2>1 DEF TypeOK
<1>8. KeyWritten' /\ (now <= elapsed)'
  <2>1. (now <= elapsed)'
    BY <1>1, <1>3
  <2>2. KeyWritten'
    BY <1>4 DEF KeyWritten, Rule
  <2> QED BY <2>1, <2>2
<1>9. Budget'
  <2>1. granted * Unit + Level <= Capacity + Refill * (elapsed - since) + 2 * Rounding * runs
    BY DEF SteppedInv, Budget, Rounded
  <2>2. Level' <= left(level) + Rounding /\ Level' \in Int
    BY <1>4 DEF Least, Keys
  <2>3. granted' * Unit + left(level) = granted * Unit + level
    <3>1. CASE level >= cost * Unit
      <4>1. granted' = granted + cost /\ left(level) = level - cost * Unit
        BY <1>2, <3>1 DEF Ran, Left
      <4>2. (granted + cost) * Unit = granted * Unit + cost * Unit
        BY <1>1, CostInUnits
      <4>3. granted * Unit \in Int /\ cost * Unit \in Int
        BY <1>1, CostInUnits
      <4> HIDE DEF left
      <4> QED BY <1>5, <4>1, <4>2, <4>3
    <3>2. CASE ~(level >= cost * Unit)
      BY <1>2, <3>2 DEF Ran, Left
    <3> QED BY <3>1, <3>2
  <2>4. 2 * Rounding * (runs + 1) = 2 * Rounding * runs + 2 * Rounding
    BY <1>1
  <2>5. /\ granted * Unit \in Int /\ granted' * Unit \in Int
        /\ Refill * (elapsed - since) \in Int /\ 2 * Rounding * runs \in Int
    BY <1>1, <1>6
  <2> HIDE DEF left
  <2>6. granted' * Unit + Level'
          <= Capacity + Refill * (elapsed - since) + 2 * Rounding * (runs + 1)
    BY <1>4, <1>5, <2>1, <2>2, <2>3, <2>4, <2>5
  <2> QED BY <1>3, <2>6 DEF Budget, Rounded
<1> QED BY <1>7, <1>8, <1>9 DEF SteppedInv

LEMMA BackStepped ==
  ASSUME SteppedInv, ClockStepsBack
  PROVE  SteppedInv'
<1>1. /\ now' \in Nat /\ now' < now /\ now \in 0..MaxTime /\ elapsed \in Int
      /\ key' = key /\ UNCHANGED observer /\ reply' = reply
  BY DEF ClockStepsBack, SteppedInv, TypeOK
<1>2. TypeOK' /\ (now <= elapsed)' /\ KeyWritten'
  BY <1>1 DEF SteppedInv, TypeOK, KeyWritten, Keys, Rule, observer
<1>3. Level' <= Level /\ Level' \in Int /\ Level \in Int
  <2>1. Level' = Refilled(key, Rule, now')
    BY <1>1 DEF Level, Rule
  <2>2. key \in Keys /\ Level \in 0..Capacity
    BY LevelInRange DEF SteppedInv
  <2>3. Refilled(key, Rule, now') \in 0..Capacity
    BY <1>1, <2>2, RefilledInRange
  <2>4. Refilled(key, Rule, now') <= Level
    BY <1>1, BackAddsNothing DEF SteppedInv
  <2> QED BY <2>1, <2>2, <2>3, <2>4
<1>4. Budget'
  <2>1. granted * Unit + Level <= Capacity + Refill * (elapsed - since) + Rounded
    BY DEF SteppedInv, Budget
  <2>2. /\ granted * Unit \in Int /\ Refill * (elapsed - since) \in Int
        /\ Rounded \in Int /\ Rounded' = Rounded
    BY <1>1 DEF SteppedInv, TypeOK, Rounded, observer
  <2>3. granted * Unit + Level' <= Capacity + Refill * (elapsed - since) + Rounded
    BY <1>3, <2>1, <2>2
  <2> QED BY <1>1, <2>2, <2>3 DEF Budget, observer
<1> QED BY <1>2, <1>4 DEF SteppedInv

LEMMA NextStepped == SteppedInv /\ [Next \/ ClockStepsBack]_vars => SteppedInv'
<1> SUFFICES ASSUME SteppedInv, [Next \/ ClockStepsBack]_vars PROVE SteppedInv'
  OBVIOUS
<1>1. CASE Tick
  BY <1>1, TickStepped
<1>2. CASE Expire
  BY <1>2, ExpireStepped
<1>3. ASSUME NEW cost \in Costs, Check(cost) PROVE SteppedInv'
  BY <1>3, CheckStepped
<1>4. CASE ClockStepsBack
  BY <1>4, BackStepped
<1>5. CASE UNCHANGED vars
  BY <1>5 DEF vars, observer, SteppedInv, TypeOK, KeyWritten, Budget, Rounded, Level,
              Refilled, Alive, ElapsedMs, Keys, Rule
<1> QED BY <1>1, <1>2, <1>3, <1>4, <1>5 DEF Next

LEMMA SteppedBudget == SteppedInv => AdmissionBound
<1> SUFFICES ASSUME SteppedInv PROVE AdmissionBound
  OBVIOUS
<1>1. Level \in 0..Capacity
  BY LevelInRange DEF SteppedInv
<1>2. /\ granted * Unit \in Int /\ Refill * (elapsed - since) \in Int /\ Rounded \in Int
  BY DEF SteppedInv, TypeOK, Rounded
<1> QED BY <1>1, <1>2 DEF SteppedInv, Budget, AdmissionBound

-----------------------------------------------------------------------------
\* Over any interval of true time at most a full bucket plus its refill is
\* granted, also when the Redis clock is set back, by any amount, at any moment:
\* a clock set back mints no tokens.
THEOREM SteppedAdmission == SteppedSpec => []AdmissionBound
<1> QED BY InitStepped, NextStepped, SteppedBudget, PTL DEF SteppedSpec

\* The inductive invariant of a bucket whose clock may be set back.
THEOREM SteppedInvariance == SteppedSpec => []SteppedInv
<1> QED BY InitStepped, NextStepped, PTL DEF SteppedSpec

LEMMA TakesWhatItGrants ==
  ASSUME SteppedInv, Alive(key, now), NEW cost \in Costs, Check(cost)
  PROVE  key'.tokens + (granted' - granted) * Unit + 2 * Rounding
           >= Least(Capacity, key.tokens)
<1>1. key \in Keys /\ granted \in Nat /\ now \in Nat
  BY DEF SteppedInv, TypeOK
<1>2. Level \in 0..Capacity /\ Level >= Least(Capacity, key.tokens)
  <2>1. ElapsedMs(key, now) * Refill \in Nat /\ key.tokens \in Nat
    BY <1>1 DEF ElapsedMs, Most, Keys
  <2>2. Level = Least(Capacity, key.tokens + ElapsedMs(key, now) * Refill)
    BY DEF Level, Refilled, Rule
  <2> QED BY <2>1, <2>2 DEF Least
<1>3. PICK level : Ran(level, cost)
  BY CheckRan
<1>4. level \in 0..Capacity /\ Level - Rounding <= level
  BY <1>3 DEF Ran
<1>5. /\ Left(level, cost) \in 0..Capacity
      /\ Left(level, cost) - Rounding <= key'.tokens /\ key'.tokens \in Nat
  BY <1>3, CheckRan, CheckEffect DEF Keys
<1>6. (granted' - granted) * Unit + Left(level, cost) = level
  <2>1. CASE level >= cost * Unit
    <3>1. granted' = granted + cost /\ Left(level, cost) = level - cost * Unit
      BY <1>3, <2>1 DEF Ran, Left
    <3>2. (granted' - granted) * Unit = cost * Unit /\ cost * Unit \in Nat
      BY <1>1, <3>1, CostInUnits
    <3> QED BY <1>4, <3>1, <3>2
  <2>2. CASE ~(level >= cost * Unit)
    <3>1. granted' = granted /\ Left(level, cost) = level
      BY <1>3, <2>2 DEF Ran, Left
    <3>2. (granted' - granted) * Unit = 0
      BY <1>1, <3>1
    <3> QED BY <1>4, <3>1, <3>2
  <2> QED BY <2>1, <2>2
<1>7. (granted' - granted) * Unit \in Int
  BY <1>4, <1>5, <1>6, <1>1, <1>3, CostInUnits DEF Ran
<1> QED BY <1>1, <1>2, <1>4, <1>5, <1>6, <1>7 DEF Least, Keys

\* No check takes tokens it does not grant but those its rounding loses,
\* wherever the clock is set.
THEOREM NeverOvercharged == SteppedSpec => NoTokensLost
<1>1. SteppedInv /\ [Next \/ ClockStepsBack]_vars
        => [Alive(key, now) /\ (\E cost \in Costs : Check(cost)) =>
              key'.tokens + (granted' - granted) * Unit + 2 * Rounding
                >= Least(Capacity, key.tokens)]_vars
  BY TakesWhatItGrants
<1> QED BY <1>1, SteppedInvariance, PTL DEF SteppedSpec, NoTokensLost

LEMMA InitIInv == Init => IInv
BY InitStepped DEF Init, InStep, IInv

LEMMA NextKeeps == IInv /\ [Next]_vars => IInv'
<1> SUFFICES ASSUME IInv, [Next]_vars PROVE IInv'
  OBVIOUS
<1>1. SteppedInv'
  BY NextStepped DEF IInv
<1>2. key \in Keys /\ now \in Nat
  BY LevelInRange DEF IInv, SteppedInv
<1>3. CASE Tick
  BY <1>1, <1>2, <1>3 DEF Tick, IInv, InStep, Keys
<1>4. CASE Expire
  BY <1>1, <1>4 DEF Expire, observer, IInv, InStep
<1>5. ASSUME NEW cost \in Costs, Check(cost) PROVE IInv'
  <2>1. key'.lastRefillMs = now /\ now' = now /\ elapsed' = elapsed
    BY <1>5, CheckRan, CheckEffect DEF IInv
  <2> QED BY <1>1, <1>2, <2>1 DEF IInv, InStep
<1>6. CASE UNCHANGED vars
  BY <1>1, <1>6 DEF vars, observer, IInv, InStep
<1> QED BY <1>3, <1>4, <1>5, <1>6 DEF Next

\* On a steady clock the level plus what was granted never exceeds a burst plus
\* the refill and the rounding, and no refill stamp lies ahead of the clock.
THEOREM Invariance == Spec => []IInv
<1> QED BY InitIInv, NextKeeps, PTL DEF Spec

\* Every variable keeps its type: the level the script writes stays within
\* 0..capacity but for its rounding, and its replies within their ranges.
THEOREM TypeCorrect == Spec => []TypeOK
<1>1. IInv => TypeOK
  BY DEF IInv, SteppedInv
<1> QED BY <1>1, Invariance, PTL

\* Over any interval at most a full bucket plus its refill is granted.
THEOREM Admission == Spec => []AdmissionBound
<1>1. IInv => AdmissionBound
  BY SteppedBudget DEF IInv
<1> QED BY <1>1, Invariance, PTL

-----------------------------------------------------------------------------
LEMMA InitImplements == Init => Eager!Init
BY DEF Init, Eager!Init, Level, Refilled, Alive, NoBucket, Rule

\* A run of the script is a Take of the eager bucket.
LEMMA CheckImplements ==
  ASSUME SteppedInv, NEW cost \in Costs, Check(cost)
  PROVE  Eager!Take(cost)
<1>1. PICK level : Ran(level, cost)
  BY CheckRan
<1> DEFINE left == Left(level, cost)
<1>2. /\ level \in 0..Capacity /\ Level - Rounding <= level /\ level <= Level + Rounding
      /\ reply' \in Replies(level, Rule, cost, now)
  BY <1>1 DEF Ran
<1>3. /\ now' = now /\ now \in Nat /\ left \in 0..Capacity /\ key' \in Keys
      /\ left - Rounding <= key'.tokens /\ key'.tokens <= left + Rounding
      /\ Level' = Least(Capacity, key'.tokens)
  BY <1>1, CheckRan, CheckEffect, LevelInRange DEF SteppedInv
<1>4. PICK ms \in CeilMs(Capacity - left, Rule), wait \in RetryAfterMs(level, Rule, cost) :
        reply' = [allowed |-> level >= cost * Unit, remaining |-> left \div Unit,
                  retryAfterMs |-> wait, resetMs |-> now + ms]
  BY <1>2 DEF Replies, Rule
<1>5. reply' \in Eager!Replies
  BY <1>2, <1>3, ReplyTyped DEF Eager!Replies
<1>6. Eager!Leave(left)
  <2> HIDE DEF left
  <2>1. /\ (left \div Unit) * Unit <= left
        /\ left < (left \div Unit + 1) * Unit
    <3>1. /\ left \div Unit \in Nat /\ (left \div Unit) * Unit <= left
          /\ left < (left \div Unit) * Unit + Unit
      BY <1>3, DivBounds
    <3>2. (left \div Unit + 1) * Unit = (left \div Unit) * Unit + Unit
      BY <3>1
    <3> QED BY <3>1, <3>2
  <2>2. Eager!IsWait(reply'.resetMs - now, Capacity - left)
    <3>1. Capacity - left \in 0..Capacity
      BY <1>3
    <3>2. ms \in Nat /\ Eager!IsWait(ms, Capacity - left)
      BY <3>1, CeilMsIsWait
    <3>3. reply'.resetMs - now = ms
      BY <1>3, <1>4, <3>2
    <3> QED BY <3>2, <3>3
  <2>3. Level' \in Eager!Levels /\ Eager!IsNear(left, Level')
    BY <1>3 DEF Least, Keys, Eager!Levels, Eager!IsNear
  <2> QED BY <1>4, <2>1, <2>2, <2>3 DEF Eager!Leave
<1>7. Eager!Grant(cost, level) \/ Eager!Refuse(cost, level)
  <2>1. CASE level >= cost * Unit
    <3>1. left = level - cost * Unit
      BY <2>1 DEF Left
    <3>2. wait = 0
      BY <2>1 DEF RetryAfterMs
    <3>3. reply'.allowed = TRUE
      BY <1>4, <2>1
    <3> QED BY <1>4, <1>6, <2>1, <3>1, <3>2, <3>3 DEF Eager!Grant
  <2>2. CASE ~(level >= cost * Unit)
    <3>1. left = level
      BY <2>2 DEF Left
    <3>2. cost * Unit - level \in 0..Capacity /\ level < cost * Unit
      BY <1>2, <2>2, CostInUnits
    <3>3. wait \in CeilMs(cost * Unit - level, Rule)
      BY <2>2 DEF RetryAfterMs
    <3>4. Eager!IsWait(reply'.retryAfterMs, cost * Unit - level)
      BY <1>4, <3>2, <3>3, CeilMsIsWait
    <3>5. reply'.allowed = FALSE
      <4>1. reply'.allowed \in BOOLEAN
        BY <1>5 DEF Eager!Replies
      <4>2. ~reply'.allowed
        BY <1>4, <2>2
      <4> QED BY <4>1, <4>2
    <3> QED BY <1>6, <3>1, <3>2, <3>4, <3>5 DEF Eager!Refuse
  <2> QED BY <2>1, <2>2
<1>8. level \in Eager!Levels /\ Eager!IsNear(Level, level)
  BY <1>2 DEF Eager!Levels, Eager!IsNear
<1> QED BY <1>3, <1>5, <1>7, <1>8 DEF Eager!Take

LEMMA NextImplements == IInv /\ [Next]_vars => [Eager!Next]_(Eager!vars)
<1> SUFFICES ASSUME IInv, [Next]_vars PROVE [Eager!Next]_(Eager!vars)
  OBVIOUS
<1>1. CASE Tick
  <2>1. Level' = Least(Capacity, Level + Refill)
    BY <1>1, TickRefills DEF Tick, IInv, SteppedInv, Level, Rule
  <2>2. now < MaxTime /\ now' = now + 1 /\ reply' = reply
    BY <1>1 DEF Tick, IInv, InStep
  <2>3. Level' = IF Level + Refill <= Capacity THEN Level + Refill ELSE Capacity
    <3>1. Level \in Int
      BY LevelInRange DEF IInv, SteppedInv
    <3> QED BY <2>1, <3>1 DEF Least
  <2>4. Eager!Tick
    BY <2>2, <2>3 DEF Eager!Tick
  <2> QED BY <2>4 DEF Eager!Next
<1>2. CASE Expire
  BY <1>2, ExpireStepped DEF Expire, Eager!vars, IInv
<1>3. ASSUME NEW cost \in Costs, Check(cost) PROVE Eager!Next
  BY <1>3, CheckImplements DEF Eager!Next, IInv
<1>4. CASE UNCHANGED vars
  BY <1>4 DEF vars, Eager!vars, Level, Refilled, Alive, ElapsedMs, Rule
<1> QED BY <1>1, <1>2, <1>3, <1>4 DEF Next

\* The script implements the bucket that is topped up every millisecond, never
\* dropped, and read and written to within Rounding: lazy refill and expiry
\* cannot be observed, whatever single computations on doubles err by.
THEOREM Implements == Spec => ImplementsEagerBucket
<1> QED BY InitImplements, NextImplements, Invariance, PTL
        DEF Spec, ImplementsEagerBucket, Eager!Spec
=============================================================================
