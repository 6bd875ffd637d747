--------------------------- MODULE RuleEditsProofs ---------------------------
(***************************************************************************)
(* For every set of versions of a rule, every cost and any order of their  *)
(* checks, also on a clock that is set back: the token-bucket key grants   *)
(* no more than the widest bucket would and rounding adds, no check takes  *)
(* tokens it does not grant, and the sliding-window key admits no more     *)
(* than the highest limit in any Span milliseconds of true time.           *)
(***************************************************************************)
EXTENDS RuleEdits, Integers, FiniteSetTheorems, TLAPS

LEMMA RangeGrows ==
  ASSUME NEW a \in Nat, NEW b \in Nat, a <= b
  PROVE  \A n \in 0..(a - 1) : n \in 0..(b - 1)
OBVIOUS

LEMMA UpTo ==
  ASSUME NEW n \in Nat \ {0}, NEW k \in Nat, NEW m \in Nat, n <= k, k <= m
  PROVE  n \in 1..m
OBVIOUS

\* Multiplying by a natural number preserves the order.
LEMMA ProductMono ==
  ASSUME NEW x \in Int, NEW y \in Int, NEW r \in Nat, x <= y
  PROVE  x * r <= y * r
BY SMT

\* Rounding a quotient up gives a multiple of b that reaches a.
LEMMA RoundUpReaches ==
  ASSUME NEW a \in Nat, NEW b \in Nat \ {0}
  PROVE  (a + b - 1) \div b \in Nat /\ ((a + b - 1) \div b) * b >= a
<1> DEFINE q == (a + b - 1) \div b
<1>1. q \in Nat /\ a + b - 1 < q * b + b
  BY SMT
<1> HIDE DEF q
<1>2. q \in Nat /\ q * b >= a
  BY <1>1
<1> QED BY <1>2 DEF q

USE VersionsAssumption, WidestAssumption

-----------------------------------------------------------------------------
LEMMA VersionTyped ==
  ASSUME NEW v \in Buckets
  PROVE  /\ v.capacity \in Nat \ {0} /\ v.refill \in Nat \ {0}
         /\ v.capacity <= Burst /\ v.refill <= Rate
         /\ Burst * v.refill <= Rate * v.capacity
OBVIOUS

\* A smaller product of the same positive factor has the smaller factor.
LEMMA Cancel ==
  ASSUME NEW x \in Nat, NEW y \in Nat, NEW r \in Nat \ {0}, x * r <= y * r
  PROVE  x <= y
<1> SUFFICES ASSUME y + 1 <= x PROVE FALSE
  OBVIOUS
<1>1. (y + 1) * r <= x * r
  BY ProductMono
<1>2. (y + 1) * r = y * r + r /\ y * r \in Nat /\ x * r \in Nat
  OBVIOUS
<1> QED BY <1>1, <1>2

\* A key that any version wrote outlives the time the widest bucket takes to fill.
LEMMA TtlFillsWidest ==
  ASSUME NEW v \in Buckets, NEW ttl \in B!TtlMs(v)
  PROVE  ttl \in Nat \ {0} /\ ttl * Rate >= Burst
<1>0. PICK e \in 0..Rounding : ttl = B!Most(1, B!CeilDiv(v.capacity + e, v.refill))
  BY DEF B!TtlMs
<1> DEFINE n == (v.capacity + e + v.refill - 1) \div v.refill
<1>1. n \in Nat /\ n * v.refill >= v.capacity
  <2>1. v.capacity + e \in Nat /\ v.capacity + e >= v.capacity
    BY VersionTyped
  <2>2. n \in Nat /\ n * v.refill >= v.capacity + e
    BY <2>1, VersionTyped, RoundUpReaches
  <2>3. n * v.refill \in Nat
    BY <2>2, VersionTyped
  <2> HIDE DEF n
  <2> QED BY <2>1, <2>2, <2>3, VersionTyped
<1>2. ttl = IF 1 >= n THEN 1 ELSE n
  BY <1>0 DEF B!CeilDiv, B!Most
<1> HIDE DEF n
<1>3. ttl \in Nat \ {0} /\ n <= ttl
  BY <1>1, <1>2
<1>4. ttl * v.refill >= v.capacity
  <2>1. n * v.refill <= ttl * v.refill
    BY <1>1, <1>3, VersionTyped, ProductMono
  <2>2. ttl * v.refill \in Nat /\ n * v.refill \in Nat
    BY <1>1, <1>3, VersionTyped
  <2> QED BY <1>1, <2>1, <2>2, VersionTyped
<1>5. v.capacity * Rate <= (ttl * v.refill) * Rate
  BY <1>3, <1>4, VersionTyped, ProductMono
<1>6. (ttl * v.refill) * Rate = (ttl * Rate) * v.refill
  BY <1>3, VersionTyped
<1>7. v.capacity * Rate = Rate * v.capacity
  BY VersionTyped
<1>8. Burst * v.refill <= (ttl * Rate) * v.refill
  <2> DEFINE p == Burst * v.refill
             q == Rate * v.capacity
             r == (ttl * Rate) * v.refill
  <2>1. p \in Nat /\ q \in Nat /\ r \in Nat
    BY <1>3, VersionTyped
  <2>2. p <= q /\ q <= r
    BY <1>5, <1>6, <1>7, VersionTyped
  <2> HIDE DEF p, q, r
  <2>3. p <= r
    BY <2>1, <2>2
  <2> QED BY <2>3 DEF p, r
<1>9. ttl * Rate \in Nat
  BY <1>3
<1>10. Burst <= ttl * Rate
  BY <1>8, <1>9, VersionTyped, Cancel
<1> QED BY <1>3, <1>9, <1>10

-----------------------------------------------------------------------------
Stored == [tokens: 0..(Burst + Rounding), lastRefillMs: 0..MaxTime, expireAt: Int]

\* What the widest bucket could grant at t.
Could(t) == B!Refilled(tb, Widest, t)

LEMMA LevelBounds ==
  ASSUME NEW k \in Stored, NEW t \in Nat, NEW capacity \in Nat, NEW refill \in Nat
  PROVE  B!Refilled(k, [capacity |-> capacity, refill |-> refill], t) \in 0..capacity
<1>1. B!ElapsedMs(k, t) \in Nat
  BY DEF B!ElapsedMs, B!Most, Stored
<1>2. B!ElapsedMs(k, t) * refill \in Nat
  BY <1>1
<1> QED BY <1>2 DEF B!Refilled, B!Least, Stored

LEMMA CouldInRange ==
  ASSUME tb \in Stored, NEW t \in Nat
  PROVE  Could(t) \in 0..Burst
BY LevelBounds DEF Could, Widest

\* A version has no more than the widest bucket would have.
LEMMA VersionHasLess ==
  ASSUME tb \in Stored, NEW t \in Nat, NEW v \in Buckets
  PROVE  B!Refilled(tb, v, t) \in 0..v.capacity /\ B!Refilled(tb, v, t) <= Could(t)
<1>1. B!ElapsedMs(tb, t) \in Nat
  BY DEF B!ElapsedMs, B!Most, Stored
<1> DEFINE e == B!ElapsedMs(tb, t)
           small == e * v.refill
           large == e * Rate
<1>2. small \in Nat /\ large \in Nat
  BY <1>1, VersionTyped
<1>3. small <= large
  <2>1. v.refill * e <= Rate * e
    BY <1>1, VersionTyped, ProductMono
  <2> QED BY <1>1, <2>1, VersionTyped
<1>4. B!Refilled(tb, v, t)
        = IF B!Alive(tb, t) THEN B!Least(v.capacity, tb.tokens + small) ELSE v.capacity
  BY DEF B!Refilled
<1>5. Could(t) = IF B!Alive(tb, t) THEN B!Least(Burst, tb.tokens + large) ELSE Burst
  BY DEF Could, B!Refilled, Widest
<1>6. tb.tokens \in Nat
  BY DEF Stored
<1> HIDE DEF small, large
<1> QED BY <1>2, <1>3, <1>4, <1>5, <1>6, VersionTyped DEF B!Least

\* A millisecond adds at most Rate, also over the expiry of the key.
LEMMA TickAddsRate ==
  ASSUME tb \in Stored, KeyLives, now \in Nat
  PROVE  Could(now + 1) <= Could(now) + Rate
<1> DEFINE last == tb.lastRefillMs
           t == now + 1
<1>1. /\ Could(now) \in 0..Burst /\ Could(t) \in 0..Burst
      /\ last \in Nat /\ tb.expireAt \in Int /\ tb.tokens \in Nat
  BY CouldInRange DEF Stored
<1>2. CASE ~B!Alive(tb, now)
  BY <1>1, <1>2 DEF Could, B!Refilled, Widest
<1>3. CASE B!Alive(tb, now) /\ now < last
  <2>1. tb # B!NoBucket
    BY <1>3 DEF B!NoBucket
  <2>2. B!Alive(tb, t)
    BY <1>1, <1>3, <2>1 DEF KeyLives, B!Alive
  <2>3. B!ElapsedMs(tb, now) = 0 /\ B!ElapsedMs(tb, t) = 0
    BY <1>1, <1>3 DEF B!ElapsedMs, B!Most
  <2>4. Could(t) = Could(now)
    BY <1>3, <2>2, <2>3 DEF Could, B!Refilled
  <2> QED BY <1>1, <2>4
<1>4. CASE B!Alive(tb, now) /\ last <= now
  <2>1. tb # B!NoBucket
    BY <1>4 DEF B!NoBucket, B!Alive
  <2> DEFINE g == (now - last) * Rate
  <2>2. B!ElapsedMs(tb, now) = now - last /\ B!ElapsedMs(tb, t) = t - last
    BY <1>1, <1>4 DEF B!ElapsedMs, B!Most
  <2>3. g \in Nat /\ (t - last) * Rate = g + Rate
    BY <1>1, <1>4
  <2>4. Could(now) = B!Least(Burst, tb.tokens + g)
    BY <1>4, <2>2 DEF Could, B!Refilled, Widest
  <2>5. CASE B!Alive(tb, t)
    <3>1. Could(t) = B!Least(Burst, tb.tokens + (g + Rate))
      BY <2>2, <2>3, <2>5 DEF Could, B!Refilled, Widest
    <3> HIDE DEF g
    <3> QED BY <1>1, <2>3, <2>4, <3>1 DEF B!Least
  <2>6. CASE ~B!Alive(tb, t)
    <3>1. tb.expireAt = now
      BY <1>1, <1>4, <2>6 DEF B!Alive
    <3>2. g >= Burst
      BY <2>1, <3>1 DEF KeyLives
    <3> HIDE DEF g
    <3>3. Could(now) = Burst
      BY <1>1, <2>3, <2>4, <3>2 DEF B!Least
    <3> QED BY <1>1, <3>3
  <2> QED BY <2>5, <2>6
<1> QED BY <1>1, <1>2, <1>3, <1>4

\* Setting the clock back adds nothing.
LEMMA BackAddsNone ==
  ASSUME tb \in Stored, now \in Nat, NEW t \in Nat, t < now
  PROVE  Could(t) <= Could(now)
<1>1. Could(t) \in 0..Burst /\ Could(now) \in 0..Burst
  BY CouldInRange
<1>2. CASE ~B!Alive(tb, now)
  BY <1>1, <1>2 DEF Could, B!Refilled, Widest
<1>3. CASE B!Alive(tb, now)
  <2>1. B!Alive(tb, t)
    BY <1>3 DEF B!Alive, Stored
  <2> DEFINE early == B!ElapsedMs(tb, t)
             late == B!ElapsedMs(tb, now)
  <2>2. early \in Nat /\ late \in Nat /\ early <= late
    BY DEF B!ElapsedMs, B!Most, Stored
  <2>3. early * Rate <= late * Rate /\ early * Rate \in Nat /\ late * Rate \in Nat
    BY <2>2, ProductMono
  <2>4. /\ Could(t) = B!Least(Burst, tb.tokens + early * Rate)
        /\ Could(now) = B!Least(Burst, tb.tokens + late * Rate)
    BY <1>3, <2>1 DEF Could, B!Refilled, Widest
  <2>5. tb.tokens \in Nat
    BY DEF Stored
  <2> QED BY <2>3, <2>4, <2>5 DEF B!Least
<1> QED BY <1>2, <1>3

-----------------------------------------------------------------------------
\* A rounded result is a natural number within Rounding of the exact one.
LEMMA NearBounds ==
  ASSUME NEW x \in Nat, NEW y \in B!Near(x)
  PROVE  y \in Nat /\ x - Rounding <= y /\ y <= x + Rounding
BY DEF B!Near, B!Errors, B!Most

\* The level a check computes is near the exact one.
LEMMA LevelsNear ==
  ASSUME tb \in Stored, now \in Nat, NEW v \in Buckets, NEW level \in B!Levels(tb, v, now)
  PROVE  /\ level \in 0..v.capacity
         /\ B!Refilled(tb, v, now) - Rounding <= level
         /\ level <= B!Refilled(tb, v, now) + Rounding
<1> DEFINE exact == tb.tokens + B!ElapsedMs(tb, now) * v.refill
<1>1. B!ElapsedMs(tb, now) \in Nat /\ tb.tokens \in Nat
  BY DEF B!ElapsedMs, B!Most, Stored
<1>2. exact \in Nat
  BY <1>1, VersionTyped
<1>3. CASE B!Alive(tb, now)
  <2>1. PICK y \in B!Near(exact) : level = B!Least(v.capacity, y)
    BY <1>3 DEF B!Levels
  <2>2. B!Refilled(tb, v, now) = B!Least(v.capacity, exact)
    BY <1>3 DEF B!Refilled
  <2> HIDE DEF exact
  <2>3. y \in Nat /\ exact - Rounding <= y /\ y <= exact + Rounding
    BY <1>2, NearBounds
  <2> QED BY <1>2, <2>1, <2>2, <2>3, VersionTyped DEF B!Least
<1>4. CASE ~B!Alive(tb, now)
  BY <1>4, VersionTyped DEF B!Levels, B!Refilled
<1> QED BY <1>3, <1>4

LEMMA CostInUnits ==
  ASSUME NEW cost \in Costs
  PROVE  cost \in Nat \ {0} /\ cost * Unit \in Nat
<1>1. cost \in Nat \ {0} /\ Unit \in Nat
  OBVIOUS
<1> QED BY <1>1

\* One check under version v: it stores, but for the rounding, its level less
\* what it grants.
LEMMA CheckEffect ==
  ASSUME BucketInv, NEW v \in Buckets, NEW cost \in Costs, CheckBucket(v, cost)
  PROVE  /\ \E level \in 0..v.capacity, taken \in Nat :
              /\ B!Refilled(tb, v, now) - Rounding <= level
              /\ level <= B!Refilled(tb, v, now) + Rounding
              /\ level - taken * Unit \in 0..v.capacity
              /\ level - taken * Unit - Rounding <= tb'.tokens
              /\ tb'.tokens <= level - taken * Unit + Rounding
              /\ granted' = granted + taken
         /\ tb' \in Stored
         /\ tb'.lastRefillMs = now /\ tb'.expireAt - now \in B!TtlMs(v)
         /\ runs' = runs + 1
         /\ now' = now /\ elapsed' = elapsed /\ since' = since
<1>1. PICK run \in B!RunBucket(tb, v, cost, now) :
        /\ tb' = run.key
        /\ granted' = IF run.reply.allowed THEN granted + cost ELSE granted
  BY DEF CheckBucket, BucketRuns
<1>2. PICK level \in B!Levels(tb, v, now) :
        run \in [key: B!KeysAfter(v, B!Left(level, cost), now),
                 reply: B!Replies(level, v, cost, now)]
  BY DEF B!RunBucket
<1>3. /\ now \in 0..MaxTime /\ tb \in Stored /\ granted \in Nat
      /\ cost \in Nat \ {0} /\ cost * Unit \in Nat
  <2>1. cost \in Nat \ {0} /\ cost * Unit \in Nat
    BY CostInUnits
  <2>2. now \in 0..MaxTime /\ tb \in Stored /\ granted \in Nat
    BY DEF BucketInv, BucketTypeOK, Stored
  <2> QED BY <2>1, <2>2
<1>4. /\ level \in 0..v.capacity
      /\ B!Refilled(tb, v, now) - Rounding <= level
      /\ level <= B!Refilled(tb, v, now) + Rounding
  BY <1>3, LevelsNear
<1>5. run.reply.allowed = (level >= cost * Unit)
  BY <1>2 DEF B!Replies
<1> DEFINE left == B!Left(level, cost)
           taken == IF level >= cost * Unit THEN cost ELSE 0
<1>6. taken \in Nat /\ left = level - taken * Unit /\ granted' = granted + taken
  <2>1. CASE level >= cost * Unit
    BY <1>1, <1>3, <1>5, <2>1 DEF B!Left
  <2>2. CASE ~(level >= cost * Unit)
    <3>1. taken = 0 /\ left = level /\ granted' = granted
      BY <1>1, <1>5, <2>2 DEF B!Left
    <3> HIDE DEF taken, left
    <3>2. taken * Unit = 0
      BY <3>1
    <3> QED BY <1>3, <1>4, <3>1, <3>2, VersionTyped
  <2> QED BY <2>1, <2>2
<1>7. left \in 0..v.capacity
  BY <1>3, <1>4, VersionTyped DEF B!Left
<1> HIDE DEF left, taken
<1>8. PICK ttl \in B!TtlMs(v), x \in B!Near(left) :
        tb' = [tokens |-> x, lastRefillMs |-> now, expireAt |-> now + ttl]
  BY <1>1, <1>2 DEF B!KeysAfter, B!Tostring, left
<1>9. x \in Nat /\ left - Rounding <= x /\ x <= left + Rounding /\ ttl \in Nat
  BY <1>7, NearBounds, TtlFillsWidest
<1>10. x \in 0..(Burst + Rounding)
  BY <1>7, <1>9, VersionTyped
<1>11. tb' \in Stored /\ tb'.tokens = x /\ tb'.lastRefillMs = now /\ tb'.expireAt - now = ttl
  BY <1>3, <1>8, <1>9, <1>10 DEF Stored
<1>12. /\ runs' = runs + 1 /\ now' = now /\ elapsed' = elapsed /\ since' = since
  BY DEF CheckBucket
<1>13. /\ level - taken * Unit \in 0..v.capacity
       /\ level - taken * Unit - Rounding <= tb'.tokens
       /\ tb'.tokens <= level - taken * Unit + Rounding
  BY <1>6, <1>7, <1>9, <1>11
<1> QED BY <1>4, <1>6, <1>8, <1>11, <1>12, <1>13

-----------------------------------------------------------------------------
LEMMA InitBucket == Init => BucketInv
<1> SUFFICES ASSUME Init PROVE BucketInv
  OBVIOUS
<1>1. BucketTypeOK
  BY DEF Init, BucketTypeOK, B!NoBucket
<1>2. KeyLives
  BY DEF Init, KeyLives
<1>3. B!Refilled(tb, Widest, now) = Burst
  BY DEF Init, B!Refilled, B!Alive, B!NoBucket, Widest
<1>4. Budget
  BY <1>3 DEF Init, Budget, Rounded
<1> QED BY <1>1, <1>2, <1>4 DEF BucketInv

\* A step that leaves the observer alone and does not raise what the widest bucket
\* could grant keeps the budget.
LEMMA BudgetKept ==
  ASSUME BucketInv, tb' \in Stored, now' \in Nat, Could(now)' <= Could(now),
         UNCHANGED observer
  PROVE  Budget'
<1>1. Could(now) \in 0..Burst /\ Could(now)' \in 0..Burst
  <2>1. Could(now) \in 0..Burst
    BY CouldInRange DEF BucketInv, BucketTypeOK, Stored
  <2>2. Could(now)' = B!Refilled(tb', Widest, now')
    BY DEF Could, Widest
  <2>3. B!Refilled(tb', Widest, now') \in 0..Burst
    BY LevelBounds DEF Widest
  <2> QED BY <2>1, <2>2, <2>3
<1>2. granted * Unit + Could(now) <= Burst + Rate * (elapsed - since) + Rounded
  BY DEF BucketInv, Budget, Could
<1>3. granted * Unit \in Int /\ Rate * (elapsed - since) \in Int /\ Rounded \in Int
  BY DEF BucketInv, BucketTypeOK, Rounded
<1>4. granted * Unit + Could(now)' <= Burst + Rate * (elapsed - since) + Rounded
  BY <1>1, <1>2, <1>3
<1> QED BY <1>4 DEF Budget, Could, Widest, Rounded, observer

LEMMA CheckKeepsBucket ==
  ASSUME BucketInv, NEW v \in Buckets, NEW cost \in Costs, CheckBucket(v, cost)
  PROVE  BucketInv'
<1>1. /\ now \in 0..MaxTime /\ elapsed \in 0..MaxTime /\ now <= elapsed
      /\ since \in 0..elapsed /\ granted \in Nat /\ runs \in Nat /\ tb \in Stored
  BY DEF BucketInv, BucketTypeOK, Stored
<1>2. PICK level \in 0..v.capacity, taken \in Nat :
        /\ level <= B!Refilled(tb, v, now) + Rounding
        /\ level - taken * Unit \in 0..v.capacity
        /\ tb'.tokens <= level - taken * Unit + Rounding
        /\ granted' = granted + taken
  BY CheckEffect
<1>3. /\ tb' \in Stored
      /\ tb'.lastRefillMs = now /\ tb'.expireAt - now \in B!TtlMs(v)
      /\ runs' = runs + 1 /\ now' = now /\ elapsed' = elapsed /\ since' = since
  BY CheckEffect
<1>4. /\ v.capacity \in Nat /\ v.capacity <= Burst
      /\ tb'.expireAt - now \in Nat /\ (tb'.expireAt - now) * Rate >= Burst
  BY <1>3, VersionTyped, TtlFillsWidest
<1>5. tb'.expireAt \in Int /\ tb'.tokens \in Nat
  BY <1>3 DEF Stored
<1>6. BucketTypeOK'
  BY <1>1, <1>2, <1>3 DEF BucketTypeOK, Stored
<1>7. KeyLives'
  BY <1>1, <1>3, <1>4, <1>5 DEF KeyLives
<1>8. Budget'
  <2> DEFINE paid == taken * Unit
  <2>1. B!Refilled(tb', Widest, now') = B!Least(Burst, tb'.tokens)
    <3>1. B!ElapsedMs(tb', now') = 0 /\ B!Alive(tb', now')
      BY <1>1, <1>3, <1>4, <1>5 DEF B!ElapsedMs, B!Most, B!Alive
    <3> QED BY <1>5, <3>1 DEF B!Refilled, Widest
  <2>2. /\ B!Refilled(tb', Widest, now') \in Int
        /\ B!Refilled(tb', Widest, now') <= level - paid + Rounding
    BY <1>2, <1>5, <2>1 DEF B!Least
  <2>3. level <= Could(now) + Rounding /\ Could(now) \in 0..Burst
    <3>1. B!Refilled(tb, v, now) \in 0..v.capacity /\ B!Refilled(tb, v, now) <= Could(now)
      BY <1>1, VersionHasLess
    <3>2. Could(now) \in 0..Burst
      BY <1>1, CouldInRange
    <3> QED BY <1>2, <1>4, <3>1, <3>2
  <2>4. granted * Unit + Could(now) <= Burst + Rate * (elapsed - since) + 2 * Rounding * runs
    BY DEF BucketInv, Budget, Could, Rounded
  <2>5. /\ (granted + taken) * Unit = granted * Unit + paid
        /\ 2 * Rounding * (runs + 1) = 2 * Rounding * runs + 2 * Rounding
    BY <1>1
  <2>6. /\ granted * Unit \in Int /\ paid \in Int
        /\ Rate * (elapsed - since) \in Int /\ 2 * Rounding * runs \in Int
    BY <1>1
  <2> HIDE DEF paid
  <2>7. (granted + taken) * Unit + B!Refilled(tb', Widest, now')
          <= Burst + Rate * (elapsed - since) + 2 * Rounding * (runs + 1)
    BY <1>4, <2>2, <2>3, <2>4, <2>5, <2>6
  <2> QED BY <1>2, <1>3, <2>7 DEF Budget, Rounded, Widest
<1> QED BY <1>6, <1>7, <1>8 DEF BucketInv

LEMMA TickKeepsBucket ==
  ASSUME BucketInv, Tick
  PROVE  BucketInv'
<1>1. /\ now' = now + 1 /\ tb' = tb
      /\ elapsed \in Nat /\ elapsed' = elapsed + 1 /\ elapsed + 1 \in 0..MaxTime
      /\ now \in Nat /\ now <= elapsed /\ since \in 0..elapsed
      /\ granted \in Nat /\ runs \in Nat
      /\ \/ UNCHANGED <<since, granted, runs>>
         \/ since' = elapsed + 1 /\ granted' = 0 /\ runs' = 0
  BY DEF Tick, BucketInv, BucketTypeOK
<1>2. tb \in Stored
  BY DEF BucketInv, BucketTypeOK, Stored
<1>3. BucketTypeOK'
  BY <1>1, <1>2 DEF BucketTypeOK, Stored
<1>4. KeyLives'
  BY <1>1 DEF BucketInv, KeyLives
<1>5. Budget'
  <2>1. /\ Could(now) \in 0..Burst /\ Could(now + 1) \in 0..Burst
        /\ Could(now + 1) <= Could(now) + Rate
    BY <1>1, <1>2, CouldInRange, TickAddsRate DEF BucketInv
  <2>2. B!Refilled(tb', Widest, now') = Could(now + 1)
    BY <1>1 DEF Could
  <2>3. CASE since' = elapsed + 1 /\ granted' = 0 /\ runs' = 0
    <3>1. /\ granted' * Unit = 0 /\ Rate * (elapsed' - since') = 0
          /\ 2 * Rounding * runs' = 0
      BY <1>1, <2>3
    <3> QED BY <2>1, <2>2, <3>1 DEF Budget, Rounded, Widest
  <2>4. CASE UNCHANGED <<since, granted, runs>>
    <3>1. granted * Unit + Could(now) <= Burst + Rate * (elapsed - since) + 2 * Rounding * runs
      BY DEF BucketInv, Budget, Could, Rounded
    <3>2. Rate * (elapsed + 1 - since) = Rate * (elapsed - since) + Rate
      BY <1>1
    <3>3. /\ granted * Unit \in Int /\ Rate * (elapsed - since) \in Int
          /\ 2 * Rounding * runs \in Int
      BY <1>1
    <3>4. granted * Unit + Could(now + 1)
            <= Burst + Rate * (elapsed + 1 - since) + 2 * Rounding * runs
      BY <2>1, <3>1, <3>2, <3>3
    <3> QED BY <1>1, <2>2, <2>4, <3>4 DEF Budget, Rounded, Widest
  <2> QED BY <1>1, <2>3, <2>4
<1> QED BY <1>3, <1>4, <1>5 DEF BucketInv

LEMMA BackKeepsBucket ==
  ASSUME BucketInv, ClockStepsBack
  PROVE  BucketInv'
<1>1. /\ now \in 0..MaxTime /\ now <= elapsed /\ elapsed \in 0..MaxTime
      /\ now' \in 0..(now - 1) /\ tb' = tb
      /\ UNCHANGED observer
  BY DEF ClockStepsBack, BucketInv, BucketTypeOK
<1>2. tb \in Stored /\ tb' \in Stored /\ now' \in Nat /\ now' < now
  BY <1>1 DEF BucketInv, BucketTypeOK, Stored
<1>3. Could(now)' <= Could(now)
  <2>1. Could(now)' = Could(now')
    BY <1>1 DEF Could, Widest
  <2>2. Could(now') <= Could(now)
    BY <1>1, <1>2, BackAddsNone
  <2> QED BY <2>1, <2>2
<1>4. Budget'
  BY <1>1, <1>2, <1>3, BudgetKept
<1> QED BY <1>1, <1>4 DEF BucketInv, BucketTypeOK, KeyLives, observer

LEMMA ExpireKeepsBucket ==
  ASSUME BucketInv, Expire
  PROVE  BucketInv'
<1>1. /\ now' = now /\ UNCHANGED observer
      /\ tb' = tb \/ (tb' = B!NoBucket /\ ~B!Alive(tb, now))
  BY DEF Expire
<1>2. tb \in Stored /\ B!NoBucket \in Stored /\ now \in Nat
  BY DEF BucketInv, BucketTypeOK, Stored, B!NoBucket
<1>3. Could(now)' = Could(now)
  <2>1. CASE tb' = tb
    BY <1>1, <2>1 DEF Could, Widest
  <2>2. CASE tb' = B!NoBucket /\ ~B!Alive(tb, now)
    <3>1. ~B!Alive(B!NoBucket, now)
      BY <1>2 DEF B!Alive, B!NoBucket
    <3> QED BY <1>1, <2>2, <3>1 DEF Could, Widest, B!Refilled
  <2> QED BY <1>1, <2>1, <2>2
<1>4. Could(now)' <= Could(now)
  <2>1. Could(now) \in 0..Burst
    BY <1>2, CouldInRange
  <2> QED BY <1>3, <2>1
<1>5. Budget'
  BY <1>1, <1>2, <1>4, BudgetKept
<1>6. BucketTypeOK'
  BY <1>1, <1>2 DEF BucketInv, BucketTypeOK, Stored, observer
<1>7. KeyLives'
  BY <1>1 DEF BucketInv, KeyLives
<1> QED BY <1>5, <1>6, <1>7 DEF BucketInv

LEMMA NextKeepsBucket == BucketInv /\ [Next]_vars => BucketInv'
<1> SUFFICES ASSUME BucketInv, [Next]_vars PROVE BucketInv'
  OBVIOUS
<1>1. ASSUME NEW v \in Buckets, NEW cost \in Costs, CheckBucket(v, cost) PROVE BucketInv'
  BY <1>1, CheckKeepsBucket
<1>2. ASSUME UNCHANGED <<now, tb, observer>> PROVE BucketInv'
  BY <1>2 DEF BucketInv, BucketTypeOK, KeyLives, Budget, Rounded, Widest, observer,
              B!Refilled, B!Alive, B!ElapsedMs
<1>3. ASSUME NEW v \in Windows, NEW cost \in Costs, CheckWindow(v, cost) PROVE BucketInv'
  BY <1>2, <1>3 DEF CheckWindow
<1>4. CASE Tick
  BY <1>4, TickKeepsBucket
<1>5. CASE ClockStepsBack
  BY <1>5, BackKeepsBucket
<1>6. CASE Expire
  BY <1>6, ExpireKeepsBucket
<1>7. CASE UNCHANGED vars
  BY <1>2, <1>7 DEF vars
<1> QED BY <1>1, <1>3, <1>4, <1>5, <1>6, <1>7 DEF Next

LEMMA BudgetBounds == BucketInv => BucketBound
<1> SUFFICES ASSUME BucketInv PROVE BucketBound
  OBVIOUS
<1>1. Could(now) \in 0..Burst
  <2>1. tb \in Stored /\ now \in Nat
    BY DEF BucketInv, BucketTypeOK, Stored
  <2> QED BY <2>1, CouldInRange
<1>2. granted * Unit + Could(now) <= Burst + Rate * (elapsed - since) + Rounded
  BY DEF BucketInv, Budget, Could
<1>3. granted * Unit \in Int /\ Rate * (elapsed - since) \in Int /\ Rounded \in Int
  BY DEF BucketInv, BucketTypeOK, Rounded
<1> QED BY <1>1, <1>2, <1>3 DEF BucketBound

-----------------------------------------------------------------------------
\* Whatever versions of a rule the instances hold, and in whatever order their
\* checks reach Redis, the token-bucket key grants over any interval of true time
\* no more than the widest bucket, Burst and Rate for the interval, and what the
\* rounding of the checks adds.
THEOREM EditsAdmission == Spec => []BucketBound
<1> QED BY InitBucket, NextKeepsBucket, BudgetBounds, PTL DEF Spec

LEMMA CheckTakesWhatItGrants ==
  ASSUME BucketInv, NEW v \in Buckets, NEW cost \in Costs,
         B!Alive(tb, now), CheckBucket(v, cost)
  PROVE  tb'.tokens + (granted' - granted) * Unit + 2 * Rounding
           >= B!Least(v.capacity, tb.tokens)
<1>1. PICK level \in 0..v.capacity, taken \in Nat :
        /\ B!Refilled(tb, v, now) - Rounding <= level
        /\ level - taken * Unit - Rounding <= tb'.tokens
        /\ granted' = granted + taken
  BY CheckEffect
<1>2. /\ tb.tokens \in Nat /\ granted \in Nat /\ v.capacity \in Nat /\ now \in Nat
      /\ tb.lastRefillMs \in Nat
  BY VersionTyped DEF BucketInv, BucketTypeOK
<1>3. tb'.tokens \in Nat
  <2>1. tb' \in Stored
    BY CheckEffect
  <2> QED BY <2>1 DEF Stored
<1>4. /\ B!Refilled(tb, v, now) \in Nat
      /\ B!Refilled(tb, v, now) >= B!Least(v.capacity, tb.tokens)
  <2> DEFINE gained == B!ElapsedMs(tb, now) * v.refill
  <2>1. gained \in Nat
    <3>1. B!ElapsedMs(tb, now) \in Nat
      BY <1>2 DEF B!ElapsedMs, B!Most
    <3> QED BY <3>1, VersionTyped
  <2>2. B!Refilled(tb, v, now) = B!Least(v.capacity, tb.tokens + gained)
    BY DEF B!Refilled
  <2> HIDE DEF gained
  <2> QED BY <1>2, <2>1, <2>2 DEF B!Least
<1>5. granted' - granted = taken /\ taken * Unit \in Nat
  BY <1>1, <1>2
<1>6. B!Least(v.capacity, tb.tokens) \in Nat
  BY <1>2 DEF B!Least
<1> QED BY <1>1, <1>3, <1>4, <1>5, <1>6

\* No check takes tokens it does not grant, but those for which its version of the
\* rule has no room and those its rounding loses, wherever the clock is set.
THEOREM EditsOvercharge == Spec => NoTokensLost
<1> DEFINE Lost(v) == tb'.tokens + (granted' - granted) * Unit + 2 * Rounding
                        < B!Least(v.capacity, tb.tokens)
<1>1. BucketInv => [B!Alive(tb, now) =>
                      \A v \in Buckets, cost \in Costs : Lost(v) => ~CheckBucket(v, cost)]_vars
  <2> SUFFICES ASSUME BucketInv, B!Alive(tb, now), NEW v \in Buckets, NEW cost \in Costs,
                      Lost(v), CheckBucket(v, cost)
               PROVE  FALSE
    OBVIOUS
  <2>1. tb'.tokens + (granted' - granted) * Unit + 2 * Rounding
          >= B!Least(v.capacity, tb.tokens)
    BY CheckTakesWhatItGrants
  <2>2. tb'.tokens \in Nat /\ tb.tokens \in Nat /\ granted \in Nat /\ v.capacity \in Nat
    BY CheckEffect, VersionTyped DEF Stored, BucketInv, BucketTypeOK
  <2>3. PICK taken \in Nat : granted' = granted + taken
    BY CheckEffect
  <2>4. (granted' - granted) * Unit \in Int
    BY <2>2, <2>3
  <2>5. B!Least(v.capacity, tb.tokens) \in Int
    BY <2>2 DEF B!Least
  <2> QED BY <2>1, <2>2, <2>4, <2>5
<1> QED BY <1>1, InitBucket, NextKeepsBucket, PTL DEF Spec, NoTokensLost

-----------------------------------------------------------------------------
(***************************************************************************)
(* The sliding-window key.  Every version keeps what the narrowest window  *)
(* keeps, and admits no more than the highest limit.                       *)
(***************************************************************************)
WindowInv ==
  /\ WindowTypeOK /\ Covered /\ WindowBound
  /\ IsFiniteSet(admitted) /\ IsFiniteSet(sw.log)

\* What the sliding-window history needs of the clocks.
Clocks == now \in 0..MaxTime /\ elapsed \in 0..MaxTime /\ now <= elapsed

Entry(u) == [score |-> u.score, seq |-> u.seq, i |-> u.i]

Units == [at: 0..MaxTime, score: 0..MaxTime, seq: Nat, i: 1..TopLimit]

\* Cardinality as SlidingWindowScript sees it.
LEMMA SameCardinality == \A S : W!Cardinality(S) = Cardinality(S)
BY DEF W!Cardinality, Cardinality

LEMMA WindowTyped ==
  ASSUME NEW v \in Windows
  PROVE  /\ v.limit \in Nat \ {0} /\ v.windowMs \in Nat \ {0}
         /\ Span <= v.windowMs /\ v.limit <= TopLimit
OBVIOUS

LEMMA UnitsTyped ==
  ASSUME WindowInv, Clocks
  PROVE  /\ \A u \in admitted : u \in Units /\ u.at <= elapsed /\ u.seq < calls
         /\ calls \in 0..MaxCalls
BY DEF WindowInv, WindowTypeOK, Clocks, Units

\* A check adds as many members as its cost, or as many as had the name already.
LEMMA LogCount ==
  ASSUME NEW kept, IsFiniteSet(kept), NEW t, NEW c, NEW cost \in Nat
  PROVE  /\ IsFiniteSet(kept \cup W!Members(t, c, cost))
         /\ Cardinality(kept \cup W!Members(t, c, cost)) <= Cardinality(kept) + cost
<1> DEFINE M == W!Members(t, c, cost)
           name == [j \in 1..cost |-> [score |-> t, seq |-> c, i |-> j]]
<1>1. name \in Surjection(1..cost, M)
  <2>1. name \in [1..cost -> M]
    BY DEF W!Members
  <2>2. \A m \in M : m.i \in 1..cost /\ m = [score |-> t, seq |-> c, i |-> m.i]
    BY DEF W!Members
  <2>3. \A m \in M : name[m.i] = m
    BY <2>2
  <2> QED BY <2>1, <2>2, <2>3 DEF Surjection
<1>2. IsFiniteSet(1..cost) /\ Cardinality(1..cost) = cost
  <2> HIDE VersionsAssumption, WidestAssumption
  <2>1. IsFiniteSet(1..cost) /\ Cardinality(1..cost) = IF 1 > cost THEN 0 ELSE cost - 1 + 1
    BY FS_Interval
  <2> QED BY <2>1
<1>3. IsFiniteSet(M) /\ Cardinality(M) <= cost
  BY <1>1, <1>2, FS_Surjection
<1> HIDE DEF M
<1>4. /\ IsFiniteSet(kept \cup M)
      /\ Cardinality(kept \cup M) = Cardinality(kept) + Cardinality(M) - Cardinality(kept \cap M)
  BY <1>3, FS_Union
<1>5. IsFiniteSet(kept \cap M)
  BY FS_Intersection
<1>6. /\ Cardinality(kept \cap M) \in Nat /\ Cardinality(kept) \in Nat
      /\ Cardinality(M) \in Nat
  BY <1>3, <1>5, FS_CardinalityType
<1>7. Cardinality(kept \cup M) <= Cardinality(kept) + cost
  BY <1>3, <1>4, <1>6
<1> QED BY <1>4, <1>7 DEF M

\* Whatever its version, a check counts every unit of the last Span milliseconds.
LEMMA UnitsAreKept ==
  ASSUME WindowInv, Clocks, NEW v \in Windows, NEW u \in InSpan(elapsed)
  PROVE  Entry(u) \in W!Kept(sw, v, now)
<1>1. /\ u \in admitted /\ u.at \in Int /\ u.score \in Int
      /\ elapsed - Span < u.at /\ u.at <= elapsed
  BY UnitsTyped DEF InSpan, Units
<1>2. /\ Entry(u) \in sw.log
      /\ now - u.score <= elapsed - u.at
      /\ now - sw.expireAt <= elapsed - u.at - Span
  BY DEF WindowInv, Covered, Entry
<1>3. /\ now \in Int /\ elapsed \in Int /\ sw.expireAt \in Int
      /\ v.windowMs \in Int /\ Span <= v.windowMs
  BY WindowTyped DEF WindowInv, WindowTypeOK, Clocks
<1>4. W!Alive(sw, now)
  BY <1>1, <1>2, <1>3 DEF W!Alive
<1>5. u.score > now - v.windowMs
  BY <1>1, <1>2, <1>3
<1>6. Entry(u).score = u.score
  BY DEF Entry
<1> QED BY <1>2, <1>4, <1>5, <1>6 DEF W!Kept

LEMMA FiniteSpan ==
  ASSUME WindowInv, NEW t
  PROVE  IsFiniteSet(InSpan(t)) /\ Cardinality(InSpan(t)) \in Nat
<1>1. InSpan(t) \subseteq admitted
  BY DEF InSpan
<1>2. IsFiniteSet(InSpan(t))
  BY <1>1, FS_Subset DEF WindowInv
<1> QED BY <1>2, FS_CardinalityType

LEMMA InitWindow == Init => WindowInv
<1> SUFFICES ASSUME Init PROVE WindowInv
  OBVIOUS
<1>1. admitted = {} /\ sw.log = {} /\ sw.expireAt = -1 /\ calls = 0
  BY DEF Init, W!NoWindow
<1>2. \A t : InSpan(t) = {}
  BY <1>1 DEF InSpan
<1>3. WindowTypeOK
  BY <1>1 DEF WindowTypeOK
<1>4. Covered /\ WindowBound
  <2>1. Cardinality({}) = 0 /\ 0 <= TopLimit
    BY FS_EmptySet
  <2>2. Covered
    BY <1>2 DEF Covered
  <2>3. WindowBound
    BY <1>2, <2>1 DEF WindowBound
  <2> QED BY <2>2, <2>3
<1> QED BY <1>1, <1>3, <1>4, FS_EmptySet DEF WindowInv

\* Time passes: units leave the span, the clock ages no faster than they do.
LEMMA TickKeepsWindow ==
  ASSUME WindowInv, Clocks, Tick
  PROVE  WindowInv'
<1>1. /\ now \in Nat /\ elapsed \in Nat /\ now' = now + 1 /\ elapsed' = elapsed + 1
      /\ sw' = sw /\ calls' = calls /\ admitted' = admitted
  BY DEF Tick, Clocks
<1>2. \A u \in admitted : u.at \in Int /\ u.score \in Int /\ u.at <= elapsed
  BY UnitsTyped DEF Units
<1>3. InSpan(elapsed)' \subseteq InSpan(elapsed)
  BY <1>1, <1>2 DEF InSpan
<1>4. WindowTypeOK'
  <2>1. 0..elapsed \subseteq 0..(elapsed + 1)
    BY <1>1
  <2> QED BY <1>1, <2>1 DEF WindowInv, WindowTypeOK
<1>5. Covered'
  <2> SUFFICES ASSUME NEW u \in InSpan(elapsed)'
               PROVE  /\ [score |-> u.score, seq |-> u.seq, i |-> u.i] \in sw.log
                      /\ now' - u.score <= elapsed' - u.at
                      /\ now' - sw.expireAt <= elapsed' - u.at - Span
    BY <1>1 DEF Covered
  <2>1. /\ [score |-> u.score, seq |-> u.seq, i |-> u.i] \in sw.log
        /\ now - u.score <= elapsed - u.at
        /\ now - sw.expireAt <= elapsed - u.at - Span
    BY <1>3 DEF WindowInv, Covered
  <2>2. u.at \in Int /\ u.score \in Int /\ sw.expireAt \in Int
    BY <1>2, <1>3 DEF InSpan, WindowInv, WindowTypeOK
  <2> QED BY <1>1, <2>1, <2>2
<1>6. WindowBound'
  <2> SUFFICES ASSUME NEW t \in 0..(elapsed + 1) PROVE Cardinality(InSpan(t)') <= TopLimit
    BY <1>1 DEF WindowBound
  <2>1. CASE t \in 0..elapsed
    BY <1>1, <2>1 DEF WindowInv, WindowBound, InSpan
  <2>2. CASE t = elapsed + 1
    <3>1. InSpan(t)' \subseteq InSpan(elapsed)
      BY <1>1, <1>3, <2>2 DEF InSpan
    <3>2. IsFiniteSet(InSpan(elapsed)) /\ Cardinality(InSpan(elapsed)) \in Nat
      BY FiniteSpan
    <3>3. Cardinality(InSpan(elapsed)) <= TopLimit
      BY <1>1 DEF WindowInv, WindowBound
    <3> HIDE DEF InSpan
    <3>4. IsFiniteSet(InSpan(t)') /\ Cardinality(InSpan(t)') <= Cardinality(InSpan(elapsed))
      BY <3>1, <3>2, FS_Subset
    <3>5. Cardinality(InSpan(t)') \in Nat
      BY <3>4, FS_CardinalityType
    <3> QED BY <3>2, <3>3, <3>4, <3>5
  <2> QED BY <1>1, <2>1, <2>2
<1> QED BY <1>1, <1>4, <1>5, <1>6 DEF WindowInv

\* The clock is set back, or Redis drops a key that is dead: no unit of the span is
\* older than the key.
LEMMA BackOrExpireKeepsWindow ==
  ASSUME WindowInv, Clocks, ClockStepsBack \/ Expire
  PROVE  WindowInv'
<1>1. /\ now' \in Nat /\ now' <= now /\ now \in Nat /\ elapsed \in Nat
      /\ elapsed' = elapsed /\ calls' = calls /\ admitted' = admitted
  BY DEF ClockStepsBack, Expire, Clocks, observer
<1>2. \/ sw' = sw
      \/ sw' = W!NoWindow /\ ~W!Alive(sw, now) /\ now' = now
  BY DEF ClockStepsBack, Expire
<1>3. InSpan(elapsed)' = InSpan(elapsed) /\ \A t : InSpan(t)' = InSpan(t)
  BY <1>1 DEF InSpan
<1>4. \A u \in InSpan(elapsed) : /\ u.at \in Int /\ u.score \in Int
                                /\ elapsed - Span < u.at /\ u.at <= elapsed
  BY UnitsTyped DEF InSpan, Units
<1>5. sw.expireAt \in Int
  BY DEF WindowInv, WindowTypeOK
<1>6. sw' = W!NoWindow /\ ~W!Alive(sw, now) => InSpan(elapsed) = {}
  <2> SUFFICES ASSUME ~W!Alive(sw, now), NEW u \in InSpan(elapsed) PROVE FALSE
    OBVIOUS
  <2>1. now - sw.expireAt <= elapsed - u.at - Span
    BY DEF WindowInv, Covered
  <2> QED BY <1>1, <1>4, <1>5, <2>1 DEF W!Alive
<1>7. WindowTypeOK'
  BY <1>1, <1>2 DEF WindowInv, WindowTypeOK, W!NoWindow
<1>8. Covered'
  <2> SUFFICES ASSUME NEW u \in InSpan(elapsed)
               PROVE  /\ [score |-> u.score, seq |-> u.seq, i |-> u.i] \in sw'.log
                      /\ now' - u.score <= elapsed - u.at
                      /\ now' - sw'.expireAt <= elapsed - u.at - Span
    BY <1>1, <1>3 DEF Covered
  <2>1. sw' = sw
    BY <1>2, <1>6
  <2>2. /\ [score |-> u.score, seq |-> u.seq, i |-> u.i] \in sw.log
        /\ now - u.score <= elapsed - u.at
        /\ now - sw.expireAt <= elapsed - u.at - Span
    BY DEF WindowInv, Covered
  <2> QED BY <1>1, <1>4, <1>5, <2>1, <2>2
<1>9. WindowBound'
  BY <1>1, <1>3 DEF WindowInv, WindowBound
<1>10. IsFiniteSet(admitted)' /\ IsFiniteSet(sw.log)'
  BY <1>1, <1>2, FS_EmptySet DEF WindowInv, W!NoWindow
<1> QED BY <1>7, <1>8, <1>9, <1>10 DEF WindowInv

NewUnits(cost) == [at: {elapsed}, score: {now}, seq: {calls}, i: 1..cost]

\* A check under one version leaves what all versions rely on.
LEMMA CheckKeepsWindow ==
  ASSUME WindowInv, Clocks, NEW v \in Windows, NEW cost \in Costs, CheckWindow(v, cost)
  PROVE  WindowInv'
<1> DEFINE kept == W!Kept(sw, v, now)
           fits == Cardinality(kept) + cost <= v.limit
           log  == IF fits THEN kept \cup W!Members(now, calls, cost) ELSE kept
<1>1. /\ sw' = W!KeyAfter(log, v, now)
      /\ admitted' = IF fits THEN admitted \cup NewUnits(cost) ELSE admitted
      /\ calls < MaxCalls /\ cost <= v.limit /\ calls' = calls + 1
      /\ now' = now /\ elapsed' = elapsed
  BY SameCardinality DEF CheckWindow, observer, W!RunWindow, W!Log, W!Fits, NewUnits
<1>2. /\ now \in 0..MaxTime /\ elapsed \in 0..MaxTime /\ now <= elapsed
      /\ calls \in 0..MaxCalls /\ cost \in Nat \ {0} /\ cost \in 1..TopLimit
      /\ v.limit \in Nat /\ v.windowMs \in Nat
      /\ Span <= v.windowMs /\ v.limit <= TopLimit
  <2>1. calls \in 0..MaxCalls
    BY DEF WindowInv, WindowTypeOK
  <2>2. /\ v.limit \in Nat /\ v.windowMs \in Nat
        /\ Span <= v.windowMs /\ v.limit <= TopLimit
    BY WindowTyped
  <2>3. cost \in Nat \ {0} /\ TopLimit \in Nat
    OBVIOUS
  <2>4. cost \in 1..TopLimit
    BY <1>1, <2>2, <2>3, UpTo
  <2> QED BY <2>1, <2>2, <2>3, <2>4 DEF Clocks
<1>3. kept \subseteq sw.log /\ IsFiniteSet(kept)
  <2>1. kept \subseteq sw.log
    BY DEF W!Kept
  <2> QED BY <2>1, FS_Subset DEF WindowInv
<1>4. \A e \in log : e.seq \in 0..calls /\ e.score \in 0..MaxTime /\ e.i \in 1..TopLimit
  <2>1. ASSUME NEW e \in kept
        PROVE  e.seq \in 0..calls /\ e.score \in 0..MaxTime /\ e.i \in 1..TopLimit
    BY <1>2, <1>3 DEF WindowInv, WindowTypeOK
  <2>2. ASSUME NEW e \in W!Members(now, calls, cost)
        PROVE  e.seq \in 0..calls /\ e.score \in 0..MaxTime /\ e.i \in 1..TopLimit
    BY <1>2 DEF W!Members
  <2> QED BY <2>1, <2>2
<1>5. \A w \in NewUnits(cost) : /\ w.at = elapsed /\ w.score = now /\ w.seq = calls /\ w.i \in 1..cost
                                /\ w = [at |-> elapsed, score |-> now, seq |-> calls, i |-> w.i]
                                /\ Entry(w) \in W!Members(now, calls, cost)
  BY DEF NewUnits, Entry, W!Members
<1>6. \A u \in admitted' : u \in admitted \/ (fits /\ u \in NewUnits(cost))
  BY <1>1
<1>7. sw'.log = log
  BY <1>1 DEF W!KeyAfter, W!NoWindow
<1>8. log # {} => sw'.expireAt = now + v.windowMs
  BY <1>1 DEF W!KeyAfter
<1>9. sw'.expireAt \in Int
  <2>1. sw'.expireAt = IF log = {} THEN -1 ELSE now + v.windowMs
    BY <1>1 DEF W!KeyAfter, W!NoWindow
  <2> QED BY <1>2, <2>1
<1>10. IsFiniteSet(log)
  BY <1>2, <1>3, LogCount
<1> HIDE DEF log
<1>11. WindowTypeOK'
  <2>1. calls' \in 0..MaxCalls
    BY <1>1, <1>2
  <2>2. \A e \in sw'.log : /\ e.seq \in 0..(calls' - 1) /\ e.score \in 0..MaxTime
                          /\ e.i \in 1..TopLimit
    BY <1>1, <1>2, <1>4, <1>7
  <2>3. ASSUME NEW u \in admitted'
        PROVE  u \in [at: 0..elapsed', score: 0..MaxTime, seq: 0..(calls' - 1), i: 1..TopLimit]
    <3>1. CASE u \in admitted
      <4>1. u \in [at: 0..elapsed, score: 0..MaxTime, seq: 0..(calls - 1), i: 1..TopLimit]
        BY <3>1 DEF WindowInv, WindowTypeOK
      <4>2. 0..(calls - 1) \subseteq 0..(calls' - 1)
        BY <1>1, <1>2
      <4> QED BY <1>1, <4>1, <4>2
    <3>2. CASE u \in NewUnits(cost)
      <4>1. u.i \in 1..TopLimit /\ calls \in 0..(calls' - 1) /\ elapsed \in 0..elapsed'
        BY <1>1, <1>2, <1>5, <3>2
      <4>2. u = [at |-> elapsed, score |-> now, seq |-> calls, i |-> u.i]
        BY <1>5, <3>2
      <4> QED BY <1>2, <4>1, <4>2
    <3> QED BY <1>6, <3>1, <3>2
  <2>4. \A u \in admitted : u.seq \in Nat /\ u.seq < calls
    BY UnitsTyped DEF Units
  <2>5. ASSUME NEW u \in admitted', NEW w \in admitted', u.seq = w.seq, u.i = w.i
        PROVE  u = w
    <3>1. \A x, y \in admitted : x.seq = y.seq /\ x.i = y.i => x = y
      BY DEF WindowInv, WindowTypeOK
    <3> QED BY <1>2, <1>5, <1>6, <2>4, <2>5, <3>1
  <2> QED BY <1>9, <2>1, <2>2, <2>3, <2>5 DEF WindowTypeOK
<1>12. Covered'
  <2> SUFFICES ASSUME NEW u \in InSpan(elapsed)'
               PROVE  /\ Entry(u) \in sw'.log
                      /\ now - u.score <= elapsed - u.at
                      /\ now - sw'.expireAt <= elapsed - u.at - Span
    BY <1>1 DEF Covered, Entry
  <2>1. /\ Entry(u) \in log /\ now - u.score <= elapsed - u.at
        /\ u.at <= elapsed /\ u.at \in Int
    <3>1. CASE u \in admitted
      <4>1. u \in InSpan(elapsed)
        BY <1>1, <3>1 DEF InSpan
      <4>2. Entry(u) \in kept
        BY <4>1, UnitsAreKept
      <4>3. now - u.score <= elapsed - u.at
        BY <4>1 DEF WindowInv, Covered
      <4>4. u.at <= elapsed /\ u.at \in Int
        BY <3>1, UnitsTyped DEF Units
      <4> QED BY <4>2, <4>3, <4>4 DEF log
    <3>2. CASE fits /\ u \in NewUnits(cost)
      <4>1. Entry(u) \in log
        BY <1>5, <3>2 DEF log
      <4> QED BY <1>2, <1>5, <3>2, <4>1
    <3>3. u \in admitted'
      BY DEF InSpan
    <3> QED BY <1>6, <3>1, <3>2, <3>3
  <2>2. sw'.expireAt = now + v.windowMs
    BY <1>8, <2>1
  <2> QED BY <1>2, <1>7, <2>1, <2>2
<1>13. WindowBound'
  <2> SUFFICES ASSUME NEW t \in 0..elapsed PROVE Cardinality(InSpan(t)') <= TopLimit
    BY <1>1 DEF WindowBound
  <2>1. CASE t # elapsed \/ ~fits
    <3>1. InSpan(t)' = InSpan(t)
      <4>1. CASE ~fits
        BY <1>1, <4>1 DEF InSpan
      <4>2. CASE t # elapsed
        <5>1. \A w \in NewUnits(cost) : ~(w.at <= t)
          BY <1>2, <1>5, <4>2
        <5>2. admitted \subseteq admitted'
          BY <1>1
        <5> QED BY <1>6, <5>1, <5>2 DEF InSpan
      <4> QED BY <2>1, <4>1, <4>2
    <3> QED BY <3>1 DEF WindowInv, WindowBound
  <2>2. CASE t = elapsed /\ fits
    <3> DEFINE S == InSpan(elapsed)'
               name == [u \in S |-> Entry(u)]
    <3>1. name \in [S -> log]
      <4>1. \A u \in S : Entry(u) \in sw'.log
        BY <1>12 DEF Covered, Entry
      <4> QED BY <1>7, <4>1
    <3>2. \A u, w \in S : name[u] = name[w] => u = w
      <4>1. \A u, w \in S : Entry(u) = Entry(w) => u.seq = w.seq /\ u.i = w.i
        BY DEF Entry
      <4>2. S \subseteq admitted'
        BY DEF InSpan
      <4> QED BY <1>11, <4>1, <4>2 DEF WindowTypeOK
    <3>3. name \in Injection(S, log)
      BY <3>1, <3>2 DEF Injection, IsInjective
    <3>4. IsFiniteSet(S) /\ Cardinality(S) <= Cardinality(log)
      BY <1>10, <3>3, FS_Injection
    <3>5. Cardinality(log) <= Cardinality(kept) + cost
      BY <1>2, <1>3, <2>2, LogCount DEF log
    <3>6. Cardinality(S) \in Nat /\ Cardinality(log) \in Nat /\ Cardinality(kept) \in Nat
      BY <1>3, <1>10, <3>4, FS_CardinalityType
    <3>7. InSpan(t)' = S
      BY <1>1, <2>2 DEF InSpan
    <3> HIDE DEF S
    <3> QED BY <1>2, <2>2, <3>4, <3>5, <3>6, <3>7
  <2> QED BY <2>1, <2>2
<1>14. IsFiniteSet(admitted')
  <2> DEFINE M == W!Members(now, calls, cost)
             unit == [e \in M |-> [at |-> elapsed, score |-> e.score, seq |-> e.seq, i |-> e.i]]
  <2>1. IsFiniteSet({} \cup M)
    BY <1>2, LogCount, FS_EmptySet
  <2>2. IsFiniteSet(M)
    BY <2>1
  <2>3. unit \in [M -> NewUnits(cost)]
    BY DEF W!Members, NewUnits
  <2>4. \A w \in NewUnits(cost) : Entry(w) \in M /\ unit[Entry(w)] = w
    BY <1>5 DEF Entry
  <2>5. unit \in Surjection(M, NewUnits(cost))
    BY <2>3, <2>4 DEF Surjection
  <2>6. IsFiniteSet(NewUnits(cost))
    BY <2>2, <2>5, FS_Surjection
  <2> QED BY <1>1, <2>6, FS_Union DEF WindowInv
<1> QED BY <1>7, <1>10, <1>11, <1>12, <1>13, <1>14 DEF WindowInv

LEMMA NextKeepsWindow == BucketInv /\ WindowInv /\ [Next]_vars => WindowInv'
<1> SUFFICES ASSUME BucketInv, WindowInv, [Next]_vars PROVE WindowInv'
  OBVIOUS
<1>1. Clocks
  BY DEF BucketInv, BucketTypeOK, Clocks
<1>2. ASSUME NEW v \in Windows, NEW cost \in Costs, CheckWindow(v, cost) PROVE WindowInv'
  BY <1>1, <1>2, CheckKeepsWindow
<1>3. CASE Tick
  BY <1>1, <1>3, TickKeepsWindow
<1>4. CASE ClockStepsBack \/ Expire
  BY <1>1, <1>4, BackOrExpireKeepsWindow
<1>5. ASSUME UNCHANGED <<now, sw, elapsed, admitted>>, calls' \in {calls, calls + 1},
             calls' \in 0..MaxCalls
      PROVE  WindowInv'
  <2>1. calls \in Nat /\ calls' \in Nat /\ calls <= calls'
    BY <1>5 DEF WindowInv, WindowTypeOK
  <2>2. WindowTypeOK'
    <3>1. \A e \in sw'.log : e.seq \in 0..(calls' - 1) /\ e.score \in 0..MaxTime /\ e.i \in 1..TopLimit
      BY <1>5, <2>1 DEF WindowInv, WindowTypeOK
    <3>2. \A n \in 0..(calls - 1) : n \in 0..(calls' - 1)
      BY <2>1, RangeGrows
    <3>3. admitted' \subseteq [at: 0..elapsed', score: 0..MaxTime, seq: 0..(calls' - 1), i: 1..TopLimit]
      BY <1>5, <3>2 DEF WindowInv, WindowTypeOK
    <3>4. /\ \A u, w \in admitted' : u.seq = w.seq /\ u.i = w.i => u = w
          /\ sw'.expireAt \in Int
      BY <1>5 DEF WindowInv, WindowTypeOK
    <3> QED BY <1>5, <3>1, <3>3, <3>4 DEF WindowTypeOK
  <2>3. Covered' /\ WindowBound' /\ IsFiniteSet(admitted)' /\ IsFiniteSet(sw.log)'
    BY <1>5 DEF WindowInv, Covered, WindowBound, InSpan
  <2> QED BY <2>2, <2>3 DEF WindowInv
<1>6. ASSUME NEW v \in Buckets, NEW cost \in Costs, CheckBucket(v, cost) PROVE WindowInv'
  <2>1. calls' = calls + 1 /\ calls' \in 0..MaxCalls
    BY <1>6 DEF CheckBucket, WindowInv, WindowTypeOK
  <2> QED BY <1>5, <1>6, <2>1 DEF CheckBucket
<1>7. CASE UNCHANGED vars
  BY <1>5, <1>7 DEF vars, observer, WindowInv, WindowTypeOK
<1> QED BY <1>2, <1>3, <1>4, <1>6, <1>7 DEF Next

\* Both keys, their clocks and their histories keep in step under every version.
THEOREM EditsInvariance == Spec => []EditsInv
<1>1. BucketInv /\ WindowInv => EditsInv
  BY DEF WindowInv, EditsInv
<1> QED BY <1>1, InitBucket, NextKeepsBucket, InitWindow, NextKeepsWindow, PTL DEF Spec

\* Whatever versions of a rule the instances hold, on a clock that may be set back, no
\* Span milliseconds of true time admit more units than the highest limit.
THEOREM EditsWindowBound == Spec => []WindowBound
<1>1. EditsInv => WindowBound
  BY DEF EditsInv
<1> QED BY <1>1, EditsInvariance, PTL
=====================================================================================================================================================
