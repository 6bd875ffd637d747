------------------------------ MODULE RuleEdits ------------------------------
(***************************************************************************)
(* One identity (tenant, rule id, identifier) while its rule is edited.    *)
(* Instances hold their own copy of the rule for as long as RuleCache      *)
(* allows, so that checks under different versions, of either algorithm,   *)
(* reach Redis in any order; limitKey gives each algorithm its own key.    *)
(* The Redis clock may be set back at any time.                            *)
(*                                                                         *)
(* elapsed, since, granted and runs belong to an observer, as in           *)
(* TokenBucket; admitted is history, as in SlidingWindow.                  *)
(***************************************************************************)
EXTENDS Integers, FiniteSets

CONSTANTS
  Unit, Rounding,    \* see TokenBucketScript
  Buckets,           \* the token-bucket versions of the rule
  Windows,           \* its sliding-window versions
  Costs,
  MaxTime,           \* bound on true time
  MaxCalls,          \* bound on the number of checks
  Burst, Rate,       \* the widest bucket, see WidestAssumption
  Span, TopLimit     \* the narrowest window, the highest limit

\* What parseRule lets through.
ASSUME VersionsAssumption ==
  /\ Unit \in Nat \ {0} /\ Rounding \in Nat
  /\ Buckets \subseteq [capacity: Nat \ {0}, refill: Nat \ {0}]
  /\ Windows \subseteq [limit: Nat \ {0}, windowMs: Nat \ {0}]
  /\ Costs \subseteq Nat \ {0}
  /\ MaxTime \in Nat /\ MaxCalls \in Nat

\* A bucket of Burst units refilled by Rate holds what any version holds, and is
\* full no later than any of them; no version forgets within Span, or admits
\* more than TopLimit.
ASSUME WidestAssumption ==
  /\ {Burst, Rate, Span, TopLimit} \subseteq Nat \ {0}
  /\ \A v \in Buckets : /\ v.capacity <= Burst /\ v.refill <= Rate
                        /\ Burst * v.refill <= Rate * v.capacity
  /\ \A v \in Windows : Span <= v.windowMs /\ v.limit <= TopLimit

VARIABLES
  now,     \* the Redis clock
  tb, sw,  \* the keys "...:tb" and "...:sw"
  calls,   \* checks made so far
  elapsed, since, granted, runs,
  admitted

observer == <<elapsed, since, granted, runs>>

vars == <<now, tb, sw, calls, observer, admitted>>

B == INSTANCE TokenBucketScript
W == INSTANCE SlidingWindowScript

Init ==
  /\ now = 0
  /\ tb = B!NoBucket /\ sw = W!NoWindow
  /\ calls = 0
  /\ elapsed = 0 /\ since = 0
  /\ granted = 0 /\ runs = 0
  /\ admitted = {}

Tick ==
  /\ elapsed < MaxTime
  /\ now' = now + 1
  /\ elapsed' = elapsed + 1
  /\ \/ UNCHANGED <<since, granted, runs>>
     \/ since' = elapsed + 1 /\ granted' = 0 /\ runs' = 0
  /\ UNCHANGED <<tb, sw, calls, admitted>>

ClockStepsBack ==
  /\ \E t \in 0..(now - 1) : now' = t
  /\ UNCHANGED <<tb, sw, calls, observer, admitted>>

\* What a run of the token-bucket script may leave and decide; the rest of its
\* reply is told to the caller and kept nowhere.
BucketRuns(v, cost) ==
  {[key |-> run.key, allowed |-> run.reply.allowed] : run \in B!RunBucket(tb, v, cost, now)}

\* A check by an instance that holds version v: resolve compares the cost with
\* the ceiling of v, and the script is given v's parameters.
CheckBucket(v, cost) ==
  /\ calls < MaxCalls /\ cost * Unit <= v.capacity
  /\ calls' = calls + 1
  /\ \E run \in BucketRuns(v, cost) :
       /\ tb' = run.key
       /\ granted' = IF run.allowed THEN granted + cost ELSE granted
  /\ runs' = runs + 1
  /\ UNCHANGED <<now, sw, elapsed, since, admitted>>

CheckWindow(v, cost) ==
  LET run == W!RunWindow(sw, v, cost, now, calls) IN
    /\ calls < MaxCalls /\ cost <= v.limit
    /\ calls' = calls + 1
    /\ sw' = run.key
    /\ admitted' = IF run.reply.allowed
                   THEN admitted \cup [at: {elapsed}, score: {now}, seq: {calls}, i: 1..cost]
                   ELSE admitted
    /\ UNCHANGED <<now, tb, observer>>

\* Redis deletes a dead key on its own.
Expire ==
  /\ \/ tb # B!NoBucket /\ ~B!Alive(tb, now) /\ tb' = B!NoBucket /\ UNCHANGED sw
     \/ sw # W!NoWindow /\ ~W!Alive(sw, now) /\ sw' = W!NoWindow /\ UNCHANGED tb
  /\ UNCHANGED <<now, calls, observer, admitted>>

Next ==
  \/ \E v \in Buckets, cost \in Costs : CheckBucket(v, cost)
  \/ \E v \in Windows, cost \in Costs : CheckWindow(v, cost)
  \/ Tick \/ ClockStepsBack \/ Expire

Spec == Init /\ [][Next]_vars

-----------------------------------------------------------------------------
\* Whatever versions are in use, over any interval the token-bucket key grants at
\* most what the widest bucket would: Burst and Rate for the interval.  Rate is
\* not the highest refillRate: a version that fills sooner shortens the TTL of the
\* key, and a drained bucket of Burst comes back full when the key has expired.
\* What the rounding of each check adds is Rounded.
Rounded == 2 * Rounding * runs

BucketBound == granted * Unit <= Burst + Rate * (elapsed - since) + Rounded

\* The units admitted in the Span milliseconds up to t.
InSpan(t) == {u \in admitted : t - Span < u.at /\ u.at <= t}

\* Whatever versions are in use, no Span milliseconds admit more than the highest
\* limit: a version with a shorter window evicts only what is older, and its
\* PEXPIRE drops nothing younger.
WindowBound == \A t \in 0..elapsed : Cardinality(InSpan(t)) <= TopLimit

\* A check takes no tokens but those it grants, also on a clock behind the stored
\* stamp, those for which its version has no room, and those its rounding loses.
NoTokensLost ==
  [][B!Alive(tb, now) =>
       \A v \in Buckets, cost \in Costs :
         tb'.tokens + (granted' - granted) * Unit + 2 * Rounding
           < B!Least(v.capacity, tb.tokens) => ~CheckBucket(v, cost)]_vars

-----------------------------------------------------------------------------
(***************************************************************************)
(* The inductive form of the two bounds.                                   *)
(***************************************************************************)
BucketTypeOK ==
  /\ now \in 0..MaxTime /\ elapsed \in 0..MaxTime /\ now <= elapsed
  /\ tb \in [tokens: 0..(Burst + Rounding), lastRefillMs: 0..MaxTime, expireAt: Int]
  /\ since \in 0..elapsed /\ granted \in Nat /\ runs \in Nat

Widest == [capacity |-> Burst, refill |-> Rate]

\* The key lives as long as the widest bucket takes to fill.
KeyLives ==
  tb = B!NoBucket \/ (/\ tb.expireAt >= tb.lastRefillMs
                      /\ (tb.expireAt - tb.lastRefillMs) * Rate >= Burst)

\* What the widest bucket could still grant counts against the same allowance.
Budget ==
  granted * Unit + B!Refilled(tb, Widest, now)
    <= Burst + Rate * (elapsed - since) + Rounded

BucketInv == BucketTypeOK /\ KeyLives /\ Budget

WindowTypeOK ==
  /\ calls \in 0..MaxCalls
  /\ \A e \in sw.log : e.seq \in 0..(calls - 1) /\ e.score \in 0..MaxTime /\ e.i \in 1..TopLimit
  /\ sw.expireAt \in Int
  /\ admitted \subseteq [at: 0..elapsed, score: 0..MaxTime, seq: 0..(calls - 1), i: 1..TopLimit]
  /\ \A u, w \in admitted : u.seq = w.seq /\ u.i = w.i => u = w

\* A unit of the last Span milliseconds has its entry, the clock counts at most
\* the unit's age against it, and the key outlives it.
Covered ==
  \A u \in InSpan(elapsed) :
    /\ [score |-> u.score, seq |-> u.seq, i |-> u.i] \in sw.log
    /\ now - u.score <= elapsed - u.at
    /\ now - sw.expireAt <= elapsed - u.at - Span

EditsInv == BucketInv /\ WindowTypeOK /\ Covered /\ WindowBound
=============================================================================
