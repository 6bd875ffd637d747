----------------------------- MODULE TokenBucket -----------------------------
(***************************************************************************)
(* One rate-limit key of a token-bucket rule under a fixed rule: any       *)
(* number of callers run the script on it, one run at a time, while the    *)
(* Redis clock advances.  Callers need no state of their own: whatever     *)
(* their interleaving, Redis sees a sequence of script runs.               *)
(*                                                                         *)
(* elapsed, since, granted and runs belong to an observer: true time since *)
(* the start, the instant at which it (last) began to count, and the       *)
(* tokens granted and the checks made since that instant.                  *)
(***************************************************************************)
EXTENDS TokenBucketScript

CONSTANTS
  Capacity,    \* rule.capacity, in units
  Refill,      \* rule.refillRate, in units per millisecond
  Costs,       \* costs the service lets through to the script, in tokens
  MaxTime,     \* bound on the clock
  MaxRuns      \* bound on the checks that are counted

\* parseRule accepts positive numbers only; a cost is a positive integer and
\* RateLimitService.resolve refuses one above the capacity.
ASSUME RuleAssumption ==
  /\ Unit \in Nat \ {0}
  /\ Rounding \in Nat
  /\ Capacity \in Nat \ {0}
  /\ Refill \in Nat \ {0}
  /\ Costs \subseteq {c \in Nat \ {0} : c * Unit <= Capacity}
  /\ MaxTime \in Nat /\ MaxRuns \in Nat

VARIABLES
  now,      \* the Redis clock, in milliseconds
  key,      \* the bucket key
  reply,    \* the last reply of the script
  elapsed,
  since,
  granted,
  runs

observer == <<elapsed, since, granted, runs>>

vars == <<now, key, reply, observer>>

Rule == [capacity |-> Capacity, refill |-> Refill]

Init ==
  /\ now = 0
  /\ key = NoBucket
  /\ reply = [allowed |-> TRUE, remaining |-> Capacity \div Unit,
              retryAfterMs |-> 0, resetMs |-> 0]
  /\ elapsed = 0 /\ since = 0
  /\ granted = 0 /\ runs = 0

\* Time passes.  The observer goes on counting, or starts afresh.
Tick ==
  /\ elapsed < MaxTime
  /\ now' = now + 1
  /\ elapsed' = elapsed + 1
  /\ \/ UNCHANGED <<since, granted, runs>>
     \/ since' = elapsed + 1 /\ granted' = 0 /\ runs' = 0
  /\ UNCHANGED <<key, reply>>

\* RateLimiter.check for this key: one run of the script.
Check(cost) ==
  /\ runs < MaxRuns
  /\ \E run \in RunBucket(key, Rule, cost, now) :
       /\ key' = run.key
       /\ reply' = run.reply
       /\ granted' = IF run.reply.allowed THEN granted + cost ELSE granted
  /\ runs' = runs + 1
  /\ UNCHANGED <<now, elapsed, since>>

\* Redis also deletes dead keys on its own, at a moment nobody controls.
Expire ==
  /\ key # NoBucket /\ ~Alive(key, now)
  /\ key' = NoBucket
  /\ UNCHANGED <<now, reply, observer>>

Next == Tick \/ Expire \/ \E cost \in Costs : Check(cost)

Spec == Init /\ [][Next]_vars

-----------------------------------------------------------------------------
(***************************************************************************)
(* The Redis clock is the host's wall clock and may be set back.  A dead   *)
(* key that Redis has not deleted yet is then alive again.                 *)
(***************************************************************************)
ClockStepsBack ==
  /\ \E t \in 0..(now - 1) : now' = t
  /\ UNCHANGED <<key, reply, observer>>

SteppedSpec == Init /\ [][Next \/ ClockStepsBack]_vars

-----------------------------------------------------------------------------
Keys == [tokens: 0..(Capacity + Rounding), lastRefillMs: 0..MaxTime, expireAt: Int]

\* Every variable has its type; the stored level exceeds the capacity by no more
\* than its rounding, and a denied reply never promises a wait longer than a
\* full refill.
TypeOK ==
  /\ now \in 0..MaxTime
  /\ elapsed \in 0..MaxTime /\ since \in 0..elapsed
  /\ key \in Keys
  /\ reply \in [allowed: BOOLEAN, remaining: 0..(Capacity \div Unit),
                retryAfterMs: 0..CeilDiv(Capacity + Rounding, Refill), resetMs: Nat]
  /\ granted \in Nat /\ runs \in 0..MaxRuns

\* What the two roundings of each check, of the refilled level and of the level
\* stored, may have added to the bucket since counting began.
Rounded == 2 * Rounding * runs

\* Over any interval of true time, from any instant until the present, the
\* script has granted at most a full bucket plus what the interval refills,
\* however many callers raced, whenever the key expired and was recreated; but
\* for what the rounding of each check adds.
AdmissionBound ==
  granted * Unit <= Capacity + Refill * (elapsed - since) + Rounded

\* A check behind a stored stamp (the clock was set back) withdraws no tokens
\* but the ones it grants and those its rounding loses; so a bucket cannot be
\* driven below zero, or emptied, by the clock.
NoTokensLost ==
  [][Alive(key, now) /\ (\E cost \in Costs : Check(cost)) =>
       key'.tokens + (granted' - granted) * Unit + 2 * Rounding
         >= Least(Capacity, key.tokens)]_vars

-----------------------------------------------------------------------------
(***************************************************************************)
(* The inductive form of AdmissionBound: what is still in the bucket       *)
(* counts against the same allowance, and a stored key is one some check   *)
(* wrote, with a life that fills the bucket from the refill stamp.         *)
(***************************************************************************)
Level == Refilled(key, Rule, now)

KeyWritten == key = NoBucket \/ key.expireAt - key.lastRefillMs \in TtlMs(Rule)

Budget == granted * Unit + Level <= Capacity + Refill * (elapsed - since) + Rounded

SteppedInv == TypeOK /\ now <= elapsed /\ KeyWritten /\ Budget

\* On a clock that is never set back, no stamp lies ahead of it.
InStep == now = elapsed /\ (key = NoBucket \/ key.lastRefillMs <= now)

IInv == SteppedInv /\ InStep

-----------------------------------------------------------------------------
\* Refilling lazily, at the next check, and letting Redis drop the key after
\* TtlMs cannot be told from a bucket that is topped up at every millisecond
\* and never dropped; every reply (decision, remaining, wait, reset) is one that
\* bucket gives when its owner reads it to within Rounding.
Eager == INSTANCE EagerBucket WITH
           clock <- now, level <- Level

ImplementsEagerBucket == Eager!Spec
=============================================================================
