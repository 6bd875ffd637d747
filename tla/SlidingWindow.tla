---------------------------- MODULE SlidingWindow ----------------------------
(***************************************************************************)
(* One rate-limit key of a sliding-window rule under a fixed rule: any     *)
(* number of callers run the script on it, one run at a time, while the    *)
(* Redis clock advances.                                                   *)
(*                                                                         *)
(* elapsed, admitted and asked are history: true time since the start, the *)
(* units admitted so far with the true time of their admission, and the    *)
(* cost and time of the last check.                                        *)
(***************************************************************************)
EXTENDS SlidingWindowScript

CONSTANTS
  Limit,       \* rule.limit
  Window,      \* rule.windowMs
  Costs,       \* costs the service lets through to the script
  MaxTime,     \* bound on true time
  MaxCalls     \* bound on the number of checks

\* parseRule accepts positive numbers only; RateLimitService.resolve refuses a
\* cost above the limit.
ASSUME RuleAssumption ==
  /\ Limit \in Nat \ {0}
  /\ Window \in Nat \ {0}
  /\ Costs \subseteq 1..Limit
  /\ MaxTime \in Nat /\ MaxCalls \in Nat

VARIABLES
  now,      \* the Redis clock, in milliseconds
  key,      \* the sorted set and its expiry
  reply,    \* the last reply of the script
  calls,    \* checks made so far; randomUUID() never repeats a suffix
  elapsed, admitted, asked

vars == <<now, key, reply, calls, elapsed, admitted, asked>>

Rule == [limit |-> Limit, windowMs |-> Window]

Init ==
  /\ now = 0
  /\ key = NoWindow
  /\ reply = [allowed |-> TRUE, remaining |-> Limit, retryAfterMs |-> 0, resetMs |-> 0]
  /\ calls = 0
  /\ elapsed = 0
  /\ admitted = {}
  /\ asked = [cost |-> 0, at |-> 0]

Tick ==
  /\ elapsed < MaxTime
  /\ now' = now + 1
  /\ elapsed' = elapsed + 1
  /\ UNCHANGED <<key, reply, calls, admitted, asked>>

\* RateLimiter.check for this key: one run of the script.
Check(cost) ==
  LET run == RunWindow(key, Rule, cost, now, calls) IN
    /\ calls < MaxCalls
    /\ calls' = calls + 1
    /\ key' = run.key
    /\ reply' = run.reply
    /\ admitted' = IF run.reply.allowed
                   THEN admitted \cup [at: {elapsed}, score: {now}, seq: {calls}, i: 1..cost]
                   ELSE admitted
    /\ asked' = [cost |-> cost, at |-> elapsed]
    /\ UNCHANGED <<now, elapsed>>

\* Redis also deletes dead keys on its own, at a moment nobody controls.
Expire ==
  /\ key # NoWindow /\ ~Alive(key, now)
  /\ key' = NoWindow
  /\ UNCHANGED <<now, reply, calls, elapsed, admitted, asked>>

Next == Tick \/ Expire \/ \E cost \in Costs : Check(cost)

Spec == Init /\ [][Next]_vars

\* The Redis clock is the host's wall clock and may be set back.  A dead key
\* that Redis has not deleted yet is then alive again.
ClockStepsBack ==
  /\ \E t \in 0..(now - 1) : now' = t
  /\ UNCHANGED <<key, reply, calls, elapsed, admitted, asked>>

SteppedSpec == Init /\ [][Next \/ ClockStepsBack]_vars

-----------------------------------------------------------------------------
Entries == [score: 0..MaxTime, seq: 0..MaxCalls, i: 1..Limit]

Units == [at: 0..MaxTime, score: 0..MaxTime, seq: 0..MaxCalls, i: 1..Limit]

StateOK ==
  /\ now \in 0..MaxTime
  /\ elapsed \in 0..MaxTime
  /\ key \in [log: SUBSET Entries, expireAt: Int]
  /\ calls \in 0..MaxCalls
  /\ admitted \in SUBSET Units

\* Every variable has its type, and no refused caller is told to wait for longer
\* than a window.
TypeOK ==
  /\ StateOK
  /\ reply \in [allowed: BOOLEAN, remaining: 0..Limit,
                retryAfterMs: 0..Window, resetMs: Nat]
  /\ asked \in [cost: 0..Limit, at: 0..MaxTime]

\* The units admitted in the window (t - Window, t] of true time.
InWindow(t) == {u \in admitted : t - Window < u.at /\ u.at <= t}

\* "True rolling window": whichever Window milliseconds one looks at, at most
\* Limit units were admitted in them, whoever raced, whichever keys expired.
WindowBound == \A t \in 0..elapsed : Cardinality(InWindow(t)) <= Limit

-----------------------------------------------------------------------------
(***************************************************************************)
(* The inductive form of WindowBound.  Every unit still in the window of   *)
(* true time has its entry in the sorted set, the Redis clock counts at    *)
(* most the unit's age against it, and the key outlives the unit.          *)
(***************************************************************************)
Entry(u) == [score |-> u.score, seq |-> u.seq, i |-> u.i]

Named ==
  /\ \A u \in admitted : u.seq < calls /\ u.at <= elapsed
  /\ \A u, v \in admitted : u.seq = v.seq /\ u.i = v.i => u = v

Covered ==
  \A u \in InWindow(elapsed) :
    /\ Entry(u) \in key.log
    /\ now - u.score <= elapsed - u.at
    /\ now - key.expireAt <= elapsed - u.at - Window

SteppedInv ==
  /\ StateOK /\ now <= elapsed
  /\ IsFiniteSet(admitted) /\ IsFiniteSet(key.log)
  /\ Named /\ Covered /\ WindowBound

\* On a clock that is never set back, the sorted set holds nothing else.
InStep ==
  /\ now = elapsed
  /\ \A u \in admitted : u.score = u.at
  /\ \A e \in key.log : \E u \in admitted : e = Entry(u)

IInv == SteppedInv /\ TypeOK /\ InStep

-----------------------------------------------------------------------------
\* A refused caller that comes back before retryAfterMs is refused again: the
\* wait is never longer than it has to be for the first unit to leave.
NoEarlierSlot ==
  ~reply.allowed /\ elapsed < asked.at + reply.retryAfterMs
    => Cardinality(InWindow(elapsed)) + asked.cost > Limit

\* A refused caller of cost 1 that waits retryAfterMs is admitted, if nobody else
\* was checked in the meantime.
WaitEnoughForOne ==
  /\ ~reply.allowed /\ asked.cost = 1
  /\ elapsed >= asked.at + reply.retryAfterMs
  => Fits(Kept(key, Rule, now), Rule, asked.cost)

\* types.ts: retryAfterMs is the "ms until a retry could succeed".
WaitEnough ==
  /\ ~reply.allowed
  /\ elapsed >= asked.at + reply.retryAfterMs
  => Fits(Kept(key, Rule, now), Rule, asked.cost)

\* Evicting lazily and letting Redis drop the key cannot be told from a window
\* from which every unit leaves at its own millisecond; every reply is the one
\* that window gives.
Eager == INSTANCE EagerWindow WITH clock <- elapsed, live <- InWindow(elapsed)

ImplementsEagerWindow == Eager!Spec
=============================================================================
