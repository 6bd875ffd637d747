------------------------- MODULE SlidingWindowScript -------------------------
(***************************************************************************)
(* What one run of src/src/adapters/lua/sliding_window.lua computes from   *)
(* the sorted set, the rule, the cost, the Redis clock and the caller's    *)
(* unique suffix.  Redis runs a script without interleaving, so the run is *)
(* one operator: RunWindow.                                                *)
(*                                                                         *)
(* A member of the sorted set is named "<now>-<seq>-<i>" and scored now:   *)
(* two additions under one name are one member, as in this set of records. *)
(***************************************************************************)
EXTENDS Integers, FiniteSets, FiniteSetsExt

\* An empty sorted set does not exist in Redis, nor does its expiry.
NoWindow == [log |-> {}, expireAt |-> -1]

Alive(key, now) == now <= key.expireAt

KeptOnTheEdge(key, rule, now) ==
  IF Alive(key, now) THEN {e \in key.log : e.score >= now - rule.windowMs} ELSE {}

KeptLong(key, rule, now) ==
  IF Alive(key, now) THEN {e \in key.log : e.score > now - rule.windowMs + 1} ELSE {}

\* ZREMRANGEBYSCORE 0 .. now - windowMs: the window is (now - windowMs, now].
Kept(key, rule, now) ==
  IF Alive(key, now) THEN {e \in key.log : e.score > now - rule.windowMs} ELSE {}

MembersBySecond(now, seq, cost) == [score: {now}, seq: {0}, i: 1..cost]

\* One member for each token of the cost.
Members(now, seq, cost) == [score: {now}, seq: {seq}, i: 1..cost]

FitsOne(kept, rule, cost) == Cardinality(kept) + 1 <= rule.limit

Fits(kept, rule, cost) == Cardinality(kept) + cost <= rule.limit

Log(kept, rule, cost, now, seq) ==
  IF Fits(kept, rule, cost) THEN kept \cup Members(now, seq, cost) ELSE kept

\* PEXPIRE counts from every run, a refused one included.
KeyAfter(log, rule, now) ==
  IF log = {} THEN NoWindow ELSE [log |-> log, expireAt |-> now + rule.windowMs]

\* When the oldest member leaves the window.
ResetMs(log, rule, now) ==
  IF log = {} THEN now + rule.windowMs
  ELSE Min({e.score : e \in log}) + rule.windowMs

NewestWait(kept, rule, cost, now) ==
  IF Fits(kept, rule, cost) THEN 0
  ELSE IF kept = {} THEN rule.windowMs
  ELSE Max({1, Max({e.score : e \in kept}) + rule.windowMs - now})

RetryAtMs(kept, rule, cost, now) ==
  IF Fits(kept, rule, cost) THEN 0 ELSE ResetMs(kept, rule, now)

RetryAfterMs(kept, rule, cost, now) ==
  IF Fits(kept, rule, cost) THEN 0 ELSE Max({1, ResetMs(kept, rule, now) - now})

\* The count the script goes on with: it adds the cost, it does not read ZCARD
\* again; a limit lowered below the count leaves nothing, never less.
Remaining(kept, rule, cost) ==
  LET count == Cardinality(kept) + (IF Fits(kept, rule, cost) THEN cost ELSE 0)
  IN  Max({0, rule.limit - count})

\* The whole script: the key it leaves behind and the reply it returns.
RunWindow(key, rule, cost, now, seq) ==
  LET kept == Kept(key, rule, now)
      log  == Log(kept, rule, cost, now, seq) IN
    [key   |-> KeyAfter(log, rule, now),
     reply |-> [allowed      |-> Fits(kept, rule, cost),
                remaining    |-> Remaining(kept, rule, cost),
                retryAfterMs |-> RetryAfterMs(kept, rule, cost, now),
                resetMs      |-> ResetMs(log, rule, now)]]
=============================================================================
