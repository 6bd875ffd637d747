----------------------------- MODULE EagerBucket -----------------------------
(***************************************************************************)
(* What the token bucket promises, with nothing of how it is stored: a     *)
(* bucket that is topped up at every millisecond, exists forever, and      *)
(* tells a refused caller the number of milliseconds to wait.  It is read, *)
(* written and reckoned with to within Rounding units, and with Rounding 0 *)
(* exactly.                                                                *)
(***************************************************************************)
EXTENDS Integers

CONSTANTS Capacity, Refill, Unit, Costs, MaxTime, Rounding

VARIABLES clock, level, reply

vars == <<clock, level, reply>>

Levels == 0..Capacity

Replies == [allowed: BOOLEAN, remaining: Nat, retryAfterMs: Nat, resetMs: Nat]

IsNear(x, y) == x - Rounding <= y /\ y <= x + Rounding

\* n is the first whole millisecond after which `missing` units have accrued.
IsWait(n, missing) ==
  IF missing = 0 THEN n = 0
  ELSE /\ n \in Nat \ {0}
       /\ n * Refill >= missing - Rounding
       /\ (n - 1) * Refill < missing + Rounding

Init == /\ clock = 0
        /\ level = Capacity
        /\ reply = [allowed |-> TRUE, remaining |-> Capacity \div Unit,
                    retryAfterMs |-> 0, resetMs |-> 0]

Tick == /\ clock < MaxTime
        /\ clock' = clock + 1
        /\ level' = IF level + Refill <= Capacity THEN level + Refill ELSE Capacity
        /\ UNCHANGED reply

\* What a check leaves in the bucket, and what it tells of it.
Leave(left) == /\ reply'.remaining * Unit <= left
               /\ left < (reply'.remaining + 1) * Unit
               /\ IsWait(reply'.resetMs - clock, Capacity - left)
               /\ level' \in Levels /\ IsNear(left, level')

Grant(cost, seen) == /\ seen >= cost * Unit
                     /\ reply'.allowed = TRUE
                     /\ reply'.retryAfterMs = 0
                     /\ Leave(seen - cost * Unit)

Refuse(cost, seen) == /\ seen < cost * Unit
                      /\ reply'.allowed = FALSE
                      /\ IsWait(reply'.retryAfterMs, cost * Unit - seen)
                      /\ Leave(seen)

\* The bucket holds level, and is seen to hold `seen`.
Take(cost) == /\ clock' = clock
              /\ reply' \in Replies
              /\ \E seen \in Levels :
                   IsNear(level, seen) /\ (Grant(cost, seen) \/ Refuse(cost, seen))

Next == Tick \/ \E cost \in Costs : Take(cost)

Spec == Init /\ [][Next]_vars
=============================================================================
