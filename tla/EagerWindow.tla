----------------------------- MODULE EagerWindow -----------------------------
(***************************************************************************)
(* What the sliding window promises, with nothing of how it is stored: a   *)
(* set of admitted units, each of which leaves exactly Window milliseconds *)
(* after it entered, and room for Limit of them at any moment.             *)
(***************************************************************************)
EXTENDS Integers, FiniteSets

CONSTANTS Limit, Window, Costs, MaxTime

VARIABLES clock, live, reply

vars == <<clock, live, reply>>

Replies == [allowed: BOOLEAN, remaining: Nat, retryAfterMs: Nat, resetMs: Nat]

\* t is the moment the first of the units leaves the window.
FirstLeaves(t, units) == /\ \E u \in units : u.at + Window = t
                         /\ \A u \in units : u.at + Window >= t

Init == /\ clock = 0
        /\ live = {}
        /\ reply = [allowed |-> TRUE, remaining |-> Limit,
                    retryAfterMs |-> 0, resetMs |-> 0]

Tick == /\ clock < MaxTime
        /\ clock' = clock + 1
        /\ live' = {u \in live : u.at + Window > clock + 1}
        /\ UNCHANGED reply

Grant(cost) == /\ Cardinality(live) + cost <= Limit
               /\ live \subseteq live'
               /\ Cardinality(live' \ live) = cost
               /\ \A u \in live' \ live : u.at = clock
               /\ reply'.allowed = TRUE
               /\ reply'.retryAfterMs = 0

Refuse(cost) == /\ Cardinality(live) + cost > Limit
                /\ live' = live
                /\ reply'.allowed = FALSE
                /\ FirstLeaves(clock + reply'.retryAfterMs, live)

Take(cost) == /\ clock' = clock
              /\ reply' \in Replies
              /\ Grant(cost) \/ Refuse(cost)
              /\ reply'.remaining = Limit - Cardinality(live')
              /\ FirstLeaves(reply'.resetMs, live')

Next == Tick \/ \E cost \in Costs : Take(cost)

Spec == Init /\ [][Next]_vars
=============================================================================
