------------------------------ MODULE MCGateway ------------------------------
(***************************************************************************)
(* Gateway for TLC: what a client may ask, sound or not, and two decisions *)
(* with waits that are no whole seconds.                                   *)
(***************************************************************************)
EXTENDS Gateway, TLC

MCItem(rule, identifier, cost) == [rule |-> rule, identifier |-> identifier, cost |-> cost]

MCItems == {MCItem("r", "u", Absent), MCItem("r", "u", 0),
            MCItem("r", "u", Ceiling + 1), MCItem("", "u", 1)}

MCAllow == [allowed |-> TRUE, remaining |-> 1, limit |-> 2, retryAfterMs |-> 0,
            resetMs |-> 1500, degraded |-> FALSE]
MCDeny == [allowed |-> FALSE, remaining |-> 1, limit |-> 2, retryAfterMs |-> 1001,
           resetMs |-> 2001, degraded |-> FALSE]

MCDecisions == {MCAllow, MCDeny}

MCSymmetry == Permutations(Callers)
=============================================================================
