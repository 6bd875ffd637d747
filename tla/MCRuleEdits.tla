----------------------------- MODULE MCRuleEdits -----------------------------
(***************************************************************************)
(* RuleEdits for TLC: two versions for each algorithm, of which one refills *)
(* faster but holds less, and one forgets sooner but admits more.          *)
(***************************************************************************)
EXTENDS RuleEdits

MCBuckets == {[capacity |-> 6, refill |-> 1], [capacity |-> 2, refill |-> 2]}
MCWindows == {[limit |-> 2, windowMs |-> 3], [limit |-> 3, windowMs |-> 2]}
=============================================================================
