----------------------------- MODULE MCRuleCache -----------------------------
(***************************************************************************)
(* RuleCache for TLC: instances are interchangeable.                       *)
(***************************************************************************)
EXTENDS RuleCache, TLC

Symmetry == Permutations(Instances)
=============================================================================
