----------------------------- MODULE MCRuleSync -----------------------------
(* Instance of RuleSync: one rule that two overlapping API calls create,     *)
(* change, move between two clients and delete, one of the clients coming    *)
(* and going; versions and calls are alike.                                  *)
EXTENDS RuleSync, TLC

Symmetry == Permutations(Versions) \cup Permutations(Calls)
=============================================================================
