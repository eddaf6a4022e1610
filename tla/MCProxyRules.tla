---------------------------- MODULE MCProxyRules ----------------------------
(* Instance of ProxyRules: two rules that compete for one port and one       *)
(* domain, and two API calls at a time.                                      *)
EXTENDS ProxyRules, TLC

Symmetry == Permutations(Rules) \cup Permutations(Calls)
=============================================================================
