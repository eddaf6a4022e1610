---------------------------- MODULE MCConnStats ----------------------------
(* Instance of ConnStats: three connections of a rule that is deleted and    *)
(* created again.                                                            *)
EXTENDS ConnStats, TLC

Symmetry == Permutations(Conns)
=============================================================================
