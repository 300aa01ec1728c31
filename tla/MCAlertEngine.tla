--------------------------- MODULE MCAlertEngine ---------------------------
(* Instance of AlertEngine for TLC, and the abstraction it implements.     *)
EXTENDS AlertEngine, TLC

RuleSymmetry == Permutations(Rules) \cup Permutations(Admins) \cup Permutations(Workers)
=============================================================================
