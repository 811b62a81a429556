------------------------------ MODULE MCRuleRace ------------------------------
(***************************************************************************)
(* RuleRace for TLC: the workers are interchangeable.                      *)
(***************************************************************************)
EXTENDS RuleRace, TLC

WorkerSymmetry == Permutations(Workers)
=============================================================================
