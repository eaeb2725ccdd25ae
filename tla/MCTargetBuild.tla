---------------------------- MODULE MCTargetBuild ----------------------------
(* Small instances of TargetBuild for TLC. *)
EXTENDS TargetBuild, TLC

Symmetric == Permutations(Workers) \union Permutations(Contents)
=============================================================================
