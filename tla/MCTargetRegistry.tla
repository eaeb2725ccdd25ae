-------------------------- MODULE MCTargetRegistry ---------------------------
(* Small instances of TargetRegistry for TLC. *)
EXTENDS TargetRegistry, TLC

Symmetric == Permutations(Clients) \union Permutations(Targets) \union Permutations(Hashes)
=============================================================================
