---------------------------- MODULE MCSubmission -----------------------------
(* Small instances of Submission for TLC. *)
EXTENDS Submission, TLC

Symmetric == Permutations(Submitters) \union Permutations(Jobs)
=============================================================================
