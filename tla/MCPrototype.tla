----------------------------- MODULE MCPrototype -----------------------------
(* A small instance of Prototype for TLC. *)
EXTENDS Prototype, TLC

\* All assets come from one site.
OneDomain == [a \in Assets |-> "site"]

\* a1 is urgent, a2 is not.
Symmetry == Permutations(Workers)
=============================================================================
