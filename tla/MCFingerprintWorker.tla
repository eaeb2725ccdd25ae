------------------------- MODULE MCFingerprintWorker -------------------------
(* Small instances of FingerprintWorker for TLC. *)
EXTENDS FingerprintWorker, TLC

CONSTANTS j1, j2, p1, p2, bad

\* Every payload is a job of its own, the malformed one included.
OwnJob == [p \in Payloads |-> p]

\* All payloads, well-formed or not, name the same job.
SameJob == [p \in Payloads |-> j1]

\* Workers are interchangeable.
Symmetric == Permutations(Workers)
=============================================================================
