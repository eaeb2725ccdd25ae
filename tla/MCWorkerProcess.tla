--------------------------- MODULE MCWorkerProcess ---------------------------
(* A small instance of WorkerProcess for TLC. *)
EXTENDS WorkerProcess, TLC

\* A code of each class the acquirer tells apart.
SomeCodes == {200, 302, 304, 403, 404, 410, 429, 503}

\* Refused, over at once, and over at some time or, like -1, never.
SomeMinutes == {-2, 0, 1}
=============================================================================
