---------------------------- MODULE JobLifecycle -----------------------------
(***************************************************************************)
(* What the queue promises a caller that polls a job (integration/outcome  *)
(* reads these phases off the job's state hash): a submitted job is run,   *)
(* possibly several times with a new attempt number each, and ends in one  *)
(* outcome that is published once and never changes.                       *)
(***************************************************************************)
EXTENDS Naturals, Sequences

CONSTANTS Jobs, Decisions, MaxAttempts

VARIABLES
  phase,      (* where the job stands *)
  attempts,   (* how many times it was started *)
  published   (* the decisions announced for it *)

vars == <<phase, attempts, published>>

Phases == {"new", "queued", "running", "waiting", "completed", "failed", "rejected"}

TypeOK ==
  /\ phase \in [Jobs -> Phases]
  /\ attempts \in [Jobs -> Nat]
  /\ published \in [Jobs -> Seq(Decisions)]

Init ==
  /\ phase = [j \in Jobs |-> "new"]
  /\ attempts = [j \in Jobs |-> 0]
  /\ published = [j \in Jobs |-> <<>>]

Move(j, from, to) == phase[j] \in from /\ phase' = [phase EXCEPT ![j] = to]

Submit(j) == Move(j, {"new"}, "queued") /\ UNCHANGED <<attempts, published>>

\* A worker starts the job: a first attempt, a retry, or the recovery of one
\* whose worker is gone.
Start(j) ==
  /\ Move(j, {"queued", "waiting", "running"}, "running")
  /\ attempts' = [attempts EXCEPT ![j] = @ + 1]
  /\ UNCHANGED published

Postpone(j) ==
  /\ attempts[j] < MaxAttempts
  /\ Move(j, {"running"}, "waiting")
  /\ UNCHANGED <<attempts, published>>

Publish(j, d) ==
  /\ Move(j, {"running"}, "completed")
  /\ published' = [published EXCEPT ![j] = Append(@, d)]
  /\ UNCHANGED attempts

\* The end of a job that has no result to publish.
Close(j) ==
  /\ \/ Move(j, {"running"}, "completed")
     \/ Move(j, {"running"}, "failed")
     \/ Move(j, {"queued"}, "rejected")
  /\ UNCHANGED <<attempts, published>>

Next ==
  \E j \in Jobs :
    Submit(j) \/ Start(j) \/ Postpone(j) \/ (\E d \in Decisions : Publish(j, d)) \/ Close(j)

Spec == Init /\ [][Next]_vars
=============================================================================
