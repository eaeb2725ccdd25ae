----------------------------- MODULE Submission ------------------------------
(***************************************************************************)
(* FingerprintJobSubmitter.submit of integration/submission.py: admission  *)
(* control, the submission marker of a job id, and the XADD, each a Redis  *)
(* call of its own.  The fleet behind the queue is reduced to what it does *)
(* to the backlog: FingerprintWorker has the detail.                       *)
(*                                                                         *)
(* A call may fail before or after Redis applied it; the caller cannot     *)
(* tell, and its client may as well send the call again by itself.         *)
(***************************************************************************)
EXTENDS Integers, FiniteSets

CONSTANTS
  Submitters,      (* processes that offer candidates                      *)
  Jobs,            (* job ids, as derive_job_id gives them                 *)
  NoJob,
  MaxOutstanding,  (* max_outstanding_jobs                                 *)
  FailingCalls,    (* the Redis calls of submit() that may fail            *)
  MaxRetries,      (* bound: retries the fleet schedules                   *)
  MaxErrors,       (* bound: calls that fail, applied or not               *)
  MaxCrashes,      (* bound: crashes of submitters                         *)
  MaxEntries       (* bound: entries of one job on the stream              *)

ASSUME SubmissionAssumption ==
  /\ NoJob \notin Jobs /\ IsFiniteSet(Submitters) /\ IsFiniteSet(Jobs)
  /\ MaxOutstanding \in Nat \ {0} /\ FailingCalls \subseteq {"set", "xadd", "del"}
  /\ {MaxRetries, MaxErrors, MaxCrashes, MaxEntries} \subseteq Nat

VARIABLES
  marker,    (* the jobs whose submission marker is set                    *)
  backlog,   (* entries of a job counted by XINFO GROUPS: lag + pending    *)
  delayed,   (* jobs whose payload is in the retry ZSET                    *)
  pc,        (* where a call of submit() stands                            *)
  job,       (* the candidate it was called with                           *)
  told,      (* history: jobs a caller was told are taken care of          *)
  everQueued,(* history: jobs that reached the stream under the marker     *)
  retries, errors, crashes   (* how much of each budget is used            *)

queueVars == <<marker, backlog, delayed>>
callVars == <<pc, job>>
vars == <<queueVars, callVars, told, everQueued, retries, errors, crashes>>

\* The entries XINFO GROUPS counts: the nth of a job, as many as there are.
Entries == UNION {{j} \X (1 .. backlog[j]) : j \in Jobs}
Outstanding == Cardinality(Entries)
Live(j) == backlog[j] > 0 \/ j \in delayed

\* A call that set the marker of j and has not finished with it.
Submitting(j) == \E s \in Submitters : job[s] = j /\ pc[s] \in {"xadd", "release"}

\* Slips the runs must notice, each a wrong version of an operator below.
AdmitsOffByOne == Outstanding <= MaxOutstanding      \* > instead of >=
ClaimMarkerNoNx(j) == marker' = marker \union {j}    \* SET without NX
MayExpireNever(j) == FALSE                           \* SET without EX
PromoteKeeping(j) ==                                 \* XADD without ZREM
  /\ j \in delayed
  /\ backlog' = [backlog EXCEPT ![j] = @ + 1]
  /\ UNCHANGED <<marker, delayed, callVars, told, everQueued, errors, retries, crashes>>

Init ==
  /\ marker = {} /\ delayed = {} /\ told = {} /\ everQueued = {}
  /\ backlog = [j \in Jobs |-> 0]
  /\ pc = [s \in Submitters |-> "idle"]
  /\ job = [s \in Submitters |-> NoJob]
  /\ retries = 0 /\ errors = 0 /\ crashes = 0

At(s, label) == pc[s] = label
Goto(s, label) == pc' = [pc EXCEPT ![s] = label] /\ UNCHANGED job
Return(s) == pc' = [pc EXCEPT ![s] = "idle"] /\ job' = [job EXCEPT ![s] = NoJob]
Fails(call) == call \in FailingCalls /\ errors < MaxErrors /\ errors' = errors + 1

---------------------------------------------------------------------------
(* submit(), call by call.                                                 *)

Admits == Outstanding < MaxOutstanding

\* count_outstanding read a backlog with room in it.
Admit(s, j) ==
  /\ At(s, "idle") /\ Admits
  /\ pc' = [pc EXCEPT ![s] = "mark"]
  /\ job' = [job EXCEPT ![s] = j]
  /\ UNCHANGED <<queueVars, told, everQueued, errors, retries, crashes>>

\* SET NX EX of the marker.
ClaimMarker(j) == j \notin marker /\ marker' = marker \union {j}

Mark(s) ==
  /\ At(s, "mark")
  /\ ClaimMarker(job[s])
  /\ \/ Goto(s, "xadd") /\ UNCHANGED errors
     \/ Fails("set") /\ (Return(s) \/ UNCHANGED callVars)
  /\ UNCHANGED <<backlog, delayed, told, everQueued, retries, crashes>>

\* The SET was not applied and submit() raises: nothing to take back.
MarkFails(s) ==
  /\ At(s, "mark") /\ Fails("set")
  /\ Return(s)
  /\ UNCHANGED <<queueVars, told, everQueued, retries, crashes>>

\* The marker is there: DUPLICATE_SUPPRESSED.
Suppress(s) ==
  /\ At(s, "mark") /\ job[s] \in marker
  /\ told' = told \union {job[s]}
  /\ Return(s)
  /\ UNCHANGED <<queueVars, everQueued, errors, retries, crashes>>

\* A slip: the backlog is looked at again here, after the marker was set.
XaddLateCheck(s) ==
  /\ At(s, "xadd") /\ Return(s)
  /\ IF Admits
     THEN /\ backlog' = [backlog EXCEPT ![job[s]] = @ + 1]
          /\ everQueued' = everQueued \union {job[s]} /\ told' = told \union {job[s]}
     ELSE UNCHANGED <<backlog, everQueued, told>>
  /\ UNCHANGED <<marker, delayed, errors, retries, crashes>>

\* JobProducer.enqueue was applied: its answer arrives, it does not and the
\* client sends the XADD again, or submit() gets an exception.
Xadd(s) ==
  /\ At(s, "xadd") /\ backlog[job[s]] < MaxEntries
  /\ backlog' = [backlog EXCEPT ![job[s]] = @ + 1]
  /\ everQueued' = everQueued \union {job[s]}
  /\ \/ Return(s) /\ told' = told \union {job[s]} /\ UNCHANGED errors
     \/ Fails("xadd") /\ UNCHANGED <<callVars, told>>
     \/ Fails("xadd") /\ Goto(s, "release") /\ UNCHANGED told
  /\ UNCHANGED <<marker, delayed, retries, crashes>>

\* It was not applied.
XaddFails(s) ==
  /\ At(s, "xadd") /\ Fails("xadd")
  /\ Goto(s, "release")
  /\ UNCHANGED <<queueVars, told, everQueued, retries, crashes>>

\* except Exception: DEL the marker and raise; the DEL may fail as well.
Release(s) ==
  /\ At(s, "release")
  /\ \/ marker' = marker \ {job[s]} /\ UNCHANGED errors
     \/ Fails("del") /\ UNCHANGED marker
  /\ Return(s)
  /\ UNCHANGED <<backlog, delayed, told, everQueued, retries, crashes>>

Crash(s) ==
  /\ ~At(s, "idle") /\ crashes < MaxCrashes
  /\ crashes' = crashes + 1
  /\ Return(s)
  /\ UNCHANGED <<queueVars, told, everQueued, retries, errors>>

---------------------------------------------------------------------------
(* The fleet, and time.                                                    *)

\* An entry is acknowledged for good.
Finish(j) ==
  /\ backlog[j] > 0
  /\ backlog' = [backlog EXCEPT ![j] = @ - 1]
  /\ UNCHANGED <<marker, delayed, callVars, told, everQueued, errors, retries, crashes>>

\* An entry is acknowledged and its payload put into the retry ZSET.
Delay(j) ==
  /\ backlog[j] > 0 /\ retries < MaxRetries
  /\ retries' = retries + 1
  /\ backlog' = [backlog EXCEPT ![j] = @ - 1]
  /\ delayed' = delayed \union {j}
  /\ UNCHANGED <<marker, callVars, told, everQueued, errors, crashes>>

\* promote_due_retries XADDs without asking count_outstanding.
Promote(j) ==
  /\ j \in delayed
  /\ delayed' = delayed \ {j}
  /\ backlog' = [backlog EXCEPT ![j] = @ + 1]
  /\ UNCHANGED <<marker, callVars, told, everQueued, errors, retries, crashes>>

\* The TTL "must comfortably outlast the longest realistic job lifetime".
MayExpire(j) == ~Live(j) /\ ~Submitting(j)

MarkerExpires(j) ==
  /\ j \in marker /\ MayExpire(j)
  /\ marker' = marker \ {j}
  /\ UNCHANGED <<backlog, delayed, callVars, told, everQueued, errors, retries, crashes>>

---------------------------------------------------------------------------
Submit(s) ==
  Mark(s) \/ MarkFails(s) \/ Suppress(s) \/ Xadd(s) \/ XaddFails(s) \/ Release(s)

Next ==
  \/ \E s \in Submitters : (\E j \in Jobs : Admit(s, j)) \/ Submit(s) \/ Crash(s)
  \/ \E j \in Jobs : Finish(j) \/ Delay(j) \/ Promote(j) \/ MarkerExpires(j)

Spec == Init /\ [][Next]_vars

(***************************************************************************)
(* A call that started returns; the fleet handles entries and promotes     *)
(* retries; TTLs run out; and the crawler comes across a candidate again   *)
(* and again (submission.py calls that rediscovery).                       *)
(***************************************************************************)
Fairness ==
  /\ \A s \in Submitters : WF_vars(Submit(s))
  /\ \A j \in Jobs :
       /\ SF_vars(\E s \in Submitters : Admit(s, j))
       /\ SF_vars(Finish(j)) /\ WF_vars(Promote(j)) /\ WF_vars(MarkerExpires(j))

FairSpec == Spec /\ Fairness

---------------------------------------------------------------------------
TypeOK ==
  /\ {marker, delayed, told, everQueued} \subseteq SUBSET Jobs
  /\ backlog \in [Jobs -> 0 .. MaxEntries + Cardinality(Submitters)]
  /\ pc \in [Submitters -> {"idle", "mark", "xadd", "release"}]
  /\ job \in [Submitters -> Jobs \union {NoJob}]
  /\ \A s \in Submitters : pc[s] = "idle" <=> job[s] = NoJob
  /\ retries \in 0 .. MaxRetries /\ errors \in 0 .. MaxErrors /\ crashes \in 0 .. MaxCrashes

(***************************************************************************)
(* The marker closes the gap the check-then-XADD of two callers leaves: a  *)
(* job that is on its way is not enqueued again (submission.py:16-31).  A  *)
(* call whose outcome the submitter misreads costs one entry and no more.  *)
(***************************************************************************)
OneEntryPerJob == \A j \in Jobs : backlog[j] + (IF j \in delayed THEN 1 ELSE 0) <= 1 + errors

(***************************************************************************)
(* The backlog check and the XADD are two steps and promotion asks nobody: *)
(* the limit is overshot, but by no more than one job for each other       *)
(* submitter, one for each scheduled retry and one for each failed call.   *)
(***************************************************************************)
BacklogBounded ==
  Outstanding <= MaxOutstanding + (Cardinality(Submitters) - 1) + retries + errors

(***************************************************************************)
(* A caller that is told ENQUEUED or DUPLICATE_SUPPRESSED can forget the   *)
(* candidate: a submission of it reached the stream, or is about to.  That *)
(* is what releasing the marker after a failed XADD is for                 *)
(* (submission.py:138-140).                                                *)
(***************************************************************************)
Submitted(j) == j \in everQueued \/ \E s \in Submitters : job[s] = j /\ pc[s] = "xadd"

ToldMeansQueued == \A j \in told : Submitted(j)

(***************************************************************************)
(* The process may die and calls may fail between SET NX and XADD, before  *)
(* or after Redis applied them.  Each such fault costs one candidate its   *)
(* promise at most: a marker without a submission behind it, or a caller   *)
(* that was told of one, is explained by a fault of its own, however many  *)
(* callers share the marker (submission.py:121-142).                       *)
(***************************************************************************)
Unkept == {j \in told \union marker : ~Submitted(j)}

OneLossPerFault == Cardinality(Unkept) <= errors + crashes

(***************************************************************************)
(* Whatever fails between SET NX and XADD only delays a candidate: the     *)
(* marker it leaves behind expires, and the next offer gets through.       *)
(***************************************************************************)
EveryCandidateQueued == \A j \in Jobs : <>(j \in everQueued)
=============================================================================
