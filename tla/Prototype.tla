------------------------------ MODULE Prototype ------------------------------
(***************************************************************************)
(* The prototype kept under src/old: workers that share the crawler's      *)
(* SQLite queue (work_queue/crawler_media_queue.py), one metadata database *)
(* (storage/processing_metadata_store.py) and one download directory, and  *)
(* the retention policies that delete files from it.                       *)
(*                                                                         *)
(* Every database call commits on its own: a job is a run of steps, and    *)
(* another worker, an exception or a crash may come between any two. A     *)
(* call whose commit fails leaves its statement to the next commit of its  *)
(* connection. No write names the worker that claimed the job.             *)
(***************************************************************************)
EXTENDS Integers, Sequences, FiniteSetsExt

CONSTANTS
  Workers, Assets, NoAsset,
  DomainOf,       (* media_assets.source_domain, NoDomain when unknown     *)
  NoDomain,
  Urgent,         (* the assets whose own priority is as good as a boost   *)
  MaxRetries,     (* queue.max_retry_count                                 *)
  MaxRejected,    (* storage_policy.max_rejected_files                     *)
  KeepNonMatches, (* --keep-non-matches                                    *)
  Threshold,      (* pipeline.short_video_threshold_seconds                *)
  MaxClaims,      (* bound: claims, of all jobs                            *)
  MaxFaults       (* bound: crashes, exceptions, failing deletions, clears *)

ASSUME PrototypeAssumption ==
  /\ NoAsset \notin Assets /\ Urgent \subseteq Assets
  /\ DomainOf \in [Assets -> {DomainOf[a] : a \in Assets}]
  /\ {MaxRetries, MaxRejected, MaxClaims, MaxFaults} \subseteq Nat
  /\ KeepNonMatches \in BOOLEAN /\ Threshold \in Int

VARIABLES
  job,      (* sample_jobs: status and retry_count                         *)
  boosted,  (* the assets whose priority was raised                        *)
  task,     (* compare_tasks: the status under queue_asset:<id>            *)
  rows,     (* processed_assets, in the order they were created            *)
  matches,  (* piracy_matches: how many rows an asset has                  *)
  files,    (* the assets whose download is on disk                        *)
  pc, mine, (* where a worker is, and the asset it works on                *)
  verdict,  (* what its process_job decided                                *)
  seen,     (* the retry_count it read                                     *)
  stale,    (* the claims its start found too old                          *)
  todo,     (* the rows its retention policy still has to look at          *)
  surplus,  (* total_count of RejectedFileRetentionPolicy.enforce          *)
  claims,   (* how many claims there were                                  *)
  faults,   (* how many faults there were                                  *)
  blame     (* history: what befell the processing of an asset             *)

tables == <<job, boosted, task, rows, matches>>
local == <<pc, mine, verdict, seen, stale, todo, surplus>>
history == <<claims, faults, blame>>
vars == <<tables, files, local, history>>

---------------------------------------------------------------------------
(* The gates and verdicts of process_job.                                  *)

\* should_reject_non_video: what a media type and a URL may say of an asset.
Media == {"onion", "other_type", "image_name", "video_name", "unknown_name"}
RejectsNonVideo(media) == media \in {"onion", "other_type", "image_name"}

\* get_media_probe: a duration, or Unknown when neither ffprobe nor ffmpeg tells.
Unknown == -1
Durations == {Unknown, Threshold - 1, Threshold} \intersect ({Unknown} \union Nat)

\* should_reject_for_short_duration: -1 disables the gate, less is no threshold.
TooShort(duration) == Threshold >= 0 /\ duration # Unknown /\ duration < Threshold

\* VideoDownloader.download: whatever fails removes the file it was writing to,
\* except a scheme it does not know, which it refuses before.
Transfers == {"copied", "fetched", "source_missing", "denied", "timeout", "connection",
              "http_error", "disk_full", "unknown_scheme"}
Fetched(transfer) == transfer \in {"copied", "fetched"}
Discarded(transfer) == ~Fetched(transfer) /\ transfer # "unknown_scheme"

\* run_dinov2_fingerprint: from what the metrics say of the score and the best run.
FinalStatus(scored, qualifies, score) ==
  IF ~scored THEN "failed"
  ELSE IF qualifies /\ score = "high" THEN "matched"
  ELSE IF score = "low" THEN "no_match_pending_review"
  ELSE "uncertain_manual_review"

Rejections == {"rejected_non_video", "rejected_too_short"}
Verdicts == {FinalStatus(s, q, sc) : s, q \in BOOLEAN, sc \in {"low", "middle", "high"}}
Decided == Rejections \union Verdicts
Statuses == {"pending", "claimed"} \union Decided

---------------------------------------------------------------------------
(* Slips the runs must notice: wrong versions of operators below.          *)
NonMatchingAll == Rejections \union {"matched", "no_match_pending_review", "failed"}
AnyUnfinished(a) == job[a].status \in {"pending", "claimed"}
NotClaimed(a) == job[a].status # "claimed"
AfterTaskNoMatch(v) == IF KeepNonMatches THEN "done" ELSE "sweep_list"
EnoughLate(w) == pc[w] = "enforce" /\ surplus[w] <= MaxRejected + 1
FailTaskSilently(w) ==
  /\ pc[w] = "fail_task" /\ pc' = [pc EXCEPT ![w] = "fail_read"]
  /\ UNCHANGED <<tables, files, mine, verdict, seen, stale, todo, surplus, history>>

---------------------------------------------------------------------------
(* The tables.                                                             *)
Paths == {"none", "local"}
Row(a, path, decision) == [asset |-> a, path |-> path, decision |-> decision, deleted |-> FALSE]

\* record_asset: an existing row keeps its deleted_at.
Upsert(a, path, decision) ==
  IF \E i \in DOMAIN rows : rows[i].asset = a /\ rows[i].path = path
  THEN [i \in DOMAIN rows |-> IF rows[i].asset = a /\ rows[i].path = path
                              THEN [rows[i] EXCEPT !.decision = decision] ELSE rows[i]]
  ELSE Append(rows, Row(a, path, decision))

\* list_rejected_not_deleted and list_non_matching_not_deleted. They come oldest
\* first: the list is the set of its rows, and Oldest is the next one of them.
Listed(decisions) == {i \in DOMAIN rows : rows[i].decision \in decisions /\ ~rows[i].deleted}
NonMatching == Rejections \union {"no_match_pending_review", "failed"}

\* update_job_status: no condition on who claimed the job, or what became of it.
SetStatus(a, status) == [job EXCEPT ![a].status = status]

Init ==
  /\ job = [a \in Assets |-> [status |-> "pending", retries |-> 0]]
  /\ boosted = {} /\ task = [a \in Assets |-> "none"]
  /\ rows = <<>> /\ matches = [a \in Assets |-> 0] /\ files = {}
  /\ pc = [w \in Workers |-> "off"] /\ mine = [w \in Workers |-> NoAsset]
  /\ verdict = [w \in Workers |-> "failed"] /\ seen = [w \in Workers |-> 0]
  /\ stale = [w \in Workers |-> {}] /\ todo = [w \in Workers |-> {}]
  /\ surplus = [w \in Workers |-> 0]
  /\ claims = 0 /\ faults = 0 /\ blame = [a \in Assets |-> {}]

Goto(w, s) == pc' = [pc EXCEPT ![w] = s]
Fault == faults < MaxFaults /\ faults' = faults + 1
Blame(as, why) == blame' = [a \in Assets |-> IF a \in as THEN blame[a] \union {why} ELSE blame[a]]

\* From its claim to the write that decides the job, a worker takes it for its own.
Undecided == {"start", "gate", "download", "probe", "pipeline", "decide", "fail_task", "fail_read",
              "fail_write"}
Owns(w, a) == mine[w] = a /\ pc[w] \in Undecided
Held(a) == \E w \in Workers : mine[w] = a

---------------------------------------------------------------------------
(* A process starts, recovers what looks abandoned, and claims.            *)

\* --no-resume-unfinished skips the recovery.
Start(w, resume) ==
  /\ pc[w] = "off"
  /\ Goto(w, IF resume THEN "scan" ELSE "loop")
  /\ UNCHANGED <<tables, files, mine, verdict, seen, stale, todo, surplus, history>>

\* requeue_stale_claimed_jobs: first a SELECT of the claims that are too old ...
Scan(w, old) ==
  /\ pc[w] = "scan"
  /\ old \subseteq {a \in Assets : job[a].status = "claimed"}
  /\ stale' = [stale EXCEPT ![w] = old]
  /\ Goto(w, IF old = {} THEN "loop" ELSE "requeue")
  /\ UNCHANGED <<tables, files, mine, verdict, seen, todo, surplus, history>>

\* ... then an UPDATE of each of them, whatever its status is by now.
Requeue(w) ==
  /\ pc[w] = "requeue"
  /\ job' = [a \in Assets |-> IF a \in stale[w] THEN [job[a] EXCEPT !.status = "pending"]
                                              ELSE job[a]]
  /\ Blame({a \in stale[w] : job[a].status # "claimed" \/ Held(a)}, "overlap")
  /\ stale' = [stale EXCEPT ![w] = {}]
  /\ Goto(w, "loop")
  /\ UNCHANGED <<boosted, task, rows, matches, files, mine, verdict, seen, todo, surplus,
                 claims, faults>>

\* ORDER BY priority: a boosted job comes before all but those as urgent as it.
Claimable(a) == job[a].status = "pending"
MayClaim(a) ==
  Claimable(a) /\ \A b \in Assets : Claimable(b) /\ b \in boosted => a \in boosted \union Urgent

\* claim_job: BEGIN IMMEDIATE makes the SELECT and the UPDATE one step.
Claim(w, a) ==
  /\ pc[w] = "loop" /\ MayClaim(a) /\ claims < MaxClaims
  /\ job' = SetStatus(a, "claimed")
  /\ mine' = [mine EXCEPT ![w] = a]
  /\ claims' = claims + 1
  /\ Goto(w, "start")
  /\ UNCHANGED <<boosted, task, rows, matches, files, verdict, seen, stale, todo, surplus,
                 faults, blame>>

\* max_jobs is reached, or nothing is pending.
Stop(w) ==
  /\ pc[w] = "loop"
  /\ Goto(w, "off")
  /\ UNCHANGED <<tables, files, mine, verdict, seen, stale, todo, surplus, history>>

---------------------------------------------------------------------------
(* process_job.                                                            *)

StartTask(w) ==
  /\ pc[w] = "start"
  /\ task' = [task EXCEPT ![mine[w]] = "in_progress"]
  /\ Goto(w, "gate")
  /\ UNCHANGED <<job, boosted, rows, matches, files, mine, verdict, seen, stale, todo, surplus,
                 history>>

\* update_job_status of a rejection, whose row, task and retention follow.
Reject(w, decision) ==
  /\ job' = SetStatus(mine[w], decision)
  /\ verdict' = [verdict EXCEPT ![w] = decision]
  /\ Goto(w, "reject_row")

Gate(w, media) ==
  /\ pc[w] = "gate"
  /\ IF RejectsNonVideo(media)
     THEN Reject(w, "rejected_non_video")
     ELSE Goto(w, "download") /\ UNCHANGED <<job, verdict>>
  /\ UNCHANGED <<boosted, task, rows, matches, files, mine, seen, stale, todo, surplus, history>>

Download(w, transfer) ==
  /\ pc[w] = "download"
  /\ files' = IF Fetched(transfer) THEN files \union {mine[w]}
              ELSE IF Discarded(transfer) THEN files \ {mine[w]} ELSE files
  /\ Goto(w, IF Fetched(transfer) THEN "probe" ELSE "fail_task")
  /\ UNCHANGED <<tables, mine, verdict, seen, stale, todo, surplus, history>>

Probe(w, duration) ==
  /\ pc[w] = "probe"
  /\ mine[w] \notin files => duration = Unknown
  /\ IF TooShort(duration)
     THEN Reject(w, "rejected_too_short")
     ELSE Goto(w, "pipeline") /\ UNCHANGED <<job, verdict>>
  /\ UNCHANGED <<boosted, task, rows, matches, files, mine, seen, stale, todo, surplus, history>>

RejectRow(w) ==
  /\ pc[w] = "reject_row"
  /\ rows' = Upsert(mine[w], IF verdict[w] = "rejected_non_video" THEN "none" ELSE "local",
                    verdict[w])
  /\ Goto(w, "reject_task")
  /\ UNCHANGED <<job, boosted, task, matches, files, mine, verdict, seen, stale, todo, surplus,
                 history>>

\* complete_compare_task of a rejection.
RejectTask(w) ==
  /\ pc[w] = "reject_task"
  /\ task' = [task EXCEPT ![mine[w]] = "completed"]
  /\ Goto(w, "enforce_list")
  /\ UNCHANGED <<job, boosted, rows, matches, files, mine, verdict, seen, stale, todo, surplus,
                 history>>

\* _run_pipeline_for_candidate: the target's index, or the titles without a target.
Pipeline(w, v) ==
  /\ pc[w] = "pipeline"
  /\ verdict' = [verdict EXCEPT ![w] = v]
  /\ Goto(w, "decide")
  /\ UNCHANGED <<tables, files, mine, seen, stale, todo, surplus, history>>

\* mark_match or update_job_status.
Decide(w) ==
  /\ pc[w] = "decide"
  /\ job' = SetStatus(mine[w], verdict[w])
  /\ Goto(w, IF verdict[w] = "matched" /\ DomainOf[mine[w]] # NoDomain THEN "boost" ELSE "run")
  /\ UNCHANGED <<boosted, task, rows, matches, files, mine, verdict, seen, stale, todo, surplus,
                 history>>

\* boost_domain_priority of what is not as urgent, and record_crawler_feedback after it.
Boost(w) ==
  /\ pc[w] = "boost"
  /\ boosted' = boosted \union {a \in Assets \ Urgent : job[a].status = "pending"
                                                      /\ DomainOf[a] = DomainOf[mine[w]]}
  /\ Goto(w, "run")
  /\ UNCHANGED <<job, task, rows, matches, files, mine, verdict, seen, stale, todo, surplus,
                 history>>

\* _persist_pipeline_result: the run and its stages (tables nobody reads), ...
CreateRun(w) ==
  /\ pc[w] = "run"
  /\ Goto(w, "row")
  /\ UNCHANGED <<tables, files, mine, verdict, seen, stale, todo, surplus, history>>

\* ... the row of the asset, ...
RecordRow(w) ==
  /\ pc[w] = "row"
  /\ rows' = Upsert(mine[w], "local", verdict[w])
  /\ Goto(w, "complete")
  /\ UNCHANGED <<job, boosted, task, matches, files, mine, verdict, seen, stale, todo, surplus,
                 history>>

AfterTask(v) ==
  IF v = "matched" THEN "match" ELSE IF KeepNonMatches THEN "done" ELSE "sweep_list"

\* ... and the task.
CompleteTask(w) ==
  /\ pc[w] = "complete"
  /\ task' = [task EXCEPT ![mine[w]] = "completed"]
  /\ Goto(w, AfterTask(verdict[w]))
  /\ UNCHANGED <<job, boosted, rows, matches, files, mine, verdict, seen, stale, todo, surplus,
                 history>>

RecordMatch(w) ==
  /\ pc[w] = "match"
  /\ matches' = [matches EXCEPT ![mine[w]] = @ + 1]
  /\ Goto(w, "done")
  /\ UNCHANGED <<job, boosted, task, rows, files, mine, verdict, seen, stale, todo, surplus,
                 history>>

\* The INSERT's commit raises: its row waits in the open transaction, and comes
\* with the commit of fail_compare_task.
MatchCommitFails(w) ==
  /\ pc[w] = "match"
  /\ matches' = [matches EXCEPT ![mine[w]] = @ + 1]
  /\ Goto(w, "fail_task")
  /\ Fault /\ blame' = [blame EXCEPT ![mine[w]] = @ \union {"raise", "commit"}]
  /\ UNCHANGED <<job, boosted, task, rows, files, mine, verdict, seen, stale, todo, surplus,
                 claims>>

Done(w) ==
  /\ pc[w] = "done"
  /\ mine' = [mine EXCEPT ![w] = NoAsset]
  /\ Goto(w, "loop")
  /\ UNCHANGED <<tables, files, verdict, seen, stale, todo, surplus, history>>

---------------------------------------------------------------------------
(* storage/file_retention.py: a list is read, then its rows in turn.       *)

\* delete_non_matching_assets and enforce.
List(w) ==
  /\ pc[w] \in {"sweep_list", "enforce_list"}
  /\ LET sweep == pc[w] = "sweep_list"
         ids == Listed(IF sweep THEN NonMatching ELSE Rejections) IN
       /\ todo' = [todo EXCEPT ![w] = ids]
       /\ surplus' = [surplus EXCEPT ![w] = Cardinality(ids)]
       /\ Goto(w, IF sweep THEN "sweep" ELSE "enforce")
  /\ UNCHANGED <<tables, files, mine, verdict, seen, stale, history>>

\* The limit on the files that are kept; a sweep has none, nor has the policy's
\* limit on their bytes a place here. delete_rejected_overflow is on, as by default.
Enough(w) == pc[w] = "enforce" /\ surplus[w] <= MaxRejected

Swept(w) ==
  /\ pc[w] \in {"sweep", "enforce"}
  /\ todo[w] = {} \/ Enough(w)
  /\ todo' = [todo EXCEPT ![w] = {}] /\ surplus' = [surplus EXCEPT ![w] = 0]
  /\ Goto(w, "done")
  /\ UNCHANGED <<tables, files, mine, verdict, seen, stale, history>>

Oldest(w) == Min(todo[w])
NextRow(w) == rows[Oldest(w)]
Skip(w) == todo' = [todo EXCEPT ![w] = @ \ {Oldest(w)}]

\* The file goes first, its row is marked in the next step. A row without a path
\* has no file for a sweep; enforce takes "" for the current directory, which it
\* cannot unlink, so it passes the row by.
OnDisk(w) == NextRow(w).path = "local" /\ NextRow(w).asset \in files
PassedBy(w) == pc[w] = "enforce" /\ NextRow(w).path = "none"

Unlink(w) ==
  /\ pc[w] \in {"sweep", "enforce"} /\ todo[w] # {} /\ ~Enough(w)
  /\ IF PassedBy(w)
     THEN Skip(w) /\ UNCHANGED <<pc, files>>
     ELSE /\ files' = IF OnDisk(w) THEN files \ {NextRow(w).asset} ELSE files
          /\ Goto(w, IF pc[w] = "sweep" THEN "sweep_mark" ELSE "enforce_mark")
          /\ UNCHANGED todo
  /\ UNCHANGED <<tables, mine, verdict, seen, stale, surplus, history>>

\* The file cannot be unlinked: the policy goes on with the next row.
UnlinkFails(w) ==
  /\ pc[w] \in {"sweep", "enforce"} /\ todo[w] # {} /\ ~Enough(w) /\ OnDisk(w)
  /\ Skip(w)
  /\ Fault /\ Blame({NextRow(w).asset}, "kept")
  /\ UNCHANGED <<tables, files, pc, mine, verdict, seen, stale, surplus, claims>>

MarkDeleted(w) ==
  /\ pc[w] \in {"sweep_mark", "enforce_mark"}
  /\ rows' = [rows EXCEPT ![Oldest(w)].deleted = TRUE]
  /\ surplus' = [surplus EXCEPT ![w] = @ - 1]
  /\ Skip(w)
  /\ Goto(w, IF pc[w] = "sweep_mark" THEN "sweep" ELSE "enforce")
  /\ UNCHANGED <<job, boosted, task, matches, files, mine, verdict, seen, stale, history>>

\* The row cannot be marked: the policy goes on, but for a row without a path,
\* whose exception a sweep does not catch.
MarkFails(w) ==
  /\ pc[w] \in {"sweep_mark", "enforce_mark"} /\ Fault
  /\ IF NextRow(w).path = "local"
     THEN /\ Skip(w) /\ UNCHANGED <<surplus, blame>>
          /\ Goto(w, IF pc[w] = "sweep_mark" THEN "sweep" ELSE "enforce")
     ELSE /\ todo' = [todo EXCEPT ![w] = {}] /\ surplus' = [surplus EXCEPT ![w] = 0]
          /\ Goto(w, "fail_task") /\ Blame({mine[w]}, "raise")
  /\ UNCHANGED <<tables, files, mine, verdict, seen, stale, claims>>

---------------------------------------------------------------------------
(* run_once: any exception of process_job, wherever it was.                *)
Raising == {"start", "gate", "download", "probe", "reject_row", "reject_task", "pipeline", "decide",
            "boost", "run", "row", "complete", "match", "sweep_list", "enforce_list"}

Raise(w) ==
  /\ pc[w] \in Raising
  /\ Goto(w, "fail_task")
  /\ Fault /\ Blame(IF pc[w] \in Undecided THEN {} ELSE {mine[w]}, "raise")
  /\ UNCHANGED <<tables, files, mine, verdict, seen, stale, todo, surplus, claims>>

FailTask(w) ==
  /\ pc[w] = "fail_task"
  /\ task' = [task EXCEPT ![mine[w]] = IF @ = "none" THEN @ ELSE "failed"]
  /\ Goto(w, "fail_read")
  /\ UNCHANGED <<job, boosted, rows, matches, files, mine, verdict, seen, stale, todo, surplus,
                 history>>

\* mark_failed_or_retry: the count is read, then written with the status.
FailRead(w) ==
  /\ pc[w] = "fail_read"
  /\ seen' = [seen EXCEPT ![w] = job[mine[w]].retries]
  /\ Goto(w, "fail_write")
  /\ UNCHANGED <<tables, files, mine, verdict, stale, todo, surplus, history>>

AfterFailure(retries) == IF retries <= MaxRetries THEN "pending" ELSE "failed"

FailWrite(w) ==
  /\ pc[w] = "fail_write"
  /\ LET status == AfterFailure(seen[w] + 1) IN
       /\ job' = [job EXCEPT ![mine[w]] = [status |-> status, retries |-> seen[w] + 1]]
       /\ verdict' = [verdict EXCEPT ![w] = status]
  /\ seen' = [seen EXCEPT ![w] = 0]
  /\ Goto(w, "fail_row")
  /\ UNCHANGED <<boosted, task, rows, matches, files, mine, stale, todo, surplus, history>>

\* A slip: the status is read again when it is recorded.
FailRowRereads(w) ==
  /\ pc[w] = "fail_row" /\ Goto(w, "done")
  /\ rows' = Upsert(mine[w], "none", job[mine[w]].status)
  /\ verdict' = [verdict EXCEPT ![w] = "failed"]
  /\ UNCHANGED <<job, boosted, task, matches, files, mine, seen, stale, todo, surplus, history>>

FailRow(w) ==
  /\ pc[w] = "fail_row"
  /\ rows' = Upsert(mine[w], "none", verdict[w])
  /\ verdict' = [verdict EXCEPT ![w] = "failed"]
  /\ Goto(w, "done")
  /\ UNCHANGED <<job, boosted, task, matches, files, mine, seen, stale, todo, surplus, history>>

---------------------------------------------------------------------------
(* The process dies, of a kill or of an exception run_once has no answer   *)
(* to; a download it was in the middle of leaves a part of the file.       *)
Crash(w, part) ==
  /\ pc[w] # "off"
  /\ part => pc[w] = "download"
  /\ files' = IF part THEN files \union {mine[w]} ELSE files
  /\ Fault /\ Blame({mine[w]} \ {NoAsset}, "crash")
  /\ pc' = [pc EXCEPT ![w] = "off"] /\ mine' = [mine EXCEPT ![w] = NoAsset]
  /\ verdict' = [verdict EXCEPT ![w] = "failed"] /\ seen' = [seen EXCEPT ![w] = 0]
  /\ stale' = [stale EXCEPT ![w] = {}] /\ todo' = [todo EXCEPT ![w] = {}]
  /\ surplus' = [surplus EXCEPT ![w] = 0]
  /\ UNCHANGED <<tables, claims>>

\* --clear-assets: every file of the download directory, and the rows that name them.
ClearAssets(w) ==
  /\ pc[w] = "off" /\ files # {}
  /\ rows' = [i \in DOMAIN rows |-> IF rows[i].path = "local" /\ rows[i].asset \in files
                                    THEN [rows[i] EXCEPT !.deleted = TRUE] ELSE rows[i]]
  /\ files' = {}
  /\ Fault /\ Blame(files, "cleared")
  /\ UNCHANGED <<job, boosted, task, matches, local, claims>>

---------------------------------------------------------------------------
Work(w) ==
  \/ \E old \in SUBSET Assets : Scan(w, old)
  \/ Requeue(w)
  \/ \E a \in Assets : Claim(w, a)
  \/ StartTask(w)
  \/ \E media \in Media : Gate(w, media)
  \/ \E transfer \in Transfers : Download(w, transfer)
  \/ \E duration \in Durations : Probe(w, duration)
  \/ RejectRow(w) \/ RejectTask(w)
  \/ \E v \in Verdicts : Pipeline(w, v)
  \/ Decide(w) \/ Boost(w) \/ CreateRun(w) \/ RecordRow(w) \/ CompleteTask(w)
  \/ RecordMatch(w) \/ MatchCommitFails(w)
  \/ List(w) \/ Swept(w) \/ Unlink(w) \/ UnlinkFails(w) \/ MarkDeleted(w) \/ MarkFails(w)
  \/ Raise(w) \/ FailTask(w) \/ FailRead(w) \/ FailWrite(w) \/ FailRow(w)
  \/ Done(w)

Next ==
  \E w \in Workers :
    \/ \E resume \in BOOLEAN : Start(w, resume)
    \/ Work(w) \/ Stop(w) \/ ClearAssets(w)
    \/ \E part \in BOOLEAN : Crash(w, part)

Spec == Init /\ [][Next]_vars

---------------------------------------------------------------------------
PCs == Undecided \union Raising \union
         {"off", "scan", "requeue", "loop", "done", "sweep", "sweep_mark", "enforce", "enforce_mark",
          "fail_row"}

(* Every variable has the values its comment says.                         *)
TypeOK ==
  /\ job \in [Assets -> [status : Statuses, retries : Nat]]
  /\ boosted \subseteq Assets /\ task \in [Assets -> {"none", "in_progress", "completed", "failed"}]
  /\ rows \in Seq([asset : Assets, path : Paths, decision : Statuses \ {"claimed"},
                   deleted : BOOLEAN])
  /\ matches \in [Assets -> Nat] /\ files \subseteq Assets
  /\ pc \in [Workers -> PCs] /\ mine \in [Workers -> Assets \union {NoAsset}]
  /\ verdict \in [Workers -> Decided \union {"pending"}] /\ seen \in [Workers -> Nat]
  /\ stale \in [Workers -> SUBSET Assets] /\ todo \in [Workers -> SUBSET DOMAIN rows]
  /\ surplus \in [Workers -> Nat] /\ claims \in 0 .. MaxClaims /\ faults \in 0 .. MaxFaults
  /\ blame \in [Assets -> SUBSET {"overlap", "raise", "commit", "crash", "cleared", "kept"}]

(* Two workers work on an asset at once only after a start requeued it     *)
(* under a worker that was slow and not dead: the lock of claim_job is all *)
(* that keeps them apart (crawler_media_queue.py:97-137).                  *)
SoleOwner ==
  \A v, w \in Workers, a \in Assets :
    v # w /\ Owns(v, a) /\ Owns(w, a) => "overlap" \in blame[a]

(* The decision on a job is changed only by a requeue that overlapped it,  *)
(* or by run_once's handler after an exception that came once it was       *)
(* written (fingerprint_worker.py:608-684, 829-851); no crash undoes one.  *)
DecisionStands ==
  [][\A a \in Assets :
       job[a].status \in Decided /\ job'[a].status # job[a].status =>
         blame'[a] \intersect {"overlap", "raise"} # {}]_vars

(* A job marked as matched has exactly one row of evidence once nobody     *)
(* works on it: none only if a crash came in between, several only if two  *)
(* workers overlapped or the commit of one failed and the retry found a    *)
(* match again (fingerprint_worker.py:621-684; piracy_matches has no key   *)
(* on the asset, processing_metadata_store.py:249-266).                    *)
MatchRecordedOnce ==
  \A a \in Assets :
    /\ matches[a] > 1 => blame[a] \intersect {"overlap", "commit"} # {}
    /\ job[a].status = "matched" /\ ~Held(a) /\ matches[a] = 0 =>
         blame[a] \intersect {"crash", "overlap"} # {}

(* The files are what the rows say: a matched asset still has its file     *)
(* ("retaining matched evidence", file_retention.py:62), a row marked as   *)
(* deleted has none, unless the asset was worked on twice or the operator  *)
(* cleared the directory.                                                  *)
FilesMatchRows ==
  \A i \in DOMAIN rows :
    LET a == rows[i].asset IN
      rows[i].path = "local" /\ ~Held(a) =>
        \/ IF rows[i].decision = "matched" THEN a \in files ELSE rows[i].deleted => a \notin files
        \/ blame[a] \intersect {"overlap", "raise", "cleared"} # {}

(* Once no worker is rejecting, at most max_rejected_files rejected        *)
(* downloads are on disk, in whatever order workers listed and deleted     *)
(* them, unless a fault befell one of them (file_retention.py:26-59).      *)
Rejecting == {"reject_row", "reject_task", "enforce_list", "enforce", "enforce_mark"}
RejectedOnDisk ==
  {a \in files : \E i \in DOMAIN rows :
     rows[i].asset = a /\ rows[i].path = "local" /\ rows[i].decision \in Rejections}

RetentionBounded ==
  (\A w \in Workers : pc[w] \notin Rejecting) /\ (\A a \in RejectedOnDisk : blame[a] = {}) =>
    Cardinality(RejectedOnDisk) <= MaxRejected

(* The two databases agree on an asset nobody works on. Its comparison is  *)
(* completed only if the job was decided, whatever exceptions came, early  *)
(* or late, and whoever died. Unless a worker died on it, it is failed     *)
(* only if an exception sent the job back or ended it, and never left in   *)
(* progress (fingerprint_worker.py:537-686, 829-851). A comparison without *)
(* a score is completed too, though old/usage.md:58 has it as failed.      *)
TasksAgree ==
  \A a \in Assets :
    ~Held(a) /\ "overlap" \notin blame[a] =>
      /\ task[a] = "completed" => job[a].status \in Decided
      /\ \/ "crash" \in blame[a]
         \/ task[a] = "none" /\ (job[a].status = "pending" \/ job[a].retries > 0)
         \/ task[a] = "completed"
         \/ task[a] = "failed" /\ job[a].status \in {"pending", "failed"} /\ job[a].retries > 0
=============================================================================
