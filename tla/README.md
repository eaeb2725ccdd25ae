# TLA+ specifications of the fingerprinter

This directory holds models of the distributed parts of the fingerprinter and of its
matching algorithm, the TLC configurations that check them on small instances, and proofs
for instances of every size. Paths below are relative to the root of the repository;
line numbers refer to the revision the models were written from. `PROJECT.json` maps every
definition that stands for code to its lines.

## 1. The system

A crawler offers *candidates* (a URL that may hold a copy of a registered *target*). A
submitter turns each into a job on a Redis stream. Worker processes on any number of hosts
claim jobs, download and embed the candidate, fetch or build the embedding of the target,
compare the two and commit a result. Operators register, patch and delete targets meanwhile.

| Part | Source | State it keeps | Operations | What is hard |
|---|---|---|---|---|
| Job queue and worker loop | `worker/fingerprint_worker.py`, `work_queue/` | stream and consumer group, PEL, retry ZSET, state hash, result hash, results stream, match index | enqueue, claim, reclaim, mark, reject, complete, commit, retry, fail, promote, stop | several calls per claim, leases nobody renews, crashes between calls, replies lost and commands re-sent, duplicates |
| Lifecycle as a caller sees it | `integration/outcome.py` | none | `resolve_outcome` | terminal outcomes must be final |
| Submission | `integration/submission.py`, `backpressure.py` | submission marker with TTL | `submit` | check, marker and XADD are three calls; any may fail after it was applied |
| Target registry | `target/registry.py`, `service.py` | record hash, content index, list index, shared media | register, update, delete, reindex | locks per target, shared media across targets, crashes between writes |
| Lock | `target/lock.py` | one key with a token and a TTL | acquire, release | expiry under a live holder |
| Segment build and cache | `target/registry.py:500-571`, `target/build.py`, `target/*cache.py` | cache files, summary hash | get or build | build once, replaced targets, failing winners |
| Temporal matcher | `matching/matcher.py` | none | `match_segments` | ties, tolerances, gaps |
| Aggregation | `matching/aggregation.py` | none | `combine` | nothing concurrent |
| Matching handler, acquisition | `worker/matching_handler.py`, `acquisition/`, `embedding/frames.py` | temporary files | `handler`, `acquire`, `embed_video_segments` | checks on every redirect, which exception ends where, clean-up on every path |
| Shared storage | `target/shared_storage.py` | published media | publish, delete, `fetch_to_temp` | the shared directory may be gone |
| Worker process | `worker/main.py`, `worker/observability.py` | counters, console table, startup marker, run record | start, run, stop, end | signals and kills at any step, writes that fail |
| Prototype | `old/` | SQLite queue, metadata database, download directory | claim, process, requeue, retain | no write names the claim's owner, two databases, files |
| Embedding engine | `embedding/dinov2_engine.py` | none | `embed_video_segments` | numerical |
| Queue administration, command line, benchmarks | `work_queue/admin.py`, `target/cli.py`, `benchmark*/` | none of their own | clear, print, measure | nothing |

They interact through Redis and shared storage only: the submitter reads the backlog of the
group the workers consume and XADDs to their stream; a worker's handler calls the registry,
which shares its records, locks and cache with the operators' tools; a caller reads the
state and result hashes the worker scripts write. A monitor reads the marker and the run
record of a worker process from its directory. The prototype of `old/` shares nothing with
the rest: its workers meet in the crawler's SQLite file, their own metadata database and one
download directory. `README.md:57` and `docs/development.md:23` keep it as a reference.

What makes each part correct:

- queue: no job is lost, one worker handles a job at a time, every job ends in one outcome
  that is announced exactly as stored, malformed entries never reach a handler;
- submission: a job that is on its way is not enqueued again, the backlog is bounded, a
  candidate that was reported as taken care of was;
- registry: the two indexes say what the records say, a refused registration writes
  nothing, a patch never changes content, shared media outlives its last user only;
- build: one build per content at a time and none too many, entries hold the segments of
  the content they are named after, a target is built in the end;
- matcher: what it reports is one temporal alignment, and it misses nothing longer;
- handler: nothing is asked before it was checked, and no file outlives its call but in the
  ways the code has;
- process: a stop ends it in order, its counters add up, and its files tell a crash from an
  end;
- prototype: one worker decides a job, a decision stands, a match is recorded once, files
  and rows agree, the limit on rejected files is kept.

## 2. Modules

| Module | Models | How state and actions correspond |
|---|---|---|
| `FingerprintWorker` | the stream, one consumer group, the run loop of its workers | one variable per Redis structure and per local of the loop; a Redis command or Lua script is one action; `pc` names the place in `run()` |
| `JobLifecycle` | what a caller is promised | phases of a job, its attempts, what was published; `FingerprintWorker` implements it through `Phase` |
| `Submission` | `submit()` call by call, with the fleet reduced to what it does to the backlog | `Admit` is the backpressure check, `Mark` the `SET NX EX`, `Xadd`, `Release` the `except` branch |
| `TargetRegistry` | register, update, delete, reindex under the lifecycle lock | one action per Redis command, pipeline or file operation, two indexes and the media store as sets |
| `TargetBuild` | `get_or_build_segment_embedding` while operators replace and delete the target | one action per read of the record, lookup of the cache, lock operation, build and write |
| `TemporalMatcher` | `match_segments` | one variable per local, one action per paragraph, over a matrix of scores |
| `MatchingHandler` | one call of the handler after another, from the first hop of the URL to `cleanup` | `stage` names the statement reached; what the web, ffprobe, ffmpeg, the model and the store answer is the parameter of an action, what the code makes of it an operator (`CheckHop`, `ClassifyStatus`, `AcquisitionFailure`, `TargetFailure`); `temps` are the files in the temporary directory |
| `WorkerProcess` | extends `MatchingHandler` with `main()`, `Worker.run`, the observer and signals | `proc` names the statement of `main` or `run`; the queue is reduced to what a fetch hands over and whether a finalize is fenced off |
| `Prototype` | workers of `old/` | one action per database call or file operation, since each commits on its own; `blame` is a history variable that says what befell the processing of an asset |
| `FingerprintWorkerProofs`, `FingerprintWorkerLeaseProofs`, `SubmissionProofs`, `TargetRegistryProofs`, `TargetBuildProofs`, `TemporalMatcherProofs`, `WorkerProcessProofs`, `PrototypeProofs` | theorems | see section 5 |
| `MC*` | instances for TLC | symmetry, configurations, bounded inputs |

Abstractions worth knowing. A payload of a job is one value, because a retry XADDs the very
fields the job came with and a ZSET member is that text. A stream entry id is its position.
Time is an action: `LeaseExpires`, `BackoffElapses`, `LockExpires`, `MarkerExpires`. The
handler is its outcome, chosen by the configuration. A cosine similarity is a score, of
which only the order and the threshold matter; scores are integers, so the mean of scores
that all reach the threshold does so too, which rounding may break for floats. A cache write
is atomic, because both caches write a temporary file and rename it.

In `FingerprintWorker` a worker that crashes forgets its locals and nothing else. `Crash`
also stands for an exception of the handler that `process_claim` does not catch: it ends the
process. `WorkerProcess` has that exception as `Raise`, and what `main()` does after it.

In `MatchingHandler` a URL is its scheme, host and resolved addresses, a response its status
and content type, a body the way its transfer ends; `"OtherError"` is any exception that the
code on the way does not name (a full disk, a broken chunked body, a missing ffmpeg). In
`Prototype` a media file is its asset, a score one of three, and time the choice of which
claims look old; the rows a retention policy has listed are a set of row numbers, worked off
from the lowest, because a list comes oldest first. In `Submission` the backlog of all jobs
is the number of pairs of a job and one of its entries.

Slips: each module has a few operators described as wrong versions of operators below them.
They are the mutants every property is tried against, and no specification uses them.

## 3. Runs

Passing:

| Run | Instance | What it shows |
|---|---|---|
| `fw_crash` | 2 workers, a well-formed and a malformed job, all six handler outcomes, 3 attempts, 2 crashes or stops | with every handler inside its lease: `OneWorkerPerJob`, `ResultOfOneAttempt`, `AttemptsAccountedFor`, `MalformedNeverHandled`, `EveryJobSettles`, and the refinement `ImplementsLifecycle` |
| `fw_faults` | 2 workers, one job enqueued twice, one lease that expires under its handler, one crash, one lost reply | what holds when the fence fails: `NoJobLost`, `RetryIsBacked`, `ResultIsAnnounced` |
| `sub_faults` | 2 submitters, 3 candidates, a limit of one outstanding job, one retry, one failed call, one crash | `OneEntryPerJob`, `BacklogBounded`, `OneLossPerFault`, `EveryCandidateQueued` |
| `reg_faults` | 2 clients, 2 targets, 2 contents, all operations, one expiry, one crash or failed call | `IndexesExact`, `ListNeverDangles`, `LockIsItsOwners` |
| `build_faults` | 2 workers, 2 contents, 2 changes of the target, one expiry, one failed build or crash | `OneBuilder`, `NoRedundantBuild`, `TargetGetsBuilt` |
| `match_exact` | every matrix of three scores over up to 3 by 3 segments, contiguous and filtered lists, tolerance 0 and 1, gap 1 and 2 | `RunIsAlignment`, `NothingSustainedIsMissed` |
| `process_faults` | 2 starts, 2 claims or malformed entries, batches of 2, 1 redirect, a status of each class, a run time refused, over, limited or endless | `EveryHopIsChecked`, `LeaksAreKnown`, `CountersBalance`, `MarkerTellsCrash`, `StopIsOrderly`, `StopIsHonoured` |
| `proto_faults` | 2 workers, 2 assets of one site (one urgent), 2 claims, 1 retry, a limit of 1 rejected file, 2 faults | `SoleOwner`, `DecisionStands`, `MatchRecordedOnce`, `TasksAgree`, `FilesMatchRows`, `RetentionBounded` |

Violations, each a comment of the code that the code does not keep (details and quotes are
the findings of `PROJECT.json`):

| Run | Comment | What happens |
|---|---|---|
| `fw_stale_ack` | `fingerprint_worker.py:118-120` | between XAUTOCLAIM and the attempt bump the old owner's script passes the fence and acknowledges the new owner's entry |
| `sub_suppressed` | `submission.py:138-140` | a caller finds the marker of another and is told "duplicate"; the XADD of that other fails, and the marker is taken back too late |
| `reg_shared_media` | `registry.py:338-340` | a delete removes the blob that a concurrent registration of another target has just published |
| `build_stale` | `versioning.py:3-8` | segments of replaced media are cached under the new hash |

Bounds and why they are enough. The races above take two parties, so two workers, clients
or submitters. A second payload or target matters where something is shared between them:
the malformed payload, the content index, the backlog limit; there the instance has two or
three. Budgets of one fault each reach every interleaving of that fault with every step; two
crashes reach the crash of a recovery. In `fw_crash` three attempts and two crashes give at
most five attempts, so `AttemptBound` 7 never limits the run; in `fw_faults` it ends the
exploration after the third attempt, one beyond `MaxAttempts`. `fw_crash` has no lease that
expires under a live handler (`MaxSlow` 0) and no duplicate: its properties are the promise
the fence is to keep, and `fw_stale_ack` shows the fence fail beyond that. The violation
instances are the smallest in which the trace exists.

`FailingCalls` names the calls of a submitter that may fail, before or after Redis applied
them: all three in `sub_faults`, only the XADD in `sub_suppressed`, where a second caller is
the point. A `SET NX` whose reply is lost breaks the same promise with one caller alone: the
client library sends it again, finds the marker of its own first attempt, and the caller is
told "duplicate" of nothing; `OneLossPerFault` charges that loss to the lost reply. The retry
ZSET of `Submission` holds jobs, so two payloads of one job in it are one; the instance
schedules one retry (`MaxRetries`). `MaxCrashes` of `TargetRegistry` bounds crashes and failed
calls together: a call that raises leaves the rest undone like a crash, but `finally` gives
the lock back (`CallFails`, `registry.py:193-194`, `372-373`).

In `process_faults` one redirect (`MaxRedirects`) has a chain of two hops and a chain that is
too long; two entries (`MaxCalls`) a batch whose second claim waits while the first is
handled; two starts (`MaxRuns`) a marker and a record of an earlier run. `fetches` stops
counting at 2, where `StopIsOrderly` is false. Kills, signals and failing writes have no
budget. In `proto_faults` two claims (`MaxClaims`) are two assets, or one asset claimed again
after a retry or a requeue; two faults (`MaxFaults`) are a crash and another fault after it;
`Urgent` is the asset whose priority is a smaller number, so that claims of boosted and
unboosted assets come in either order. Both runs switch the deadlock check off, because a
worker process and the prototype may end and not be started again; the other runs keep it on.

Further statements in `FingerprintWorker` that no run lists, because they fail for reasons
already shown or by a documented design: `MatchIndexExact` (a second commit with `no_match`
leaves the job in the index, against the comment at `fingerprint_worker.py:180-181`),
`TerminalIsFinal` and `EventIdentity` (the late
`mark_claimed` and the re-sent commit), `AttemptsWithinMax` (reclaim does not look at
`max_attempts`, see the comment at `fingerprint_worker.py:467`), `PromotedWhenDue` (a stale
`ZRANGEBYSCORE` answer promotes a retry that was rescheduled since). A malformed entry that
carries the id of a live job makes `ImplementsLifecycle` fail too: `mark_rejected` does not
ask whose status it overwrites. The matcher compares `max_index_gap` with the gap between
*candidate* indexes (`matcher.py:210`), while `config.py:75` gives it in target-segment
units; `RunIsAlignment` states what the code does.

What modelling the handler and the process showed, and the properties name as known:

- `acquire` promises to clean up whatever fails (`acquirer.py:103-106`), but a validator that
  raises something other than `InvalidMediaError`, for instance because ffprobe is not
  installed, leaves the file behind; so does `fetch_to_temp` when the shared directory
  cannot be read (`LeaksAreKnown`).
- The `ChunkedEncodingError` of a broken chunked body is neither a transient nor a permanent
  error: it leaves the handler, nothing in the loop catches it, and the process ends. Its
  run record still says `clean` (`main.py:548-554`), which is why `MarkerTellsCrash` speaks
  of a run that wrote its record and not of one that ended well.
- A response without `Content-Type` is accepted by the acquirer (`acquirer.py:234-236`) and
  then refused by the embedding, so the job ends with `processing_failure`.
- The gauge `active_jobs` and the console's table never drop for a claim whose finalize was
  fenced off (`CountersBalance` counts them as `lost`).

The registry: the docstring of `list_targets` (`registry.py:239-242`) gives a crash inside
`register_target` or `delete_target`, or a gap of an old migration, as the only way to a
listed target without a record. No crash and no failed call leaves one: a registration writes
the record before the member, a deletion removes the member before the record. `reindex` does,
without any fault, because it takes no lock: a delete removes the member, the reindex reads
the index and sees the record, the delete removes the record, the reindex adds the member.
`ListNeverDangles` holds for every other target, and the exempt ones (`overlapped`) are
exactly those a reindex saw during their deletion; that `list_targets` skips them is what
keeps this harmless.

The prototype:

- A comparison that could not be scored ends with the verdict `failed`
  (`dinov2_matcher.py:458`), and `process_job` completes its task like any other
  (`old/worker/fingerprint_worker.py:526`). `old/usage.md:56-58` keeps `completed` for a match
  or no-match outcome and `failed` for a compare run that failed; in the code the task is
  `failed` only after an exception. `TasksAgree` states what the code does.
- The status of a job is written before its row and its evidence
  (`old/worker/fingerprint_worker.py:637` and `659`), the other way round than the steps of
  `old/usage.md:47-48`. A crash in between leaves a decided job without a row; a match without
  evidence is never claimed again (`MatchRecordedOnce` excepts crashes for that reason).
- A `commit()` that fails on the row of a match leaves the `INSERT` in the open transaction,
  and `fail_compare_task` commits it with its own; the retry then records the match again
  (`MatchCommitFails`, the second exception of `MatchRecordedOnce`). The other
  modelled tables have one row per asset, so there the same failure is an exception before or
  after the write.
- No write is conditional on `claimed_by`. `requeue_stale_claimed_jobs` reads and writes in
  separate transactions, once at the start of a process: a slow worker's job goes back to
  `pending` whatever became of it, is processed twice and decided twice, and `SoleOwner` and
  `DecisionStands` hold only of the assets this did not befall (`overlap`). An exception
  after the decision sends a decided job back too (`raise`). No property covers what follows
  from either, since nothing in the code prevents it.
- A sweep works on the list it read before. After such a requeue or late exception a listed
  asset may be decided again, or downloaded again, and then loses its file, even as a match;
  `FilesMatchRows` excepts these assets.
- `deleted_at` is never cleared when a row is recorded again, and `enforce` takes the path
  `""` of a rejection without a file for a file that could not be deleted, so such rows count
  against the limit for ever (`RetentionBounded` is about files). It is stated with
  `delete_rejected_overflow` on (`file_retention.py:27`) and without the limit on bytes
  (line 37).

What the models leave out at single definitions, and no property depends on:
`FingerprintWorker.ListDue` reads all due payloads in any order, the code at most
`retry_batch_size` by score (`fingerprint_worker.py:511-512`). In `MatchingHandler.CheckHop`
the `ValueError` of a malformed URL (`acquirer.py:129`, `161`) and the `UnicodeError` of a
host name that cannot be encoded have no case of their own: they end where `"OtherError"`
does.

## 4. Fairness

- `FingerprintWorker`: a live worker keeps running its loop and handlers return (`WF` of
  `Run`); a dead one is started again by its supervisor (`WF` of `Restart`); backoffs and
  the leases of entries nobody works on run out; and the reclaim interval, which is much
  shorter than for ever, has elapsed infinitely often when a loop passes its head (`SF` of
  `Reclaim`). Nothing is assumed of producers, crashes or slow handlers.
- `Submission`: a call that started returns; the fleet handles entries and promotes
  retries; TTLs run out; the crawler comes across a candidate again and again. The strong
  fairness of `Admit` and `Finish` is what "again and again" means when the backlog is full
  at times.
- `WorkerProcess`: the steps of the process go on (`WF` of `Proceed`): the sends, the reads,
  ffprobe, ffmpeg and the Redis client have timeouts, redirects and bytes are bounded, and
  the blocking read ends after `block_ms`. Nothing is assumed of signals, kills or starts.
- `Prototype`: none; its properties are safety.
- `TargetBuild`: workers run, polling has a deadline (`poll_timeout_s`), the TTL of a dead
  owner's lock runs out, and another job for the target comes: a loser never retries the
  lock, so without one a failed winner would leave the target unbuilt.

## 5. Proofs

Every safety property that a passing run checks is proved for every value of the constants,
from the named assumptions of the modules alone; in `FingerprintWorker` four of them under a
condition that is part of the theorem. `InvariantHolds` is the inductive invariant where a
module has one; TLC finds each of them true in every state of the instance of its run too.

### Queue and lifecycle

`FingerprintWorkerProofs` proves, for any sets of workers, jobs and payloads and any budgets
of crashes, expired leases, lost replies and duplicates: `TypeCorrect`, `MalformedRejected`,
`JobsAreKept`, `RetriesAreBacked`, `ResultsAreAnnounced`.

- `TypeOK` and `MalformedNeverHandled` together are inductive: that a claim was well formed
  when it was read is needed to know what `ScheduleRetry` puts into the ZSET.
- `NoJobLost` rests on one lemma: a step keeps a payload live (delayed, undelivered or
  pending) or settles it. Its interesting cases are the fenced script, which must not
  acknowledge, the retry, which acknowledges and adds in one script, and the promotion,
  which removes and adds in one script.
- `RetryIsBacked` uses the same lemma and that every step that ends a payload for good also
  changes the status of its job.
- `ResultIsAnnounced` is inductive with `TypeOK`: only `CommitResult` touches the result,
  the events or the index.

`FingerprintWorkerLeaseProofs` proves what needs the fence to hold. A state is `Calm` as long
as nothing slipped past it: no lease expired under a running handler, no reply was lost, no
two entries of one job were enqueued. Slips are counted and never forgotten, so a calm state
has a calm past, and the theorems speak of every state of every behaviour up to the first
slip, also where the budgets allow slips later. Crashes, stops and restarts are no slips.

- `OneWorkerHasAJob`, `ResultsAreOfOneAttempt` and `AttemptsAreOwedToCrashes` prove the
  properties of `fw_crash`; `ResultsAreExact` adds that events of one attempt are one and
  that the index is exact.
- `OnlyOwnersAck` is the sentence of the comment at `fingerprint_worker.py:118-120`, proved
  up to the first slip; `fw_stale_ack` is the slip after which it fails.
- `StepsFollowTheLifecycle` is the refinement step by step, `OutcomesAreFinal` what a caller
  of `resolve_outcome` relies on, and `LifecycleIsImplemented` states
  `Spec => ImplementsLifecycle` for deployments without slips (`Orderly`, which the constants
  of `fw_crash` satisfy).
- The invariant is that a payload is in one place (`OnePlace`), that the PEL names the worker
  which has an entry in memory and its lease runs (`Owned`), and that no claim in memory is
  fenced and the attempt about to be written is the next one (`Current`). A crash leaves an
  entry in the PEL that nobody has in memory, and the reclaim gives it to one worker; the
  attempt it then writes is what `Open` counts against the crashes.

### Submission

`SubmissionProofs`: `TypeCorrect`, `MarkersAdmitOne`, `LimitIsNearlyKept`,
`FaultsCostOneEach`, for finitely many submitters and jobs. Three bounds need an invariant
that counts things of different kinds against one budget. A job has one right to be enqueued:
the absence of its marker, a call that has set it, or the entry itself; only a failed call
makes a second (`OneRight`). The backlog has room for what it was when a call was admitted,
for each call admitted and not yet through, and for each retry still to come (`RoomLeft`).
A candidate whose marker stands, or of whose submission a caller was told, is submitted or is
charged to a fault: a step without a fault leaves no other candidate unkept (`NoLoss`), a
failed call or a crash at most the one it was about (`OneLoss`), however many callers relied
on its marker.
The counting lemmas say how cardinalities change when one caller or one job does.

### Registry and lock

`TargetRegistryProofs`: `TypeCorrect`, `IndexesAgree`, `ListsNeverDangle`,
`LocksAreTheirOwners`. The invariant says who owns a lock while none expired under its holder
(`Owned`: whoever is at work on a target owns its lock, and an owner is at work on it or
died), how far each operation has brought the record and the indexes (`Progress`), and then,
target by target, that what the indexes name is there (`NamesAt`) and that what is there they
name, but for the member the client at work is about to add or has just removed
((`IndexedAt`). A target whose operation died or failed half way stays excepted until an
operation on it ends. For the list a separate part (`Listings`) counts the member a reindex
is about to add with the members there are: both have a record until a delete removes it, and
a delete past its removal of the member meets either only if the two overlapped.

### Segment build

`TargetBuildProofs`: `TypeCorrect`, `BuildsAreExclusive`, `NothingIsRebuilt`,
`EntriesAreOwnUntilAChange`. The invariant has the same `Owned`; that every record read is the
record until an operator changes it (`Unchanged`); and that nothing is stored between the
winner's second lookup and its own put (`StillMissing`), which is why that second lookup is
there. `EntriesAreOwnUntilAChange` needs no assumption on locks: of the two things that can
go wrong, only the change of the target files segments under another content (`build_stale`).

### Matcher

`TemporalMatcherProofs`: `TypeCorrect`, `ReportsAlignments`, `LongestIsReported`, for segment
lists of any finite length, scores and configurations.

- The invariant adds what each paragraph hands on (`Handed`).
- `RunIsAligned`: two neighbours of a piece are neighbours in `ordered`, and had the second
  broken the run it would have started a piece of its own.
- `AlignmentsAreNotCut`: on one offset an alignment lies within one piece. The last start of
  a piece before the alignment's first pair begins its piece; a later start within it would
  follow its predecessor with a gap, and the alignment has a pair on either side of that gap.
- `HitsAreSimilar`: the mean over pairs that reach the threshold reaches it, so the second
  test of a match (`matcher.py:219`) never decides in exact arithmetic. The sum is a fold, a
  recursive function, and induction on it is not available to the provers; the lemmas
  before it argue with a smallest part of a finite set that would violate the claim
  (`SmallestPart`), both for what the sum is (`SumsExist`, `SumsAgree`) and for its bound.

### Worker process

`WorkerProcessProofs` proves all safety properties of `process_faults` for any redirect limit,
status codes, jobs, batch size, run times and number of runs: `TypeCorrect`,
`HopsAreChecked`, `OnlyKnownLeaks`, `CountersAddUp`, `CrashesAreTold`, `StopsAreOrderly`. The
assumptions are that the bounds are naturals and the codes three digits. The inductive
invariant has one part per concern:

- `HandlerInv`: the hop at `send` was checked, and `OwnFiles`, which of the call's files can
  exist at which statement. Every error of a step has an outcome (`ErrorsHaveOutcomes`), so
  three lemmas (`EndsKeep`, `UnwindKeeps`, `BeginKeeps`) serve all paths out.
- `FilesInv`: the record on disk is an earlier run's until this run writes it, and a run that
  wrote its marker can only write a clean record.
- `LoopInv`: a fetch is reached only through a look at the stop event, so one that happens
  after a stop was under way before it, and nothing comes after it.
- `CountInv`: a fenced claim is remembered with the number of its call, and a call in hand is
  not among them, so each adds one to the count.

### Prototype

`PrototypeProofs`: `TypeCorrect`, `OwnersAreSole`, `DecisionsStand`,
`MatchesAreRecordedOnce`, `FilesAreAsRowsSay`, `RetentionIsBounded`, `DatabasesAgree`, for any
number of workers, assets, claims and faults. The invariant ties what a worker is at to what
the databases and the disk say of its asset, each part with the faults it does not survive
(`blame`):

- `SoleWorker`, `NotPending`, `OwnersClaimed`, `VerdictIsStatus`: the claim's transaction
  gives an asset to one worker, whose verdict is the status from then on.
- `EvidenceOfMatched`, `MatchedHasEvidence`: a row of evidence belongs to a job that is
  decided and left; until it is there its worker is on the way to it.
- `RowsFollowJobs`, `ListsFollowRows`, `FetchedOnDisk`, `MatchedOnDisk`, `DeletedGone`,
  `MarkedGone`: why a policy that works on an old list still deletes no match.
- `TaskOfWorker`, `TaskOfIdle`, `TaskDecided`: which of the two databases is ahead at each
  statement; that a completed task belongs to a decided job needs no exception for crashes or
  for exceptions, since a task is completed only after its decision and failed before the
  decision is undone.
- `LastListBounds`: of any workers in their policy, one has listed last, and unless the limit
  is kept already all rejected downloads on disk are on its list, but for those of workers
  still before their policy. It speaks of every set of such workers, because the one that
  listed last may finish first.

### Only model-checked

- Liveness: `EveryJobSettles`, `EveryCandidateQueued`, `TargetGetsBuilt`, `StopIsHonoured`.
  Fairness and `ENABLED` are out of the prover's reach.
- The four violations: they are traces, and a trace is TLC's to find.

## 6. Plan

The order is by what would hurt most if it were wrong.

1. Done: queue and lifecycle, submission, registry, build, matcher, handler, worker process
   and prototype; their runs; the proofs above.
2. A reader process (`resolve_outcome`, two reads) over `JobLifecycle`; the cache with
   corrupt and unreachable files in `TargetBuild`.
3. Done: proofs of all safety properties of the runs. Left: the theorems for what step 2
   adds, and which slip breaks which theorem of `FingerprintWorkerLeaseProofs` one by one.

Not modelled, and why:

- the vectors of the embedding engine and the numerical matchers of `old/`: numerical code
  without shared state;
- of the observability: formatting, latency statistics, resource sampling and the error
  categories, which no other part reads (`SharedArtifactStoreError` has none);
- of the prototype: `compare_single_video` and `compare_directory` (the same pipeline without
  a queue), `reset_all_tables` (run by hand), the append-only tables, the target-index files
  (a cache of one process), the byte limit of retention (the same loop over another sum) and
  the mirrored `media_assets` table;
- of the shared storage: the escaping of keys;
- `target/cli.py` (printing), `work_queue/admin.py` (a tool for a stopped fleet),
  `benchmark/` and `benchmarks/` (measurement).

## 7. Running

    tlc -workers 2 -config fw_crash.cfg MCFingerprintWorker.tla
    tlapm FingerprintWorkerProofs.tla

Each run of section 3 takes at most four minutes on two cores; the module of a run is in
`PROJECT.json`.
