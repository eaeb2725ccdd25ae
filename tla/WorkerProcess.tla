---------------------------- MODULE WorkerProcess ----------------------------
(***************************************************************************)
(* One worker process from start to exit, run after run: worker/main.py    *)
(* around Worker.run with the matching handler, and what the process tells *)
(* an operator: the counters, the console's job table, the startup marker  *)
(* and the run record of worker/observability.py.                          *)
(*                                                                         *)
(* The queue is reduced to its answers: how many entries a reclaim or a    *)
(* claim hands over, and whether this worker is still fenced in when it    *)
(* finalizes. FingerprintWorker has the queue itself.                      *)
(***************************************************************************)
EXTENDS MatchingHandler

CONSTANTS
  Jobs,
  BatchSize,    (* reclaim_batch_size                                      *)
  Minutes,      (* the values of WORKER_RUNTIME_MINUTES                    *)
  MaxRuns       (* bound: starts of the process                            *)

ASSUME ProcessAssumption == {BatchSize, MaxRuns} \subseteq Nat /\ Minutes \subseteq Int

VARIABLES
  proc,       (* where main() and Worker.run are                           *)
  run,        (* the number of this run, or of the last one                *)
  stop,       (* Worker._stop_event                                        *)
  budget,     (* runtime_minutes                                           *)
  held,       (* claims not finalized yet, the one being handled first     *)
  counters,   (* WorkerCounters                                            *)
  shown,      (* HumanConsoleHandler._jobs                                 *)
  marker,     (* the run whose startup marker is on disk, 0 for none       *)
  record,     (* the run record on disk: its run, and shutdown.clean       *)
  lost,       (* claims of this run whose finalize was fenced off          *)
  raised,     (* did an exception end the loop                             *)
  fetches,    (* reclaims and claims of this run after stop(): 0, 1, or 2   *)
  wrote       (* which of marker and record this run has written           *)

window == <<counters, shown>>
files == <<marker, record, wrote>>
local == <<stop, budget, held, lost, raised, fetches>>
pvars == <<proc, run, window, files, local>>
vars == <<hvars, pvars>>

In(p) == proc = p
Goto(p) == proc' = p

\* _atomic_write_json: the file is replaced, or stays what it was.
AtomicWrite(ok, write, keep) == IF ok THEN write ELSE keep

---------------------------------------------------------------------------
(* Slips the runs must notice: wrong versions of operators below.          *)
EndedTwice(c, how) == [c EXCEPT ![how] = @ + 1, !.active = IF @ > 1 THEN @ - 2 ELSE 0]

WriteRecordAnyway(ok) ==
  /\ proc \in {"failing", "closing"}
  /\ Goto("unmarking")
  /\ record' = AtomicWrite(ok, [run |-> run, clean |-> In("closing")], record)
  /\ wrote' = AtomicWrite(ok, wrote \union {"record"}, wrote)
  /\ UNCHANGED <<hvars, run, window, marker, local>>

NeverStops == TRUE

LooksBetweenClaims(rest, source) ==
  IF stop THEN "closing"
  ELSE IF rest # <<>> THEN "handling" ELSE IF source = "reclaimed" THEN "promote" ELSE "top"

---------------------------------------------------------------------------
(* The observer.                                                           *)

NoCounters == [claimed |-> 0, reclaimed |-> 0, completed |-> 0, failed |-> 0, rejected |-> 0,
               retried |-> 0, permanently_failed |-> 0, active |-> 0, attempts |-> 0]

\* on_job_claimed and on_job_reclaimed, for n entries.
Started(c, source, n) ==
  [c EXCEPT ![source] = @ + n, !.active = @ + n, !.attempts = @ + n]

\* on_job_rejected: a reclaimed entry counts as reclaimed although it never ran.
Rejected(c, source, n) ==
  [c EXCEPT !.rejected = @ + n, !.reclaimed = @ + IF source = "reclaimed" THEN n ELSE 0]

\* on_job_completed, on_job_failed, on_job_retry_scheduled, on_job_permanently_failed.
Ended(c, how) ==
  [c EXCEPT ![how] = @ + 1, !.active = IF @ > 0 THEN @ - 1 ELSE 0]

Show(jobs) == shown \union jobs
Forgotten(job) == shown \ {job}

---------------------------------------------------------------------------
(* main(): configuration, construction, marker, signal handlers.           *)

Init ==
  /\ HandlerInit
  /\ proc = "off" /\ run = 0
  /\ stop = FALSE /\ budget = -1 /\ held = <<>> /\ lost = {} /\ raised = FALSE /\ fetches = 0
  /\ counters = NoCounters /\ shown = {}
  /\ marker = 0 /\ record = [run |-> 0, clean |-> FALSE] /\ wrote = {}

\* WorkerConfig.validate: -1 is no limit, anything below is refused.
Valid(minutes) == minutes >= -1

\* A refused configuration or an unreachable Redis ends the process at once.
Start(minutes, redis) ==
  /\ In("off") /\ run < MaxRuns
  /\ run' = run + 1 /\ wrote' = {}
  /\ stop' = FALSE /\ budget' = minutes /\ held' = <<>> /\ lost' = {} /\ raised' = FALSE
  /\ fetches' = 0 /\ counters' = NoCounters /\ shown' = {}
  /\ Goto(IF Valid(minutes) /\ redis THEN "constructing" ELSE "off")
  /\ UNCHANGED <<hvars, marker, record>>

\* The acquirer, the registry, the stores, the engine and the worker are built.
Construct(answer) ==
  /\ In("constructing")
  /\ Goto(IF answer = Ok THEN "marking" ELSE "failing")
  /\ UNCHANGED <<hvars, run, window, files, local>>

ConstructionFaults == {"SharedArtifactStoreError", "ModelLoadError", "DeviceUnavailableError",
                       "RedisError"}

\* write_startup_marker; main() suppresses its errors.
WriteMarker(ok) ==
  /\ In("marking")
  /\ Goto("installing")
  /\ marker' = AtomicWrite(ok, run, marker)
  /\ wrote' = AtomicWrite(ok, wrote \union {"marker"}, wrote)
  /\ UNCHANGED <<hvars, run, window, record, local>>

InstallHandlers ==
  /\ In("installing")
  /\ Goto("top")
  /\ UNCHANGED <<hvars, run, window, files, local>>

\* write_run_record: the record first, then the marker; an error of the first
\* skips the second, and main() suppresses both. No matter how the loop ended,
\* a run that reached it is recorded as clean.
WriteRecord(ok) ==
  /\ proc \in {"failing", "closing"}
  /\ Goto(IF ok THEN "unmarking" ELSE "off")
  /\ record' = AtomicWrite(ok, [run |-> run, clean |-> In("closing")], record)
  /\ wrote' = AtomicWrite(ok, wrote \union {"record"}, wrote)
  /\ UNCHANGED <<hvars, run, window, marker, local>>

RemoveMarker(ok) ==
  /\ In("unmarking")
  /\ Goto("off")
  /\ marker' = IF ok THEN 0 ELSE marker
  /\ UNCHANGED <<hvars, run, window, record, wrote, local>>

---------------------------------------------------------------------------
(* Worker.run.                                                             *)

Claims == [job : Jobs, source : {"reclaimed", "claimed"}]
Calm == ~stop

\* A look at the stop event leaves the loop.
Break ==
  /\ proc \in {"top", "promote", "claim"} /\ ~Calm
  /\ Goto("closing")
  /\ UNCHANGED <<hvars, run, window, files, local>>

\* The deadline: none, over before the loop starts (0), or somewhere in the run.
Expire ==
  /\ In("top") /\ Calm /\ budget # -1
  /\ stop' = TRUE /\ Goto("closing")
  /\ UNCHANGED <<hvars, run, window, files, budget, held, lost, raised, fetches>>

Pass(from, to) ==
  /\ In(from) /\ Calm /\ ~(In("top") /\ budget = 0)
  /\ Goto(to)
  /\ UNCHANGED <<hvars, run, window, files, local>>

\* A Redis error of the loop: main()'s finally is all that runs still.
LoopFails ==
  /\ proc \in {"reclaim", "promoting", "reading"}
  /\ raised' = TRUE /\ Goto("closing")
  /\ UNCHANGED <<hvars, run, window, files, stop, budget, held, lost, fetches>>

Fetched == fetches' = IF stop /\ fetches < 2 THEN fetches + 1 ELSE fetches

\* The claims of one fetch, which then are handled in turn.
Take(claims, source, rejected) ==
  /\ call + Len(claims) + counters.rejected + rejected <= MaxCalls
  /\ counters' = Rejected(Started(counters, source, Len(claims)), source, rejected)
  /\ shown' = Show({claims[i].job : i \in DOMAIN claims})
  /\ held' = claims

\* Not yet time to reclaim.
SkipReclaim ==
  /\ In("reclaim")
  /\ Goto("promote")
  /\ UNCHANGED <<hvars, run, window, files, local>>

\* reclaim_stale, which a Redis error may cut short after some of the entries.
Reclaim(claims, rejected, ok) ==
  /\ In("reclaim")
  /\ \A i \in DOMAIN claims : claims[i].source = "reclaimed"
  /\ Take(claims, "reclaimed", rejected) /\ Fetched
  /\ raised' = ~ok
  /\ Goto(IF ~ok THEN "closing" ELSE IF claims = <<>> THEN "promote" ELSE "handling")
  /\ UNCHANGED <<hvars, run, files, stop, budget, lost>>

Promote ==
  /\ In("promoting")
  /\ Goto("claim")
  /\ UNCHANGED <<hvars, run, window, files, local>>

\* claim_one: an entry, a malformed one, or none within block_ms.
ClaimOne(claims, rejected) ==
  /\ In("reading")
  /\ \A i \in DOMAIN claims : claims[i].source = "claimed"
  /\ Take(claims, "claimed", rejected) /\ Fetched
  /\ Goto(IF claims = <<>> THEN "top" ELSE "handling")
  /\ UNCHANGED <<hvars, run, files, stop, budget, lost, raised>>

\* process_claim calls the handler ...
CallHandler(named) ==
  /\ In("handling")
  /\ Begin(named)
  /\ UNCHANGED pvars

HandlerStep ==
  /\ In("handling")
  /\ Handle
  /\ UNCHANGED pvars

\* ... and counts what became of the attempt, if the script was not fenced off.
How(outcome, last) ==
  CASE outcome.kind = "result" -> "completed"
    [] outcome.kind = "permanent" -> "failed"
    [] outcome.kind = "transient" -> IF last THEN "permanently_failed" ELSE "retried"

AfterClaim(rest, source) ==
  IF rest # <<>> THEN "handling" ELSE IF source = "reclaimed" THEN "promote" ELSE "top"

Finalize(current, last) ==
  /\ In("handling") /\ At("over") /\ pending.kind # "raise"
  /\ LET claim == Head(held) IN
       /\ IF current
          THEN /\ counters' = Ended(counters, How(pending, last))
               /\ shown' = Forgotten(claim.job)
               /\ UNCHANGED lost
          ELSE lost' = lost \union {[job |-> claim.job, call |-> call]} /\ UNCHANGED window
       /\ held' = Tail(held)
       /\ Goto(AfterClaim(Tail(held), claim.source))
  /\ stage' = "idle" /\ pending' = NoOutcome
  /\ UNCHANGED <<call, request, temps, run, files, stop, budget, raised, fetches>>

\* An exception of the handler, or of the script, is nobody's to catch.
Raise ==
  /\ In("handling") /\ At("over")
  /\ raised' = TRUE /\ Goto("closing")
  /\ stage' = "idle" /\ pending' = NoOutcome
  /\ UNCHANGED <<call, request, temps, run, window, files, stop, budget, held, lost, fetches>>

---------------------------------------------------------------------------
(* Signals.                                                                *)

Installed == proc \notin {"off", "constructing", "failing", "marking", "installing"}

\* SIGTERM or SIGINT once the handlers are installed.
Signal ==
  /\ Installed /\ Calm
  /\ stop' = TRUE
  /\ UNCHANGED <<hvars, proc, run, window, files, budget, held, lost, raised, fetches>>

\* SIGKILL or a power loss, and SIGTERM before the handlers are installed: the
\* memory of the process is gone, its files stay.
Kill ==
  /\ ~In("off")
  /\ Goto("off")
  /\ stage' = "idle" /\ pending' = NoOutcome /\ Forget
  /\ UNCHANGED <<call, temps, run, window, files, local>>

---------------------------------------------------------------------------
\* A batch of entries of one source, of different jobs (Submission: one entry a job).
Batches == UNION {{b \in [1 .. n -> Claims] : \A i, j \in 1 .. n : i # j => b[i].job # b[j].job} :
                    n \in 0 .. BatchSize}

\* The process's own steps.
Proceed ==
  \/ \E answer \in ConstructionFaults \union {Ok} : Construct(answer)
  \/ \E ok \in BOOLEAN : WriteMarker(ok) \/ WriteRecord(ok) \/ RemoveMarker(ok)
  \/ InstallHandlers \/ Break \/ Expire
  \/ Pass("top", "reclaim") \/ Pass("promote", "promoting") \/ Pass("claim", "reading")
  \/ SkipReclaim \/ Promote \/ LoopFails
  \/ \E claims \in Batches, rejected \in {0, 1}, ok \in BOOLEAN : Reclaim(claims, rejected, ok)
  \/ \E claim \in Claims : ClaimOne(<<claim>>, 0)
  \/ \E rejected \in {0, 1} : ClaimOne(<<>>, rejected)
  \/ \E named \in BOOLEAN : CallHandler(named)
  \/ HandlerStep
  \/ \E current, last \in BOOLEAN : Finalize(current, last)
  \/ Raise

Next ==
  \/ \E minutes \in Minutes, redis \in BOOLEAN : Start(minutes, redis)
  \/ Proceed \/ Signal \/ Kill

Spec == Init /\ [][Next]_vars

\* Every call of the process returns: the sends, the reads, ffprobe, ffmpeg and
\* the Redis client have timeouts, and the redirects and bytes are bounded.
Fairness == WF_vars(Proceed)
FairSpec == Spec /\ Fairness

---------------------------------------------------------------------------
Procs == {"off", "constructing", "failing", "marking", "installing", "top", "reclaim", "promote",
          "promoting", "claim", "reading", "handling", "closing", "unmarking"}

(* Every variable has the values its comment says.                         *)
TypeOK ==
  /\ stage \in Stages /\ call \in 0 .. MaxCalls /\ hop \in 0 .. MaxRedirects
  /\ {checked, asked} \subseteq SUBSET (0 .. MaxRedirects) /\ header \in Headers
  /\ pending \in Results /\ temps \subseteq Temps
  /\ proc \in Procs /\ run \in 0 .. MaxRuns
  /\ stop \in BOOLEAN /\ budget \in Minutes \union {-1} /\ held \in Seq(Claims)
  /\ counters \in [DOMAIN NoCounters -> Nat] /\ shown \subseteq Jobs
  /\ marker \in 0 .. MaxRuns /\ record \in [run : 0 .. MaxRuns, clean : BOOLEAN]
  /\ lost \subseteq [job : Jobs, call : 1 .. MaxCalls]
  /\ raised \in BOOLEAN /\ fetches \in Nat /\ wrote \subseteq {"marker", "record"}

(* Every hop of a redirect chain, not only the first, had its scheme and   *)
(* its resolved addresses accepted before a GET was sent to it, and no     *)
(* more hops are asked than the redirects allow (acquirer.py:112-131).     *)
EveryHopIsChecked == asked \subseteq checked /\ Cardinality(asked) <= MaxRedirects + 1

(* A temporary file outlives its call only where the code lets it: the     *)
(* process was killed in the call, the validator raised something that is  *)
(* not InvalidMediaError (acquirer.py:141-147), or the shared store could  *)
(* not be read while the target's media was copied (shared_storage.py:232).*)
CallEnds == stage \notin {"idle", "over"} /\ stage' \in {"idle", "over"}
Killed == proc' = "off"

LeaksAreKnown ==
  [][CallEnds => \A t \in temps' : t.call = call =>
       \/ Killed
       \/ t.of = "candidate" /\ stage = "validate" /\ pending'.what = "OtherError"
       \/ t.of = "target" /\ pending'.what = "SharedArtifactStoreError"]_vars

(* The counters add up: every attempt was counted exactly once as ended or *)
(* is active, and the active ones are the claims in hand and those whose   *)
(* finalize was fenced off, which no callback ever takes out of the gauge  *)
(* (observability.py:918-998, fingerprint_worker.py:535-559).              *)
CountersBalance ==
  LET c == counters IN
    /\ c.attempts = c.completed + c.failed + c.retried + c.permanently_failed + c.active
    /\ ~In("off") => c.active = Len(held) + Cardinality(lost)
    /\ shown \subseteq {held[i].job : i \in DOMAIN held} \union {l.job : l \in lost}

\* What an external tool concludes from the two files (write_startup_marker).
LooksCrashed == marker # 0 /\ ~(record.clean /\ record.run >= marker)

(* Of a run that wrote its marker, the two files tell once it is off       *)
(* whether it got to write its record, whatever earlier runs left behind   *)
(* and whichever of the writes failed (observability.py:1094-1117).        *)
MarkerTellsCrash ==
  In("off") /\ "marker" \in wrote => (LooksCrashed <=> "record" \notin wrote)

(* A stop request ends the process in order: at most the fetch under way   *)
(* still takes entries, and unless an exception ended the loop nothing     *)
(* that was claimed is left unhandled (fingerprint_worker.py:561-605).     *)
StopIsOrderly ==
  /\ fetches <= 1
  /\ proc \in {"closing", "unmarking"} /\ ~raised => held = <<>>

(* A stop request is honoured: the process exits (main.py:418-435).        *)
StopIsHonoured == (stop /\ ~In("off")) ~> In("off")
=============================================================================
