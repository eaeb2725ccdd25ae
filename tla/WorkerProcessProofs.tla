------------------------- MODULE WorkerProcessProofs -------------------------
(***************************************************************************)
(* What a worker process keeps to, for any redirect limit, jobs, batch     *)
(* size and number of runs.                                                *)
(***************************************************************************)
EXTENDS WorkerProcess, FiniteSetTheorems, SequenceTheorems, TLAPS

---------------------------------------------------------------------------
(* The handler.                                                            *)

(* The files of the call under way, by the place it has reached.           *)
OwnFiles ==
  \A t \in temps :
    /\ t.call <= call
    /\ t.call = call =>
         \/ stage \in {"idle", "over"}
         \/ t.of = "candidate" /\ stage \notin {"hop", "send", "open"}
         \/ t.of = "frames" /\ stage \in {"frames", "target_frames"}
         \/ t.of = "target" /\ stage \in {"fetch", "target", "target_frames"}
         \/ t.of = "target" /\ stage = "cleanup" /\ pending.what = "SharedArtifactStoreError"

HandlerTyped ==
  /\ stage \in Stages /\ call \in 0 .. MaxCalls /\ hop \in 0 .. MaxRedirects
  /\ {checked, asked} \subseteq SUBSET (0 .. MaxRedirects) /\ header \in Headers
  /\ pending \in Results /\ temps \subseteq Temps

HandlerInv ==
  /\ HandlerTyped
  /\ stage # "idle" => call >= 1
  /\ stage \in {"over", "cleanup"} => pending.kind # "none"
  /\ asked \subseteq checked
  /\ stage = "send" => hop \in checked
  /\ OwnFiles

Ends == {r \in Results : r.kind # "none"}

(* Every error the handler meets has an outcome, and it keeps its name.    *)
LEMMA ErrorsHaveOutcomes ==
  ASSUME NEW e \in Errors
  PROVE  /\ AcquisitionFailure(e) \in Ends /\ AcquisitionFailure(e).what = e
         /\ TargetFailure(e) \in Ends /\ TargetFailure(e).what = e
         /\ CandidateFailure(e) \in Ends
         /\ CandidateFailure(e).what \in {e, "processing_failure"}
<1>1. AcquisitionFailure(e) \in Ends /\ AcquisitionFailure(e).what = e
  BY DEF AcquisitionFailure, Outcome, Ends, Results
<1>2. TargetFailure(e) \in Ends /\ TargetFailure(e).what = e
  BY DEF TargetFailure, Outcome, Ends, Results
<1>3. CandidateFailure(e) \in Ends /\ CandidateFailure(e).what \in {e, "processing_failure"}
  BY DEF CandidateFailure, Outcome, Ends, Results, Decisions
<1> QED
  BY <1>1, <1>2, <1>3

(* A call that ends leaves the invariant to its files.                     *)
LEMMA EndsKeep ==
  ASSUME HandlerInv, NEW r \in Ends, stage # "idle", Leave(r), temps' \subseteq temps
  PROVE  HandlerInv'
<1> USE HandlerAssumption
<1>1. HandlerTyped'
  BY DEF HandlerInv, HandlerTyped, Leave, Over, Forget, Ends, Stages, Headers
<1>2. OwnFiles'
  BY DEF HandlerInv, OwnFiles, Leave, Over
<1> QED
  BY <1>1, <1>2 DEF HandlerInv, Leave, Over, Forget, Ends

(* Unwinding keeps it if at most a copy of the target is left over, and    *)
(* only because the store could not be read.                               *)
LEMMA UnwindKeeps ==
  ASSUME HandlerInv, NEW r \in Ends, stage \notin {"idle", "hop", "send", "open", "over"},
         Unwind(r), temps' \subseteq temps,
         \A t \in temps' : t.call = call =>
            \/ t.of = "candidate"
            \/ t.of = "target" /\ r.what = "SharedArtifactStoreError"
  PROVE  HandlerInv'
<1> USE HandlerAssumption
<1>1. HandlerTyped'
  BY DEF HandlerInv, HandlerTyped, Unwind, request, Ends, Stages
<1>2. OwnFiles'
  BY DEF HandlerInv, OwnFiles, Unwind
<1> QED
  BY <1>1, <1>2 DEF HandlerInv, Unwind, request, Ends

(* A call begins without files.                                            *)
LEMMA BeginKeeps ==
  ASSUME HandlerInv, NEW named \in BOOLEAN, Begin(named)
  PROVE  HandlerInv'
<1> USE HandlerAssumption
<1>1. call \in Nat /\ call' = call + 1 /\ call' \in 1 .. MaxCalls /\ temps' = temps
  BY DEF HandlerInv, HandlerTyped, Begin
<1>2. OwnFiles'
  <2>1. \A t \in temps : t.call \in Nat /\ t.call <= call
    BY DEF HandlerInv, OwnFiles, HandlerTyped, Temps
  <2> QED
    BY <1>1, <2>1 DEF OwnFiles
<1>3. CASE named
  BY <1>1, <1>2, <1>3 DEF Begin, HandlerInv, HandlerTyped, request, Stages
<1>4. CASE ~named
  <2>1. stage' = "over" /\ pending' = Outcome("permanent", "UnsupportedTechnique") /\ Forget
    BY <1>4 DEF Begin, Over
  <2> QED
    BY <1>1, <1>2, <2>1
    DEF HandlerInv, HandlerTyped, Forget, Outcome, Results, Errors, Stages, Headers
<1> QED
  BY <1>3, <1>4

(* The steps of acquire().                                                 *)
LEMMA AcquireKeeps == HandlerInv /\ Acquire => HandlerInv'
<1> SUFFICES ASSUME HandlerInv, Acquire PROVE HandlerInv'
  OBVIOUS
<1> USE HandlerAssumption
<1>1. CASE \E url \in Urls : CheckThisHop(url)
  <2>1. PICK url \in Urls : CheckThisHop(url)
    BY <1>1
  <2>2. CASE CheckHop(url) = Ok
    BY <2>1, <2>2 DEF CheckThisHop, At, Step, HandlerInv, HandlerTyped, OwnFiles, Stages
  <2>3. CASE CheckHop(url) # Ok
    <3>1. CheckHop(url) \in Errors
      BY <2>3 DEF CheckHop, ValidateDestination, Errors, TransientErrors, PermanentErrors
    <3> QED
      BY <2>1, <2>3, <3>1, EndsKeep, ErrorsHaveOutcomes DEF CheckThisHop, At
  <2> QED
    BY <2>2, <2>3
<1>2. CASE \E e \in SendErrors : SendFails(e)
  BY <1>2, EndsKeep, ErrorsHaveOutcomes DEF SendFails, At, SendErrors, Errors, TransientErrors
<1>3. CASE \E code \in Codes, location \in BOOLEAN : Follow(code, location)
  <2>1. PICK code \in Codes, location \in BOOLEAN : Follow(code, location)
    BY <1>3
  <2>2. CASE ~location
    BY <2>1, <2>2, EndsKeep, ErrorsHaveOutcomes DEF Follow, At, Errors, PermanentErrors
  <2>3. CASE location /\ TooMany(hop + 1)
    BY <2>1, <2>3, EndsKeep, ErrorsHaveOutcomes DEF Follow, At, Errors, PermanentErrors
  <2>4. CASE location /\ ~TooMany(hop + 1)
    <3>1. /\ stage' = "hop" /\ hop' = hop + 1 /\ asked' = asked \union {hop}
          /\ UNCHANGED <<checked, header, call, pending, temps>> /\ stage = "send"
      BY <2>1, <2>4 DEF Follow, At, Step, NextHop
    <3>2. hop' \in 0 .. MaxRedirects
      BY <2>4, <3>1 DEF TooMany, HandlerInv, HandlerTyped
    <3> QED
      BY <3>1, <3>2 DEF HandlerInv, HandlerTyped, OwnFiles, Stages
  <2> QED
    BY <2>2, <2>3, <2>4
<1>4. CASE \E code \in Codes, h \in Headers : Refuse(code, h)
  <2>1. PICK code \in Codes, h \in Headers : Refuse(code, h)
    BY <1>4
  <2> DEFINE e == IF ClassifyStatus(code) # Ok THEN ClassifyStatus(code) ELSE CheckContentType(h)
  <2>2. e # Ok /\ Leave(AcquisitionFailure(e)) /\ stage = "send" /\ temps' = temps
    BY <2>1 DEF Refuse, At
  <2>3. e \in Errors
    BY <2>2 DEF ClassifyStatus, CheckContentType, Errors, TransientErrors, PermanentErrors, Ok
  <2> QED
    BY <2>2, <2>3, EndsKeep, ErrorsHaveOutcomes
<1>5. CASE \E code \in Codes, h \in Headers : Accept(code, h)
  BY <1>5 DEF Accept, At, Step, HandlerInv, HandlerTyped, OwnFiles, Stages
<1>6. CASE \E disk \in {Ok, "OtherError"} : OpenFile(disk)
  <2>1. PICK disk \in {Ok, "OtherError"} : OpenFile(disk)
    BY <1>6
  <2>2. CASE disk = Ok
    BY <2>1, <2>2
    DEF OpenFile, At, Step, Create, Temp, Temps, Kinds, request, HandlerInv, HandlerTyped,
        OwnFiles, Stages
  <2>3. CASE disk # Ok
    BY <2>1, <2>3, EndsKeep, ErrorsHaveOutcomes DEF OpenFile, At, Errors
  <2> QED
    BY <2>2, <2>3
<1>7. CASE \E body \in Bodies : StreamToDisk(body)
  <2>1. PICK body \in Bodies : StreamToDisk(body)
    BY <1>7
  <2>2. CASE StreamOutcome(body) = Ok
    BY <2>1, <2>2
    DEF StreamToDisk, At, Step, request, HandlerInv, HandlerTyped, OwnFiles, Stages
  <2>3. CASE StreamOutcome(body) # Ok
    <3>1. StreamOutcome(body) \in Errors
      BY <2>3 DEF StreamOutcome, Bodies, Errors, TransientErrors, PermanentErrors
    <3> QED
      BY <2>1, <2>3, <3>1, EndsKeep, ErrorsHaveOutcomes DEF StreamToDisk, At, Remove
  <2> QED
    BY <2>2, <2>3
<1>8. CASE \E probe \in Probes : Validate(probe)
  <2>1. PICK probe \in Probes : Validate(probe)
    BY <1>8
  <2>2. CASE ProbeOutcome(probe) = Ok
    BY <2>1, <2>2
    DEF Validate, At, Step, request, HandlerInv, HandlerTyped, OwnFiles, Stages
  <2>3. CASE ProbeOutcome(probe) # Ok
    <3>1. ProbeOutcome(probe) \in Errors
      BY <2>3 DEF ProbeOutcome, Probes, Errors, PermanentErrors
    <3>2. /\ temps' \subseteq temps /\ stage = "validate"
          /\ Leave(AcquisitionFailure(ProbeOutcome(probe)))
      BY <2>1, <2>3 DEF Validate, At, Remove
    <3> QED
      BY <3>1, <3>2, EndsKeep, ErrorsHaveOutcomes
  <2> QED
    BY <2>2, <2>3
<1> QED
  BY <1>1, <1>2, <1>3, <1>4, <1>5, <1>6, <1>7, <1>8 DEF Acquire

(* All steps of a call.                                                    *)
LEMMA HandleKeeps == HandlerInv /\ Handle => HandlerInv'
<1> SUFFICES ASSUME HandlerInv, Handle PROVE HandlerInv'
  OBVIOUS
<1> USE HandlerAssumption
<1>1. CASE Acquire
  BY <1>1, AcquireKeeps
<1>2. CASE EmbedCandidate
  <2>1. CASE header = "video"
    BY <1>2, <2>1
    DEF EmbedCandidate, At, Step, Create, Temp, Temps, Kinds, request, HandlerInv, HandlerTyped,
        OwnFiles, Stages
  <2>2. CASE header # "video"
    <3>1. CandidateFailure("UnsupportedMediaError") \in Ends
      BY ErrorsHaveOutcomes DEF Errors, EmbeddingErrors
    <3>2. /\ Unwind(CandidateFailure("UnsupportedMediaError")) /\ stage = "embed"
          /\ temps' = temps
      BY <1>2, <2>2 DEF EmbedCandidate, At
    <3>3. \A t \in temps' : t.call = call => t.of = "candidate"
      BY <3>2 DEF HandlerInv, OwnFiles
    <3> QED
      BY <3>1, <3>2, <3>3, UnwindKeeps
  <2> QED
    BY <2>1, <2>2
<1>3. CASE \E e \in EmbedOutcomes : CandidateEmbedded(e)
  <2>1. PICK e \in EmbedOutcomes : CandidateEmbedded(e)
    BY <1>3
  <2>2. stage = "frames" /\ temps' \subseteq temps
    BY <2>1 DEF CandidateEmbedded, At, Remove
  <2>3. \A t \in temps' : t.call = call => t.of = "candidate"
    BY <2>1, <2>2
    DEF CandidateEmbedded, Remove, Temp, HandlerInv, OwnFiles, HandlerTyped, Temps
  <2>4. CASE e = Ok
    BY <2>1, <2>2, <2>3, <2>4
    DEF CandidateEmbedded, Step, request, HandlerInv, HandlerTyped, OwnFiles, Stages
  <2>5. CASE e # Ok
    <3>1. e \in Errors
      BY <2>5
      DEF EmbedOutcomes, InferenceOutcomes, FramesOutcome, FFmpegs, Errors, EmbeddingErrors, Ok
    <3> QED
      BY <2>1, <2>2, <2>3, <2>5, <3>1, ErrorsHaveOutcomes, UnwindKeeps DEF CandidateEmbedded
  <2> QED
    BY <2>4, <2>5
<1>4. CASE \E answer \in ResolveAnswers : Resolve(answer)
  <2>1. PICK answer \in ResolveAnswers : Resolve(answer)
    BY <1>4
  <2>2. stage = "resolve" /\ temps' = temps
    BY <2>1 DEF Resolve, At
  <2>3. \A t \in temps' : t.call = call => t.of = "candidate"
    BY <2>2 DEF HandlerInv, OwnFiles
  <2>4. CASE answer \in {"entry", "build"}
    BY <2>1, <2>2, <2>3, <2>4
    DEF Resolve, Step, request, HandlerInv, HandlerTyped, OwnFiles, Stages
  <2>5. CASE answer \notin {"entry", "build"}
    <3>1. answer \in Errors
      BY <2>5 DEF ResolveAnswers, Errors
    <3>2. Unwind(TargetFailure(answer))
      BY <2>1, <2>5 DEF Resolve
    <3> QED
      BY <2>2, <2>3, <3>1, <3>2, ErrorsHaveOutcomes, UnwindKeeps
  <2> QED
    BY <2>4, <2>5
<1>5. CASE \E here \in BOOLEAN : OpenTarget(here)
  <2>1. PICK here \in BOOLEAN : OpenTarget(here)
    BY <1>5
  <2>2. \A t \in temps : t.call = call => t.of = "candidate"
    BY <2>1 DEF OpenTarget, At, HandlerInv, OwnFiles
  <2>3. CASE here
    BY <2>1, <2>3 DEF OpenTarget, At, Step, request, HandlerInv, HandlerTyped, OwnFiles, Stages
  <2>4. CASE ~here /\ UsesStore
    BY <2>1, <2>4
    DEF OpenTarget, At, Step, Create, Temp, Temps, Kinds, request, HandlerInv, HandlerTyped,
        OwnFiles, Stages
  <2>5. CASE ~here /\ ~UsesStore
    <3>1. TargetFailure("UnsupportedMediaError") \in Ends
      BY ErrorsHaveOutcomes DEF Errors, EmbeddingErrors
    <3> QED
      BY <2>1, <2>2, <2>5, <3>1, UnwindKeeps DEF OpenTarget, At
  <2> QED
    BY <2>3, <2>4, <2>5
<1>6. CASE \E answer \in {"copied", "absent", "unreadable"} : FetchToTemp(answer)
  <2>1. PICK answer \in {"copied", "absent", "unreadable"} : FetchToTemp(answer)
    BY <1>6
  <2>2. \A t \in temps : t.call = call => t.of \in {"candidate", "target"}
    BY <2>1 DEF FetchToTemp, At, HandlerInv, OwnFiles
  <2>3. CASE answer = "copied"
    BY <2>1, <2>3 DEF FetchToTemp, At, Step, request, HandlerInv, HandlerTyped, OwnFiles, Stages
  <2>4. CASE answer = "absent"
    <3>1. TargetFailure("UnsupportedMediaError") \in Ends
      BY ErrorsHaveOutcomes DEF Errors, EmbeddingErrors
    <3>2. /\ Unwind(TargetFailure("UnsupportedMediaError")) /\ stage = "fetch"
          /\ temps' = temps \ {Temp("target")}
      BY <2>1, <2>4 DEF FetchToTemp, At, Remove
    <3>3. \A t \in temps' : t.call = call => t.of = "candidate"
      BY <2>2, <3>2 DEF Temp, HandlerInv, HandlerTyped, Temps
    <3> QED
      BY <3>1, <3>2, <3>3, UnwindKeeps
  <2>5. CASE answer = "unreadable"
    <3>1. /\ TargetFailure("SharedArtifactStoreError") \in Ends
          /\ TargetFailure("SharedArtifactStoreError").what = "SharedArtifactStoreError"
      BY ErrorsHaveOutcomes DEF Errors
    <3>2. /\ Unwind(TargetFailure("SharedArtifactStoreError")) /\ stage = "fetch"
          /\ temps' = temps
      BY <2>1, <2>5 DEF FetchToTemp, At
    <3> QED
      BY <2>2, <3>1, <3>2, UnwindKeeps
  <2> QED
    BY <2>3, <2>4, <2>5
<1>7. CASE EmbedTarget
  BY <1>7
  DEF EmbedTarget, At, Step, Create, Temp, Temps, Kinds, request, HandlerInv, HandlerTyped,
      OwnFiles, Stages
<1>8. CASE \E e \in EmbedOutcomes : TargetEmbedded(e)
  <2>1. PICK e \in EmbedOutcomes : TargetEmbedded(e)
    BY <1>8
  <2>2. stage = "target_frames" /\ temps' \subseteq temps
    BY <2>1 DEF TargetEmbedded, At, Remove
  <2>3. \A t \in temps' : t.call = call => t.of = "candidate"
    BY <2>1, <2>2
    DEF TargetEmbedded, Remove, Temp, HandlerInv, OwnFiles, HandlerTyped, Temps
  <2>4. CASE e = Ok
    BY <2>1, <2>2, <2>3, <2>4
    DEF TargetEmbedded, Step, request, HandlerInv, HandlerTyped, OwnFiles, Stages
  <2>5. CASE e # Ok
    <3>1. e \in Errors
      BY <2>5
      DEF EmbedOutcomes, InferenceOutcomes, FramesOutcome, FFmpegs, Errors, EmbeddingErrors, Ok
    <3> QED
      BY <2>1, <2>2, <2>3, <2>5, <3>1, ErrorsHaveOutcomes, UnwindKeeps DEF TargetEmbedded
  <2> QED
    BY <2>4, <2>5
<1>9. CASE \E e \in {Ok, "KeyError", "SharedArtifactStoreError", "OtherError"} : StoreEntry(e)
  <2>1. PICK e \in {Ok, "KeyError", "SharedArtifactStoreError", "OtherError"} : StoreEntry(e)
    BY <1>9
  <2>2. stage = "store" /\ temps' = temps /\ UNCHANGED request
    BY <2>1 DEF StoreEntry, At
  <2>3. \A t \in temps' : t.call = call => t.of = "candidate"
    BY <2>2 DEF HandlerInv, OwnFiles
  <2>4. CASE e = Ok
    BY <2>1, <2>2, <2>3, <2>4
    DEF StoreEntry, Step, request, HandlerInv, HandlerTyped, OwnFiles, Stages
  <2>5. CASE e # Ok
    <3>1. e \in Errors
      BY <2>5 DEF Errors
    <3> QED
      BY <2>1, <2>2, <2>3, <2>5, <3>1, ErrorsHaveOutcomes, UnwindKeeps DEF StoreEntry
  <2> QED
    BY <2>4, <2>5
<1>10. CASE \E verdict \in {"match", "no_match", "bad_vectors"} : Match(verdict)
  <2>1. PICK verdict \in {"match", "no_match", "bad_vectors"} : Match(verdict)
    BY <1>10
  <2>2. stage = "match" /\ temps' = temps
    BY <2>1 DEF Match, At
  <2>3. \A t \in temps' : t.call = call => t.of = "candidate"
    BY <2>2 DEF HandlerInv, OwnFiles
  <2>4. PICK r \in Ends : Unwind(r)
    <3>1. Outcome("raise", "OtherError") \in Ends
      BY DEF Outcome, Ends, Results, Errors
    <3>2. \A d \in {"match", "no_match"} : Outcome("result", d) \in Ends
      BY DEF Outcome, Ends, Results, Decisions
    <3>3. Combine(<<TemporalMatchToEvidence(verdict)>>) \in {"match", "no_match"}
      BY DEF Combine
    <3> QED
      BY <2>1, <3>1, <3>2, <3>3 DEF Match
  <2> QED
    BY <2>2, <2>3, <2>4, UnwindKeeps
<1>11. CASE Cleanup
  <2>1. pending \in Ends /\ stage = "cleanup" /\ Leave(pending) /\ temps' \subseteq temps
    BY <1>11 DEF Cleanup, At, Remove, HandlerInv, HandlerTyped, Ends
  <2> QED
    BY <2>1, EndsKeep
<1> QED
  BY <1>1, <1>2, <1>3, <1>4, <1>5, <1>6, <1>7, <1>8, <1>9, <1>10, <1>11 DEF Handle

---------------------------------------------------------------------------
(* The process around it.                                                  *)

ProcessTyped ==
  /\ proc \in Procs /\ run \in 0 .. MaxRuns
  /\ stop \in BOOLEAN /\ budget \in Minutes \union {-1} /\ held \in Seq(Claims)
  /\ counters \in [DOMAIN NoCounters -> Nat] /\ shown \subseteq Jobs
  /\ marker \in 0 .. MaxRuns /\ record \in [run : 0 .. MaxRuns, clean : BOOLEAN]
  /\ lost \subseteq [job : Jobs, call : 1 .. MaxCalls]
  /\ raised \in BOOLEAN /\ fetches \in Nat /\ wrote \subseteq {"marker", "record"}

(* What the two files say of this run, and of the ones before it.          *)
FilesInv ==
  /\ record.run <= run /\ marker <= run
  /\ ~In("off") \/ wrote # {} => run >= 1
  /\ proc \in {"constructing", "marking", "failing"} => wrote = {}
  /\ In("unmarking") => "record" \in wrote
  /\ run >= 1 /\ "record" \notin wrote => record.run < run
  /\ "record" \in wrote => record.run = run
  /\ "marker" \in wrote /\ "record" \notin wrote => marker = run
  /\ {"marker", "record"} \subseteq wrote => record.clean

(* A stop, once seen, keeps the loop from its next fetch; claims are in    *)
(* hand only while they are handled, or because an exception ended that.   *)
LoopInv ==
  /\ fetches \in {0, 1}
  /\ fetches = 1 => stop /\ proc \notin {"reclaim", "reading"}
  /\ raised => proc \in {"closing", "unmarking", "off"}
  /\ In("handling") => held # <<>>
  /\ proc \notin {"handling", "off"} /\ ~raised => held = <<>>
  /\ stage # "idle" => In("handling")

(* A call is fenced off at most once, so the fenced claims can be counted. *)
CountInv ==
  /\ IsFiniteSet(lost)
  /\ \A l \in lost : l.call <= call /\ (stage # "idle" => l.call < call)
  /\ CountersBalance

IInv == HandlerInv /\ ProcessTyped /\ FilesInv /\ LoopInv /\ CountInv

---------------------------------------------------------------------------
(* The counters, and the start.                                            *)
LEMMA CounterNames ==
  DOMAIN NoCounters = {"claimed", "reclaimed", "completed", "failed", "rejected", "retried",
                       "permanently_failed", "active", "attempts"}
  BY DEF NoCounters

LEMMA InitHolds == Init => IInv
<1> SUFFICES ASSUME Init PROVE IInv
  OBVIOUS
<1> USE HandlerAssumption, ProcessAssumption
<1>1. HandlerInv
  BY DEF Init, HandlerInit, HandlerInv, HandlerTyped, OwnFiles, Stages, Headers, NoOutcome, Outcome,
         Results
<1>2. ProcessTyped
  <2>1. counters \in [DOMAIN NoCounters -> Nat]
    BY DEF Init, NoCounters
  <2>2. held \in Seq(Claims)
    BY DEF Init
  <2>3. record \in [run : 0 .. MaxRuns, clean : BOOLEAN] /\ run \in 0 .. MaxRuns
    BY DEF Init
  <2> QED
    BY <2>1, <2>2, <2>3 DEF Init, ProcessTyped, Procs
<1>3. FilesInv /\ LoopInv
  BY DEF Init, HandlerInit, FilesInv, LoopInv, In
<1>4. CountInv
  <2>1. IsFiniteSet(lost) /\ Cardinality(lost) = 0 /\ lost = {}
    BY FS_EmptySet DEF Init
  <2>2. CountersBalance
    BY <2>1 DEF Init, NoCounters, CountersBalance, In
  <2> QED
    BY <2>1, <2>2 DEF CountInv
<1> QED
  BY <1>1, <1>2, <1>3, <1>4 DEF IInv

(* Steps that leave the handler and the counting alone.                    *)
Quiet == UNCHANGED <<hvars, window, held, lost>>

(* What the handler and the counters owe to a step that touches neither.   *)
LEMMA QuietKeeps ==
  ASSUME IInv, Quiet, ~In("off")
  PROVE  HandlerInv' /\ CountInv'
<1>1. HandlerInv'
  BY DEF IInv, HandlerInv, HandlerTyped, OwnFiles, Quiet, hvars
<1>2. CountInv'
  BY DEF IInv, CountInv, CountersBalance, In, Quiet, hvars, window
<1> QED
  BY <1>1, <1>2

(* main() up to the loop.                                                  *)
LEMMA StartKeeps ==
  ASSUME IInv, NEW minutes \in Minutes, NEW redis \in BOOLEAN, Start(minutes, redis)
  PROVE  IInv'
<1> USE HandlerAssumption, ProcessAssumption
<1>1. HandlerInv'
  BY DEF IInv, HandlerInv, HandlerTyped, OwnFiles, Start, hvars
<1>2. ProcessTyped'
  <2>1. counters' \in [DOMAIN NoCounters -> Nat]
    BY DEF Start, NoCounters
  <2>2. held' \in Seq(Claims)
    BY DEF Start
  <2>3. run' \in 0 .. MaxRuns
    BY DEF Start, IInv, ProcessTyped
  <2> QED
    BY <2>1, <2>2, <2>3 DEF Start, IInv, ProcessTyped, Procs, Goto
<1>3. FilesInv'
  <2>1. run \in Nat /\ marker \in Nat /\ record.run \in Nat
    BY DEF IInv, ProcessTyped
  <2> QED
    BY <2>1 DEF Start, IInv, FilesInv, In, Goto
<1>4. LoopInv'
  BY DEF Start, IInv, LoopInv, In, Goto, hvars
<1>5. CountInv'
  <2>1. IsFiniteSet(lost') /\ Cardinality(lost') = 0 /\ lost' = {}
    BY FS_EmptySet DEF Start
  <2>2. CountersBalance'
    BY <2>1 DEF Start, NoCounters, CountersBalance, In
  <2> QED
    BY <2>1, <2>2 DEF CountInv
<1> QED
  BY <1>1, <1>2, <1>3, <1>4, <1>5 DEF IInv

(* The steps of main() after the process has started.                      *)
LEMMA MainKeeps ==
  ASSUME IInv,
         \/ \E answer \in ConstructionFaults \union {Ok} : Construct(answer)
         \/ \E ok \in BOOLEAN : WriteMarker(ok) \/ WriteRecord(ok) \/ RemoveMarker(ok)
         \/ InstallHandlers
  PROVE  IInv'
<1> USE HandlerAssumption, ProcessAssumption
<1>1. CASE \E answer \in ConstructionFaults \union {Ok} : Construct(answer)
  <2>1. Quiet /\ ~In("off") /\ proc' \in {"marking", "failing"} /\ In("constructing")
        /\ UNCHANGED <<run, files, local>>
    BY <1>1 DEF Construct, Quiet, In, Goto, local
  <2>2. ProcessTyped'
    BY <2>1 DEF IInv, ProcessTyped, Quiet, window, files, local, Procs
  <2>3. FilesInv' /\ LoopInv'
    BY <2>1 DEF IInv, FilesInv, LoopInv, In, Quiet, files, local, hvars
  <2> QED
    BY <2>1, <2>2, <2>3, QuietKeeps DEF IInv
<1>2. CASE \E ok \in BOOLEAN : WriteMarker(ok)
  <2>1. PICK ok \in BOOLEAN : WriteMarker(ok)
    BY <1>2
  <2>2. /\ Quiet /\ ~In("off") /\ In("marking") /\ proc' = "installing"
        /\ UNCHANGED <<run, record, local>>
        /\ \/ marker' = run /\ wrote' = wrote \union {"marker"}
           \/ marker' = marker /\ wrote' = wrote
    BY <2>1 DEF WriteMarker, AtomicWrite, Quiet, In, Goto, local
  <2>3. ProcessTyped'
    <3>1. marker' \in 0 .. MaxRuns /\ wrote' \subseteq {"marker", "record"} /\ proc' \in Procs
      BY <2>2 DEF IInv, ProcessTyped, Procs
    <3> QED
      BY <2>2, <3>1 DEF IInv, ProcessTyped, Quiet, window, local
  <2>4. FilesInv'
    <3>1. CASE marker' = run /\ wrote' = wrote \union {"marker"}
      BY <2>2, <3>1 DEF IInv, ProcessTyped, FilesInv, In
    <3>2. CASE marker' = marker /\ wrote' = wrote
      BY <2>2, <3>2 DEF IInv, FilesInv, In
    <3> QED
      BY <2>2, <3>1, <3>2
  <2>5. LoopInv'
    BY <2>2 DEF IInv, LoopInv, In, Quiet, local, hvars
  <2> QED
    BY <2>2, <2>3, <2>4, <2>5, QuietKeeps DEF IInv
<1>3. CASE \E ok \in BOOLEAN : WriteRecord(ok)
  <2>1. PICK ok \in BOOLEAN : WriteRecord(ok)
    BY <1>3
  <2>2. /\ Quiet /\ ~In("off") /\ proc \in {"failing", "closing"}
        /\ UNCHANGED <<run, marker, local>>
        /\ \/ /\ proc' = "unmarking" /\ record' = [run |-> run, clean |-> In("closing")]
              /\ wrote' = wrote \union {"record"}
           \/ proc' = "off" /\ record' = record /\ wrote' = wrote
    BY <2>1 DEF WriteRecord, AtomicWrite, Quiet, In, Goto, local
  <2>3. record' \in [run : 0 .. MaxRuns, clean : BOOLEAN]
    <3>1. [run |-> run, clean |-> In("closing")] \in [run : 0 .. MaxRuns, clean : BOOLEAN]
      BY DEF IInv, ProcessTyped, In
    <3> QED
      BY <2>2, <3>1 DEF IInv, ProcessTyped
  <2>4. ProcessTyped'
    <3>1. wrote' \subseteq {"marker", "record"} /\ proc' \in Procs
      BY <2>2 DEF IInv, ProcessTyped, Procs
    <3> QED
      BY <2>2, <2>3, <3>1 DEF IInv, ProcessTyped, Quiet, window, local
  <2>5. FilesInv'
    <3>1. CASE record' = record /\ wrote' = wrote
      BY <2>2, <3>1 DEF IInv, FilesInv, In
    <3>2. CASE /\ record' = [run |-> run, clean |-> In("closing")]
               /\ wrote' = wrote \union {"record"} /\ proc' = "unmarking"
      <4>1. record'.run = run
        BY <3>2
      <4>2. "marker" \in wrote => record'.clean
        <5>1. "marker" \in wrote => In("closing")
          BY <2>2 DEF IInv, FilesInv, In
        <5>2. record'.clean = In("closing")
          BY <3>2
        <5> QED
          BY <5>1, <5>2, Zenon
      <4>3. run \in Nat /\ run >= 1 /\ marker <= run
        BY <2>2 DEF IInv, ProcessTyped, FilesInv
      <4> QED
        BY <2>2, <3>2, <4>1, <4>2, <4>3 DEF FilesInv, In
    <3> QED
      BY <2>2, <3>1, <3>2
  <2>6. LoopInv'
    BY <2>2 DEF IInv, LoopInv, In, Quiet, local, hvars
  <2> QED
    BY <2>2, <2>4, <2>5, <2>6, QuietKeeps DEF IInv
<1>4. CASE \E ok \in BOOLEAN : RemoveMarker(ok)
  <2>1. PICK ok \in BOOLEAN : RemoveMarker(ok)
    BY <1>4
  <2>2. /\ Quiet /\ ~In("off") /\ In("unmarking") /\ proc' = "off"
        /\ UNCHANGED <<run, record, wrote, local>> /\ marker' \in {0, marker}
    BY <2>1 DEF RemoveMarker, Quiet, In, Goto, local
  <2>3. ProcessTyped'
    BY <2>2 DEF IInv, ProcessTyped, Quiet, window, local, Procs
  <2>4. FilesInv' /\ LoopInv'
    BY <2>2 DEF IInv, ProcessTyped, FilesInv, LoopInv, In, Quiet, local, hvars
  <2> QED
    BY <2>2, <2>3, <2>4, QuietKeeps DEF IInv
<1>5. CASE InstallHandlers
  <2>1. Quiet /\ ~In("off") /\ In("installing") /\ proc' = "top" /\ UNCHANGED <<run, files, local>>
    BY <1>5 DEF InstallHandlers, Quiet, In, Goto, local
  <2>2. ProcessTyped'
    BY <2>1 DEF IInv, ProcessTyped, Quiet, window, files, local, Procs
  <2>3. FilesInv' /\ LoopInv'
    BY <2>1 DEF IInv, FilesInv, LoopInv, In, Quiet, files, local, hvars
  <2> QED
    BY <2>1, <2>2, <2>3, QuietKeeps DEF IInv
<1> QED
  BY <1>1, <1>2, <1>3, <1>4, <1>5

(* The steps of Worker.run between its calls.                              *)
LEMMA LoopKeeps ==
  ASSUME IInv,
         \/ Break \/ SkipReclaim \/ Promote \/ LoopFails
         \/ Pass("top", "reclaim") \/ Pass("promote", "promoting") \/ Pass("claim", "reading")
         \/ Expire \/ Signal
  PROVE  IInv'
<1> USE HandlerAssumption, ProcessAssumption
<1>1. Quiet /\ ~In("off") /\ UNCHANGED <<run, files, budget, fetches>>
  BY DEF Break, SkipReclaim, Promote, LoopFails, Pass, Expire, Signal, Installed, Quiet, In, local
<1>2. ProcessTyped'
  <2>1. proc' \in {"closing", "promote", "claim", "reclaim", "promoting", "reading", proc}
    BY DEF Break, SkipReclaim, Promote, LoopFails, Pass, Expire, Signal, In, Goto
  <2>2. stop' = TRUE \/ stop' = stop
    BY DEF Break, SkipReclaim, Promote, LoopFails, Pass, Expire, Signal, local
  <2>3. raised' = TRUE \/ raised' = raised
    BY DEF Break, SkipReclaim, Promote, LoopFails, Pass, Expire, Signal, local
  <2>4. proc' \in Procs
    BY <2>1 DEF Procs, IInv, ProcessTyped
  <2>5. stop' \in BOOLEAN /\ raised' \in BOOLEAN
    BY <2>2, <2>3 DEF IInv, ProcessTyped
  <2> QED
    BY <1>1, <2>4, <2>5 DEF IInv, ProcessTyped, Quiet, window, files
<1>3. FilesInv'
  <2>1. proc' \notin {"off", "constructing", "marking", "failing", "unmarking"}
        \/ proc' = proc
    BY DEF Break, SkipReclaim, Promote, LoopFails, Pass, Expire, Signal, In, Goto
  <2> QED
    BY <1>1, <2>1 DEF IInv, FilesInv, In, files
<1>4. LoopInv'
  <2>1. stage = "idle" \/ proc' = proc
    BY DEF Break, SkipReclaim, Promote, LoopFails, Pass, Expire, Signal, In, IInv, LoopInv
  <2>2. proc' # "handling" \/ proc' = proc
    BY DEF Break, SkipReclaim, Promote, LoopFails, Pass, Expire, Signal, In, Goto
  <2>3. proc' \in {"reclaim", "reading"} => ~stop \/ proc' = proc
    BY DEF Break, SkipReclaim, Promote, LoopFails, Pass, Expire, Signal, In, Goto, Calm
  <2>4. stop => stop'
    BY DEF Break, SkipReclaim, Promote, LoopFails, Pass, Expire, Signal, local
  <2>5. raised' => proc' \in {"closing", "unmarking", "off"}
    BY DEF Break, SkipReclaim, Promote, LoopFails, Pass, Expire, Signal, In, Goto, local, IInv,
           LoopInv
  <2>6. proc' # "handling" /\ proc' # "off" /\ ~raised' => held = <<>>
    BY DEF Break, SkipReclaim, Promote, LoopFails, Pass, Expire, Signal, In, Goto, local, IInv,
           LoopInv, Installed
  <2> QED
    BY <1>1, <2>1, <2>2, <2>3, <2>4, <2>5, <2>6 DEF IInv, LoopInv, In, Quiet, hvars
<1> QED
  BY <1>1, <1>2, <1>3, <1>4, QuietKeeps DEF IInv

(* One counter is raised, the others stay.                                 *)
LEMMA Bumped ==
  ASSUME NEW D, NEW c \in [D -> Nat], NEW k \in D, NEW n \in Nat
  PROVE  /\ [c EXCEPT ![k] = @ + n] \in [D -> Nat]
         /\ [c EXCEPT ![k] = @ + n][k] = c[k] + n
         /\ \A j \in D \ {k} : [c EXCEPT ![k] = @ + n][j] = c[j]
  OBVIOUS

AfterFetch(c, d, n) ==
  /\ d \in [DOMAIN NoCounters -> Nat]
  /\ d.active = c.active + n /\ d.attempts = c.attempts + n
  /\ d.completed = c.completed /\ d.failed = c.failed /\ d.retried = c.retried
  /\ d.permanently_failed = c.permanently_failed

(* What a fetch of n entries and r malformed ones does to the counters.    *)
LEMMA CountersOfFetch ==
  ASSUME NEW c \in [DOMAIN NoCounters -> Nat], NEW source \in {"reclaimed", "claimed"},
         NEW n \in Nat, NEW r \in {0, 1}
  PROVE  AfterFetch(c, Rejected(Started(c, source, n), source, r), n)
<1> DEFINE
      s1 == [c EXCEPT ![source] = @ + n]
      s2 == [s1 EXCEPT !["active"] = @ + n]
      s3 == [s2 EXCEPT !["attempts"] = @ + n]
      s4 == [s3 EXCEPT !["rejected"] = @ + r]
      s5 == [s4 EXCEPT !["reclaimed"] = @ + IF source = "reclaimed" THEN r ELSE 0]
<1>1. /\ s1 \in [DOMAIN NoCounters -> Nat]
      /\ \A k \in DOMAIN NoCounters \ {"claimed", "reclaimed"} : s1[k] = c[k]
  BY CounterNames, Bumped
<1>2. /\ s2 \in [DOMAIN NoCounters -> Nat] /\ s2["active"] = s1["active"] + n
      /\ \A k \in DOMAIN NoCounters \ {"active"} : s2[k] = s1[k]
  <2> HIDE DEF s1
  <2> QED
    BY <1>1, CounterNames, Bumped
<1>3. /\ s3 \in [DOMAIN NoCounters -> Nat] /\ s3["attempts"] = s2["attempts"] + n
      /\ \A k \in DOMAIN NoCounters \ {"attempts"} : s3[k] = s2[k]
  <2> HIDE DEF s2
  <2> QED
    BY <1>2, CounterNames, Bumped
<1>4. /\ s4 \in [DOMAIN NoCounters -> Nat]
      /\ \A k \in DOMAIN NoCounters \ {"rejected"} : s4[k] = s3[k]
  <2> HIDE DEF s3
  <2> QED
    BY <1>3, CounterNames, Bumped
<1>5. /\ s5 \in [DOMAIN NoCounters -> Nat]
      /\ \A k \in DOMAIN NoCounters \ {"reclaimed"} : s5[k] = s4[k]
  <2> HIDE DEF s4
  <2>1. (IF source = "reclaimed" THEN r ELSE 0) \in Nat
    OBVIOUS
  <2> QED
    BY <1>4, <2>1, CounterNames, Bumped
<1>6. Rejected(Started(c, source, n), source, r) = s5
  BY DEF Rejected, Started
<1> HIDE DEF s1, s2, s3, s4, s5
<1> QED
  BY <1>1, <1>2, <1>3, <1>4, <1>5, <1>6, CounterNames DEF AfterFetch

(* A fetch puts its claims in hand and counts them.                        *)
LEMMA FetchKeeps ==
  ASSUME IInv, NEW claims \in Seq(Claims), NEW source \in {"reclaimed", "claimed"},
         NEW rejected \in {0, 1}, proc \in {"reclaim", "reading"},
         Take(claims, source, rejected), Fetched,
         UNCHANGED <<hvars, run, files, stop, budget, lost>>,
         raised' \in BOOLEAN, raised' => proc' = "closing",
         proc' \in {"closing", "promote", "handling", "top"},
         proc' = "handling" => claims # <<>>,
         proc' # "handling" /\ ~raised' => claims = <<>>
  PROVE  IInv'
<1> USE HandlerAssumption, ProcessAssumption
<1>1. HandlerInv'
  BY DEF IInv, HandlerInv, HandlerTyped, OwnFiles, hvars
<1>2. held' = claims /\ held = <<>> /\ ~raised
  BY DEF IInv, LoopInv, Take, In
<1> DEFINE n == Len(claims)
<1>3. n \in Nat /\ \A i \in DOMAIN claims : claims[i] \in Claims /\ claims[i].job \in Jobs
  <2>1. DOMAIN claims = 1 .. n /\ n \in Nat /\ \A i \in 1 .. n : claims[i] \in Claims
    BY LenProperties, ElementOfSeq
  <2> QED
    BY <2>1 DEF Claims
<1>4. AfterFetch(counters, counters', n)
  <2>1. counters' = Rejected(Started(counters, source, n), source, rejected)
    BY DEF Take
  <2>2. counters \in [DOMAIN NoCounters -> Nat]
    BY DEF IInv, ProcessTyped
  <2> HIDE DEF n
  <2> QED
    BY <1>3, <2>1, <2>2, CountersOfFetch
<1>5. shown' = shown \union {claims[i].job : i \in DOMAIN claims}
  BY DEF Take, Show
<1>6. ProcessTyped'
  <2>1. shown' \subseteq Jobs
    BY <1>3, <1>5 DEF IInv, ProcessTyped
  <2>2. fetches' \in Nat
    BY DEF Fetched, IInv, ProcessTyped
  <2>3. proc' \in Procs
    BY DEF Procs
  <2> QED
    BY <1>2, <1>4, <2>1, <2>2, <2>3 DEF IInv, ProcessTyped, files, AfterFetch
<1>7. FilesInv'
  BY DEF IInv, FilesInv, In, files
<1>8. LoopInv'
  <2>1. fetches = 0 /\ stage = "idle"
    BY DEF IInv, LoopInv, In
  <2>2. fetches' \in {0, 1} /\ (fetches' = 1 => stop)
    BY <2>1 DEF Fetched
  <2> QED
    BY <1>2, <2>1, <2>2 DEF LoopInv, In, hvars
<1>9. CountInv'
  <2>1. stage = "idle" /\ stage' = "idle" /\ call' = call /\ lost' = lost
    BY DEF IInv, LoopInv, In, hvars
  <2>2. Len(held) = 0 /\ Cardinality(lost) \in Nat /\ proc # "off"
    BY <1>2, FS_CardinalityType DEF IInv, CountInv
  <2>3. shown \subseteq {l.job : l \in lost}
    BY <1>2 DEF IInv, CountInv, CountersBalance
  <2>4. shown' \subseteq {held'[i].job : i \in DOMAIN held'} \union {l.job : l \in lost'}
    BY <1>2, <1>5, <2>1, <2>3
  <2>5. /\ counters.active = Len(held) + Cardinality(lost)
        /\ counters.attempts = counters.completed + counters.failed + counters.retried
                                 + counters.permanently_failed + counters.active
    BY <2>2 DEF IInv, CountInv, CountersBalance, In
  <2>6. /\ counters.active \in Nat /\ counters.completed \in Nat /\ counters.failed \in Nat
        /\ counters.retried \in Nat /\ counters.permanently_failed \in Nat
    BY CounterNames DEF IInv, ProcessTyped
  <2>7. counters'.active = Len(held') + Cardinality(lost')
    BY <1>2, <1>3, <1>4, <2>1, <2>2, <2>5 DEF AfterFetch
  <2>8. counters'.attempts = counters'.completed + counters'.failed + counters'.retried
                               + counters'.permanently_failed + counters'.active
    <3>1. /\ counters'.attempts = counters.attempts + n
          /\ counters'.active = counters.active + n
          /\ counters'.completed = counters.completed /\ counters'.failed = counters.failed
          /\ counters'.retried = counters.retried
          /\ counters'.permanently_failed = counters.permanently_failed
      BY <1>4 DEF AfterFetch
    <3>2. n \in Nat
      BY <1>3
    <3> HIDE DEF n
    <3> QED
      BY <2>5, <2>6, <3>1, <3>2
  <2>9. CountersBalance'
    BY <2>4, <2>7, <2>8 DEF CountersBalance
  <2> QED
    BY <2>1, <2>9 DEF IInv, CountInv
<1> QED
  BY <1>1, <1>6, <1>7, <1>8, <1>9 DEF IInv

(* A step of the handler stays within its call.                            *)
LEMMA HandleIsOneCall == Handle => stage # "idle" /\ call' = call
<1> SUFFICES ASSUME Handle PROVE stage # "idle" /\ call' = call
  OBVIOUS
<1>1. CASE Acquire
  BY <1>1
  DEF Acquire, CheckThisHop, SendFails, Follow, Refuse, Accept, OpenFile, StreamToDisk, Validate,
      At, Step, Leave
<1>2. CASE ~Acquire
  BY <1>2
  DEF Handle, EmbedCandidate, CandidateEmbedded, Resolve, OpenTarget, FetchToTemp, EmbedTarget,
      TargetEmbedded, StoreEntry, Match, Cleanup, At, Step, Leave, Unwind
<1> QED
  BY <1>1, <1>2

(* A call and its steps leave the loop and the counters alone.             *)
LEMMA HandlerKeeps ==
  ASSUME IInv, (\E named \in BOOLEAN : CallHandler(named)) \/ HandlerStep
  PROVE  IInv'
<1> USE HandlerAssumption, ProcessAssumption
<1>1. HandlerInv' /\ In("handling") /\ UNCHANGED pvars
  BY BeginKeeps, HandleKeeps DEF CallHandler, HandlerStep, IInv
<1>2. ProcessTyped'
  BY <1>1 DEF IInv, ProcessTyped, pvars, window, files, local
<1>3. FilesInv'
  BY <1>1 DEF IInv, FilesInv, In, pvars, files
<1>4. LoopInv'
  BY <1>1 DEF IInv, LoopInv, In, pvars, local
<1>5. CountInv'
  <2>1. CountersBalance' /\ lost' = lost
    BY <1>1 DEF IInv, CountInv, CountersBalance, In, pvars, window, local
  <2>2. call \in Nat /\ \A l \in lost : l.call \in Nat /\ l.call <= call
    BY DEF IInv, HandlerInv, HandlerTyped, ProcessTyped, CountInv
  <2>3. \/ stage # "idle" /\ call' = call
        \/ call' = call + 1
    BY HandleIsOneCall DEF CallHandler, HandlerStep, Begin
  <2>4. \A l \in lost : l.call < call'
    BY <2>2, <2>3 DEF IInv, CountInv
  <2>5. call' \in Nat
    BY <2>2, <2>3
  <2> QED
    BY <2>1, <2>2, <2>4, <2>5 DEF IInv, CountInv
<1> QED
  BY <1>1, <1>2, <1>3, <1>4, <1>5 DEF IInv

(* The handler is done, or gone.                                           *)
LEMMA DoneKeeps ==
  ASSUME HandlerInv, stage' = "idle", pending' = NoOutcome, UNCHANGED <<call, temps>>,
         UNCHANGED request \/ Forget
  PROVE  HandlerInv'
<1> USE HandlerAssumption
<1>1. HandlerTyped'
  BY DEF HandlerInv, HandlerTyped, request, Forget, Stages, Headers, NoOutcome, Outcome, Results
<1>2. OwnFiles'
  BY DEF HandlerInv, OwnFiles
<1> QED
  BY <1>1, <1>2 DEF HandlerInv, request, Forget

(* A kill leaves the files of the process and nothing else.                *)
LEMMA KillKeeps == IInv /\ Kill => IInv'
<1> SUFFICES ASSUME IInv, Kill PROVE IInv'
  OBVIOUS
<1>1. /\ stage' = "idle" /\ pending' = NoOutcome /\ Forget /\ proc' = "off" /\ ~In("off")
      /\ UNCHANGED <<call, temps, run, window, files, local>>
  BY DEF Kill, Goto
<1>2. HandlerInv'
  BY <1>1, DoneKeeps DEF IInv
<1>3. ProcessTyped'
  BY <1>1 DEF IInv, ProcessTyped, window, files, local, Procs
<1>4. FilesInv' /\ LoopInv'
  BY <1>1 DEF IInv, FilesInv, LoopInv, In, files, local
<1>5. CountInv'
  BY <1>1 DEF IInv, CountInv, CountersBalance, In, window, local
<1> QED
  BY <1>2, <1>3, <1>4, <1>5 DEF IInv

(* An exception ends the loop with its claims unhandled.                   *)
LEMMA RaiseKeeps == IInv /\ Raise => IInv'
<1> SUFFICES ASSUME IInv, Raise PROVE IInv'
  OBVIOUS
<1>1. /\ stage' = "idle" /\ pending' = NoOutcome /\ proc' = "closing" /\ proc = "handling"
      /\ raised' = TRUE
      /\ UNCHANGED <<call, request, temps, run, window, files, stop, budget, held, lost, fetches>>
  BY DEF Raise, Goto, In
<1>2. HandlerInv'
  BY <1>1, DoneKeeps DEF IInv
<1>3. ProcessTyped'
  BY <1>1 DEF IInv, ProcessTyped, window, files, Procs
<1>4. FilesInv' /\ LoopInv'
  BY <1>1 DEF IInv, FilesInv, LoopInv, In, files
<1>5. CountInv'
  BY <1>1 DEF IInv, CountInv, CountersBalance, In, window
<1> QED
  BY <1>2, <1>3, <1>4, <1>5 DEF IInv

(* An attempt that ended is counted once more, and is active no more.      *)
LEMMA CountersOfEnd ==
  ASSUME NEW c \in [DOMAIN NoCounters -> Nat], c.active >= 1,
         NEW how \in {"completed", "failed", "retried", "permanently_failed"}
  PROVE  /\ Ended(c, how) \in [DOMAIN NoCounters -> Nat]
         /\ Ended(c, how).active = c.active - 1
         /\ Ended(c, how).attempts = c.attempts
         /\ Ended(c, how).completed + Ended(c, how).failed + Ended(c, how).retried
              + Ended(c, how).permanently_failed
            = c.completed + c.failed + c.retried + c.permanently_failed + 1
<1> DEFINE
      s1 == [c EXCEPT ![how] = @ + 1]
      s2 == [s1 EXCEPT !["active"] = IF @ > 0 THEN @ - 1 ELSE 0]
<1>1. /\ s1 \in [DOMAIN NoCounters -> Nat] /\ s1[how] = c[how] + 1
      /\ \A k \in DOMAIN NoCounters \ {how} : s1[k] = c[k]
  BY CounterNames, Bumped
<1>2. /\ s2 \in [DOMAIN NoCounters -> Nat] /\ s2["active"] = s1["active"] - 1
      /\ \A k \in DOMAIN NoCounters \ {"active"} : s2[k] = s1[k]
  <2>1. s1["active"] \in Nat /\ s1["active"] >= 1
    BY <1>1, CounterNames
  <2> HIDE DEF s1
  <2> QED
    BY <1>1, <2>1, CounterNames
<1>3. Ended(c, how) = s2
  BY DEF Ended
<1>4. \A k \in DOMAIN NoCounters : c[k] \in Nat
  OBVIOUS
<1> HIDE DEF s1, s2
<1> QED
  BY <1>1, <1>2, <1>3, <1>4, CounterNames

(* An outcome is counted and the gauge drops.                              *)
LEMMA OneMoreOneLess ==
  ASSUME NEW c \in Nat, NEW f \in Nat, NEW r \in Nat, NEW p \in Nat, NEW active \in Nat,
         NEW c2 \in Nat, NEW f2 \in Nat, NEW r2 \in Nat, NEW p2 \in Nat,
         c2 + f2 + r2 + p2 = c + f + r + p + 1
  PROVE  c + f + r + p + active = c2 + f2 + r2 + p2 + (active - 1)
  OBVIOUS

(* The end of a claim: counted and shown no more, or fenced off and lost.  *)
LEMMA FinalizeKeeps ==
  ASSUME IInv, NEW current \in BOOLEAN, NEW last \in BOOLEAN, Finalize(current, last)
  PROVE  IInv'
<1> USE HandlerAssumption, ProcessAssumption
<1> DEFINE claim == Head(held)
<1>1. /\ stage = "over" /\ stage' = "idle" /\ pending' = NoOutcome /\ proc = "handling"
      /\ UNCHANGED <<call, request, temps, run, files, stop, budget, raised, fetches>>
      /\ held' = Tail(held) /\ proc' = AfterClaim(Tail(held), claim.source)
  BY DEF Finalize, At, In, Goto
<1>2. /\ held # <<>> /\ held \in Seq(Claims) /\ claim \in Claims /\ Tail(held) \in Seq(Claims)
      /\ Len(Tail(held)) = Len(held) - 1 /\ Len(held) \in Nat \ {0}
  BY <1>1, HeadTailProperties, EmptySeq DEF IInv, LoopInv, In, ProcessTyped
<1>3. \A i \in DOMAIN held : held[i] = claim \/ \E j \in DOMAIN Tail(held) : held[i] = Tail(held)[j]
  <2> TAKE i \in DOMAIN held
  <2>1. DOMAIN held = 1 .. Len(held) /\ DOMAIN Tail(held) = 1 .. Len(Tail(held))
    BY <1>2, LenProperties
  <2>2. CASE i = 1
    BY <1>2, <2>2
  <2>3. CASE i # 1
    <3>1. i - 1 \in 1 .. Len(Tail(held)) /\ Tail(held)[i - 1] = held[(i - 1) + 1]
      BY <1>2, <2>1, <2>3, HeadTailProperties
    <3> QED
      BY <1>2, <2>1, <2>3, <3>1
  <2> QED
    BY <2>2, <2>3
<1>4. HandlerInv'
  BY <1>1, DoneKeeps DEF IInv
<1>5. proc' \in {"handling", "promote", "top"} /\ (proc' = "handling" <=> Tail(held) # <<>>)
  BY <1>1 DEF AfterClaim
<1>6. FilesInv'
  BY <1>1, <1>5 DEF IInv, FilesInv, In, files
<1>7. LoopInv'
  BY <1>1, <1>5 DEF IInv, LoopInv, In
<1>8. /\ IsFiniteSet(lost) /\ Cardinality(lost) \in Nat
      /\ \A l \in lost : l.call < call
      /\ call \in 1 .. MaxCalls
  BY <1>1, FS_CardinalityType DEF IInv, CountInv, HandlerInv, HandlerTyped
<1>9. /\ counters.active = Len(held) + Cardinality(lost)
      /\ counters.attempts = counters.completed + counters.failed + counters.retried
                               + counters.permanently_failed + counters.active
      /\ shown \subseteq {held[i].job : i \in DOMAIN held} \union {l.job : l \in lost}
      /\ counters \in [DOMAIN NoCounters -> Nat] /\ shown \subseteq Jobs
  BY <1>1 DEF IInv, CountInv, CountersBalance, In, ProcessTyped
<1>10. /\ counters.active \in Nat /\ counters.completed \in Nat /\ counters.failed \in Nat
       /\ counters.retried \in Nat /\ counters.permanently_failed \in Nat
  BY <1>9, CounterNames
<1>11. claim.job \in Jobs
  BY <1>2 DEF Claims
<1>12. shown \ {claim.job} \subseteq {Tail(held)[i].job : i \in DOMAIN Tail(held)}
                                      \union {l.job : l \in lost}
  <2> SUFFICES ASSUME NEW j \in shown, j # claim.job, j \notin {l.job : l \in lost}
               PROVE  j \in {Tail(held)[i].job : i \in DOMAIN Tail(held)}
    OBVIOUS
  <2>1. PICK i \in DOMAIN held : j = held[i].job
    BY <1>9
  <2>2. held[i] # claim
    BY <2>1
  <2>3. PICK k \in DOMAIN Tail(held) : held[i] = Tail(held)[k]
    BY <1>3, <2>2
  <2> HIDE DEF claim
  <2> QED
    BY <2>1, <2>3
<1> HIDE DEF claim
<1>13. CASE current
  <2>1. PICK how \in {"completed", "failed", "retried", "permanently_failed"} :
               counters' = Ended(counters, how)
    <3>1. pending.kind \in {"result", "permanent", "transient"}
      BY <1>1 DEF Finalize, IInv, HandlerInv, HandlerTyped, Results
    <3>2. How(pending, last) \in {"completed", "failed", "retried", "permanently_failed"}
      BY <3>1 DEF How
    <3> QED
      BY <1>13, <3>2 DEF Finalize
  <2>2. shown' = shown \ {claim.job} /\ lost' = lost
    BY <1>13 DEF Finalize, Forgotten, claim
  <2>3. counters.active >= 1
    BY <1>2, <1>8, <1>9
  <2>4. /\ counters' \in [DOMAIN NoCounters -> Nat]
        /\ counters'.active = counters.active - 1 /\ counters'.attempts = counters.attempts
        /\ counters'.completed + counters'.failed + counters'.retried + counters'.permanently_failed
           = counters.completed + counters.failed + counters.retried
               + counters.permanently_failed + 1
    <3>1. counters \in [DOMAIN NoCounters -> Nat]
      BY <1>9
    <3> QED
      BY <2>1, <2>3, <3>1, CountersOfEnd
  <2>5. ProcessTyped'
    BY <1>1, <1>2, <1>5, <1>9, <2>2, <2>4 DEF IInv, ProcessTyped, files, Procs
  <2>6. counters'.active = Len(held') + Cardinality(lost')
    BY <1>1, <1>2, <1>8, <1>9, <2>2, <2>4
  <2>7. /\ counters'.completed \in Nat /\ counters'.failed \in Nat /\ counters'.retried \in Nat
        /\ counters'.permanently_failed \in Nat
    BY <2>4, CounterNames
  <2>8. counters'.attempts = counters'.completed + counters'.failed + counters'.retried
                               + counters'.permanently_failed + counters'.active
    <3>1. counters.completed + counters.failed + counters.retried + counters.permanently_failed
            + counters.active
          = counters'.completed + counters'.failed + counters'.retried
              + counters'.permanently_failed + (counters.active - 1)
      <4>1. counters'.completed + counters'.failed + counters'.retried
              + counters'.permanently_failed
            = counters.completed + counters.failed + counters.retried
                + counters.permanently_failed + 1
        BY <2>4
      <4> QED
        BY <1>10, <2>7, <4>1, OneMoreOneLess
    <3>2. /\ counters'.active = counters.active - 1
          /\ counters'.attempts = counters.attempts
      BY <2>4
    <3>3. counters.attempts = counters.completed + counters.failed + counters.retried
                                + counters.permanently_failed + counters.active
      BY <1>9
    <3> QED
      BY <3>1, <3>2, <3>3
  <2>9. CountersBalance'
    BY <1>1, <1>12, <2>2, <2>6, <2>8 DEF CountersBalance
  <2> QED
    BY <1>1, <1>4, <1>6, <1>7, <1>8, <2>2, <2>5, <2>9 DEF IInv, CountInv
<1>14. CASE ~current
  <2> DEFINE x == [job |-> claim.job, call |-> call]
  <2>1. lost' = lost \union {x} /\ UNCHANGED window
    BY <1>14 DEF Finalize, claim
  <2>2. x \notin lost
    BY <1>8
  <2>3. IsFiniteSet(lost') /\ Cardinality(lost') = Cardinality(lost) + 1
    BY <1>8, <2>1, <2>2, FS_AddElement
  <2>4. x \in [job : Jobs, call : 1 .. MaxCalls] /\ x.job = claim.job /\ x.call = call
    BY <1>8, <1>11
  <2> HIDE DEF x
  <2>5. ProcessTyped'
    BY <1>1, <1>2, <1>5, <2>1, <2>4 DEF IInv, ProcessTyped, window, files, Procs
  <2>6. counters'.active = Len(held') + Cardinality(lost')
    BY <1>1, <1>2, <1>8, <1>9, <2>1, <2>3 DEF window
  <2>7. shown' \subseteq {held'[i].job : i \in DOMAIN held'} \union {l.job : l \in lost'}
    BY <1>1, <1>12, <2>1, <2>4 DEF window
  <2>8. CountersBalance'
    BY <1>1, <1>9, <2>1, <2>6, <2>7 DEF CountersBalance, window
  <2>9. \A l \in lost' : l.call <= call
    <3>1. \A l \in lost : l.call \in Nat
      BY DEF IInv, ProcessTyped
    <3>2. \A l \in lost : l.call <= call
      BY <1>8, <3>1
    <3>3. x.call <= call
      BY <1>8, <2>4
    <3> QED
      BY <2>1, <3>2, <3>3
  <2> QED
    BY <1>1, <1>4, <1>6, <1>7, <2>3, <2>5, <2>8, <2>9 DEF IInv, CountInv
<1> QED
  BY <1>13, <1>14

(* Every step keeps all of it ...                                          *)
LEMMA NextKeeps == IInv /\ [Next]_vars => IInv'
<1> SUFFICES ASSUME IInv, [Next]_vars PROVE IInv'
  OBVIOUS
<1>1. CASE \E minutes \in Minutes, redis \in BOOLEAN : Start(minutes, redis)
  BY <1>1, StartKeeps
<1>2. CASE \/ \E answer \in ConstructionFaults \union {Ok} : Construct(answer)
           \/ \E ok \in BOOLEAN : WriteMarker(ok) \/ WriteRecord(ok) \/ RemoveMarker(ok)
           \/ InstallHandlers
  BY <1>2, MainKeeps
<1>3. CASE \/ Break \/ SkipReclaim \/ Promote \/ LoopFails
           \/ Pass("top", "reclaim") \/ Pass("promote", "promoting") \/ Pass("claim", "reading")
           \/ Expire \/ Signal
  BY <1>3, LoopKeeps
<1>4. CASE \E claims \in Batches, rejected \in {0, 1}, ok \in BOOLEAN :
             Reclaim(claims, rejected, ok)
  <2>1. PICK claims \in Batches, rejected \in {0, 1}, ok \in BOOLEAN :
               Reclaim(claims, rejected, ok)
    BY <1>4
  <2>2. claims \in Seq(Claims)
    <3>1. PICK n \in 0 .. BatchSize : claims \in [1 .. n -> Claims]
      BY DEF Batches
    <3> QED
      BY <3>1, ProcessAssumption
  <2>3. /\ proc = "reclaim" /\ Take(claims, "reclaimed", rejected) /\ Fetched
        /\ UNCHANGED <<hvars, run, files, stop, budget, lost>> /\ raised' = ~ok
        /\ proc' = IF ~ok THEN "closing" ELSE IF claims = <<>> THEN "promote" ELSE "handling"
    BY <2>1 DEF Reclaim, In, Goto
  <2> QED
    BY <2>2, <2>3, FetchKeeps
<1>5. CASE \/ \E claim \in Claims : ClaimOne(<<claim>>, 0)
           \/ \E rejected \in {0, 1} : ClaimOne(<<>>, rejected)
  <2>1. PICK claims \in Seq(Claims), rejected \in {0, 1} : ClaimOne(claims, rejected)
    <3>1. <<>> \in Seq(Claims) /\ \A claim \in Claims : <<claim>> \in Seq(Claims)
      OBVIOUS
    <3>2. CASE \E claim \in Claims : ClaimOne(<<claim>>, 0)
      BY <3>1, <3>2
    <3>3. CASE \E rejected \in {0, 1} : ClaimOne(<<>>, rejected)
      BY <3>1, <3>3
    <3> QED
      BY <1>5, <3>2, <3>3
  <2>2. /\ proc = "reading" /\ Take(claims, "claimed", rejected) /\ Fetched
        /\ UNCHANGED <<hvars, run, files, stop, budget, lost, raised>>
        /\ proc' = IF claims = <<>> THEN "top" ELSE "handling"
    BY <2>1 DEF ClaimOne, In, Goto
  <2>3. raised' \in BOOLEAN /\ ~raised'
    BY <2>2 DEF IInv, ProcessTyped, LoopInv
  <2> QED
    BY <2>2, <2>3, FetchKeeps
<1>6. CASE (\E named \in BOOLEAN : CallHandler(named)) \/ HandlerStep
  BY <1>6, HandlerKeeps
<1>7. CASE \E current, last \in BOOLEAN : Finalize(current, last)
  BY <1>7, FinalizeKeeps
<1>8. CASE Raise
  BY <1>8, RaiseKeeps
<1>9. CASE Kill
  BY <1>9, KillKeeps
<1>10. CASE UNCHANGED vars
  <2>1. HandlerInv'
    BY <1>10 DEF IInv, HandlerInv, HandlerTyped, OwnFiles, vars, hvars
  <2>2. ProcessTyped'
    BY <1>10 DEF IInv, ProcessTyped, vars, pvars, window, files, local
  <2>3. FilesInv' /\ LoopInv'
    BY <1>10 DEF IInv, FilesInv, LoopInv, In, vars, hvars, pvars, files, local
  <2>4. CountInv'
    BY <1>10 DEF IInv, CountInv, CountersBalance, In, vars, hvars, pvars, window, local
  <2> QED
    BY <2>1, <2>2, <2>3, <2>4 DEF IInv
<1> QED
  BY <1>1, <1>2, <1>3, <1>4, <1>5, <1>6, <1>7, <1>8, <1>9, <1>10 DEF Next, Proceed

---------------------------------------------------------------------------
(* ... so it holds of every behaviour.                                     *)
LEMMA InvariantHolds == Spec => []IInv
<1> QED
  BY InitHolds, NextKeeps, PTL DEF Spec

(* Every variable of the process and its handler keeps its type.           *)
THEOREM TypeCorrect == Spec => []TypeOK
<1>1. IInv => TypeOK
  BY DEF IInv, HandlerInv, HandlerTyped, ProcessTyped, TypeOK
<1> QED
  BY <1>1, InvariantHolds, PTL

(* No hop of a redirect chain is asked before it was checked, however long *)
(* a chain is allowed (acquirer.py:112-131).                               *)
THEOREM HopsAreChecked == Spec => []EveryHopIsChecked
<1>1. IInv => EveryHopIsChecked
  <2> SUFFICES ASSUME IInv PROVE EveryHopIsChecked
    OBVIOUS
  <2> USE HandlerAssumption
  <2>1. asked \subseteq checked /\ asked \subseteq 0 .. MaxRedirects
    BY DEF IInv, HandlerInv, HandlerTyped
  <2>2. IsFiniteSet(0 .. MaxRedirects) /\ Cardinality(0 .. MaxRedirects) = MaxRedirects + 1
    BY FS_Interval
  <2>3. Cardinality(asked) <= Cardinality(0 .. MaxRedirects)
    BY <2>1, <2>2, FS_Subset
  <2> QED
    BY <2>1, <2>2, <2>3 DEF EveryHopIsChecked
<1> QED
  BY <1>1, InvariantHolds, PTL

(* The counters add up in any run, of any length, with any batch size      *)
(* (observability.py:918-998).                                             *)
THEOREM CountersAddUp == Spec => []CountersBalance
<1>1. IInv => CountersBalance
  BY DEF IInv, CountInv
<1> QED
  BY <1>1, InvariantHolds, PTL

(* After any number of runs the two files tell of the last one that wrote  *)
(* its marker whether it got to its record (observability.py:1094-1117).   *)
THEOREM CrashesAreTold == Spec => []MarkerTellsCrash
<1>1. IInv => MarkerTellsCrash
  <2> SUFFICES ASSUME IInv, In("off"), "marker" \in wrote
               PROVE  LooksCrashed <=> "record" \notin wrote
    BY DEF MarkerTellsCrash
  <2>1. run \in Nat /\ marker \in Nat /\ record.run \in Nat
    BY DEF IInv, ProcessTyped
  <2>2. run >= 1 /\ marker <= run
    BY DEF IInv, FilesInv
  <2>3. CASE "record" \in wrote
    BY <2>1, <2>2, <2>3 DEF IInv, FilesInv, LooksCrashed
  <2>4. CASE "record" \notin wrote
    BY <2>1, <2>2, <2>4 DEF IInv, FilesInv, LooksCrashed
  <2> QED
    BY <2>3, <2>4
<1> QED
  BY <1>1, InvariantHolds, PTL

(* After a stop request at most one fetch takes entries, and no claim is   *)
(* left unhandled unless an exception ended the loop                       *)
(* (fingerprint_worker.py:561-605).                                        *)
THEOREM StopsAreOrderly == Spec => []StopIsOrderly
<1>1. IInv => StopIsOrderly
  BY DEF IInv, LoopInv, StopIsOrderly
<1> QED
  BY <1>1, InvariantHolds, PTL

(* The temporary files a call leaves behind are those of a kill, of a      *)
(* validator that fails unexpectedly, and of a shared store that could not *)
(* be read (acquirer.py:141-147, shared_storage.py:232).                   *)
THEOREM OnlyKnownLeaks == Spec => LeaksAreKnown
<1> DEFINE
      Known(t) ==
        \/ Killed
        \/ t.of = "candidate" /\ stage = "validate" /\ pending'.what = "OtherError"
        \/ t.of = "target" /\ pending'.what = "SharedArtifactStoreError"
      Leak == CallEnds => \A t \in temps' : t.call = call => Known(t)
<1>1. IInv /\ [Next]_vars => [Leak]_vars
  <2> SUFFICES ASSUME IInv, Next, CallEnds, ~Killed, NEW t \in temps', t.call = call
               PROVE  Known(t)
    BY DEF vars
  <2>1. HandlerStep
    BY DEF CallEnds, Killed, Next, Proceed, Start, Construct, WriteMarker, WriteRecord,
           RemoveMarker, InstallHandlers, Break, Expire, Pass, SkipReclaim, Promote, LoopFails,
           Reclaim, ClaimOne, CallHandler, Begin, Finalize, Raise, Signal, Kill, At, Goto, hvars
  <2>2. /\ Handle /\ stage \notin {"idle", "over"} /\ stage' \in {"idle", "over"} /\ call' = call
    BY <2>1, HandleIsOneCall DEF HandlerStep, CallEnds
  <2>3. /\ \A s \in temps : s.call = call =>
             \/ s.of = "candidate" /\ stage \notin {"hop", "send", "open"}
             \/ s.of = "frames" /\ stage \in {"frames", "target_frames"}
             \/ s.of = "target" /\ stage \in {"fetch", "target", "target_frames"}
             \/ s.of = "target" /\ stage = "cleanup" /\ pending.what = "SharedArtifactStoreError"
    BY <2>2 DEF IInv, HandlerInv, OwnFiles
  <2>4. stage \in {"hop", "send", "open", "stream", "validate", "cleanup"}
    BY <2>2
    DEF Handle, Acquire, CheckThisHop, SendFails, Follow, Refuse, Accept, OpenFile, StreamToDisk,
        Validate, EmbedCandidate, CandidateEmbedded, Resolve, OpenTarget, FetchToTemp, EmbedTarget,
        TargetEmbedded, StoreEntry, Match, Cleanup, At, Step, Unwind
  <2>5. temps' \subseteq temps
    BY <2>2, <2>4
    DEF Handle, Acquire, CheckThisHop, SendFails, Follow, Refuse, Accept, OpenFile, StreamToDisk,
        Validate, EmbedCandidate, CandidateEmbedded, Resolve, OpenTarget, FetchToTemp, EmbedTarget,
        TargetEmbedded, StoreEntry, Match, Cleanup, At, Step, Remove
  <2>6. CASE stage \in {"hop", "send", "open"}
    BY <2>3, <2>5, <2>6
  <2>7. CASE stage = "stream"
    <3>1. t # Temp("candidate")
      BY <2>2, <2>7
      DEF Handle, Acquire, CheckThisHop, SendFails, Follow, Refuse, Accept, OpenFile,
          StreamToDisk, Validate, EmbedCandidate, CandidateEmbedded, Resolve, OpenTarget,
          FetchToTemp, EmbedTarget, TargetEmbedded, StoreEntry, Match, Cleanup, At, Step, Remove
    <3> QED
      BY <2>3, <2>5, <2>7, <3>1 DEF Temp, IInv, HandlerInv, HandlerTyped, Temps
  <2>8. CASE stage = "validate"
    <3>1. PICK probe \in Probes : Validate(probe)
      BY <2>2, <2>8
      DEF Handle, Acquire, CheckThisHop, SendFails, Follow, Refuse, Accept, OpenFile,
          StreamToDisk, EmbedCandidate, CandidateEmbedded, Resolve, OpenTarget,
          FetchToTemp, EmbedTarget, TargetEmbedded, StoreEntry, Match, Cleanup, At
    <3>2. ProbeOutcome(probe) \in {Ok, "InvalidMediaError", "OtherError"}
      BY DEF ProbeOutcome, Probes
    <3>3. ProbeOutcome(probe) # Ok
      BY <2>2, <3>1 DEF Validate, Step
    <3>4. t.of = "candidate"
      BY <2>3, <2>5, <2>8
    <3>5. CASE ProbeOutcome(probe) = "InvalidMediaError"
      <4>1. t # Temp("candidate")
        BY <3>1, <3>3, <3>5 DEF Validate, Discards, Remove
      <4> QED
        BY <2>5, <3>4, <4>1 DEF Temp, IInv, HandlerInv, HandlerTyped, Temps
    <3>6. CASE ProbeOutcome(probe) = "OtherError"
      <4>1. pending' = AcquisitionFailure("OtherError")
        BY <3>1, <3>3, <3>6 DEF Validate, Leave, Over
      <4>2. pending'.what = "OtherError"
        BY <4>1, ErrorsHaveOutcomes DEF Errors
      <4> QED
        BY <2>8, <3>4, <4>2
    <3> QED
      BY <3>2, <3>3, <3>5, <3>6
  <2>9. CASE stage = "cleanup"
    <3>1. Cleanup
      BY <2>2, <2>9
      DEF Handle, Acquire, CheckThisHop, SendFails, Follow, Refuse, Accept, OpenFile,
          StreamToDisk, Validate, EmbedCandidate, CandidateEmbedded, Resolve, OpenTarget,
          FetchToTemp, EmbedTarget, TargetEmbedded, StoreEntry, Match, At
    <3>2. pending' = pending /\ t # Temp("candidate")
      BY <3>1 DEF Cleanup, Leave, Over, Remove
    <3>3. t.of = "target" /\ pending.what = "SharedArtifactStoreError"
      BY <2>3, <2>5, <2>9, <3>2 DEF Temp, IInv, HandlerInv, HandlerTyped, Temps
    <3> QED
      BY <3>2, <3>3
  <2> QED
    BY <2>4, <2>6, <2>7, <2>8, <2>9
<1> QED
  BY <1>1, InvariantHolds, PTL DEF Spec, LeaksAreKnown
=============================================================================
