--------------------------- MODULE MatchingHandler ---------------------------
(***************************************************************************)
(* One call after another of the handler of worker/matching_handler.py:    *)
(* acquire the candidate over HTTP, validate it, embed it, resolve the     *)
(* target's segments (building them if no worker has), match, and clean up *)
(* the temporary files on every path out.                                  *)
(*                                                                         *)
(* What the web, ffprobe, ffmpeg, the model and the shared store answer is *)
(* chosen in each action; what the code makes of an answer is computed.    *)
(* How the target's segments are agreed on between workers is TargetBuild, *)
(* what match_segments computes is TemporalMatcher.                        *)
(***************************************************************************)
EXTENDS Integers, FiniteSets, Sequences

CONSTANTS
  MaxRedirects, (* MediaAcquirer(max_redirects)                            *)
  MaxCalls,     (* bound: calls of the handler, and malformed entries      *)
  Codes,        (* the HTTP status codes the web answers with              *)
  UsesStore     (* is a SharedTargetMediaStore configured                  *)

ASSUME HandlerAssumption ==
  /\ MaxRedirects \in Nat /\ MaxCalls \in Nat
  /\ Codes \subseteq 100 .. 599 /\ UsesStore \in BOOLEAN

VARIABLES
  stage,    (* where the handler is; "idle" between calls                  *)
  call,     (* the number of this call, or of the last one                 *)
  hop,      (* redirects followed so far                                   *)
  checked,  (* hops whose scheme and destination were accepted             *)
  asked,    (* hops a GET was sent to                                      *)
  header,   (* content_type of the artifact                                *)
  pending,  (* what the call is about to return or raise                   *)
  temps     (* temporary files on disk: what it is, and the call's number  *)

hvars == <<stage, call, hop, checked, asked, header, pending, temps>>

---------------------------------------------------------------------------
(* The exceptions, by the names of their classes. "OtherError" is any that *)
(* the code on the way does not name.                                      *)

TransientErrors == {"ConnectionTimeoutError", "ReadTimeoutError", "NetworkError",
                    "RateLimitedError", "ServerError"}

PermanentErrors == {"PermanentAcquisitionError", "UnsupportedSchemeError",
                    "RedirectLimitExceededError", "UnsafeDestinationError", "NotFoundError",
                    "GoneError", "ClientError", "UnexpectedStatusError",
                    "UnsupportedContentTypeError", "SizeLimitExceededError",
                    "InvalidMediaError"}

EmbeddingErrors == {"UnsupportedMediaError", "InferenceError"}

(* An outcome of the handler: what the worker loop sees of the call.       *)
Ok == "ok"
Outcome(kind, what) == [kind |-> kind, what |-> what]
NoOutcome == Outcome("none", "none")

AcquisitionFailure(e) ==
  Outcome(IF e \in TransientErrors THEN "transient"
          ELSE IF e \in PermanentErrors THEN "permanent" ELSE "raise", e)

\* _resolve_target_segments: what becomes of an error of the target's side.
TargetFailure(e) ==
  Outcome(CASE e \in {"TimeoutError", "InferenceError", "SharedArtifactStoreError"} -> "transient"
            [] e \in {"KeyError", "UnsupportedMediaError"} -> "permanent"
            [] OTHER -> "raise", e)

Errors == TransientErrors \union PermanentErrors \union EmbeddingErrors
            \union {"KeyError", "TimeoutError", "SharedArtifactStoreError", "UnsupportedTechnique",
                    "OtherError"}
Decisions == {"match", "no_match", "processing_failure"}

---------------------------------------------------------------------------
(* What the environment answers, and what the code makes of it.            *)

\* validate_destination: a name may resolve to several addresses.
Addresses == {"public", "internal", "unusable"}

ValidateDestination(addresses) ==
  IF addresses \subseteq {"unusable"} THEN "NetworkError"
  ELSE IF "internal" \in addresses THEN "UnsafeDestinationError" ELSE Ok

\* _check_scheme and _check_destination of one hop.
Urls ==
  [scheme : {"http", "file"}, host : {"named", "none", "bad_port"},
   addresses : SUBSET Addresses]

CheckHop(url) ==
  IF url.scheme # "http" THEN "UnsupportedSchemeError"
  ELSE IF url.host # "named" THEN "PermanentAcquisitionError"
  ELSE ValidateDestination(url.addresses)

\* _send: what requests raises instead of a response.
SendErrors == {"ConnectionTimeoutError", "ReadTimeoutError", "NetworkError"}

Redirects(code) == code \in {301, 302, 303, 307, 308}

\* _classify_status of a response that is no redirect.
ClassifyStatus(code) ==
  CASE code \in 200 .. 299 -> Ok
    [] code = 404 -> "NotFoundError"
    [] code = 410 -> "GoneError"
    [] code = 429 -> "RateLimitedError"
    [] code \in 500 .. 599 -> "ServerError"
    [] code \in (400 .. 499) \ {404, 410, 429} -> "ClientError"
    [] OTHER -> "UnexpectedStatusError"

\* _check_content_type: a missing header becomes application/octet-stream.
Headers == {"none", "video", "image", "other"}

CheckContentType(h) == IF h = "other" THEN "UnsupportedContentTypeError" ELSE Ok

\* _stream_to_disk: how the transfer of the body may end.
StreamOutcome(body) ==
  CASE body = "whole" -> Ok
    [] body = "stalled" -> "ReadTimeoutError"
    [] body = "cut" -> "NetworkError"
    [] body = "oversized" -> "SizeLimitExceededError"
    [] body \in {"bad_encoding", "disk_full"} -> "OtherError"

Bodies == {"whole", "stalled", "cut", "oversized", "bad_encoding", "disk_full"}

\* probe_media: a file without a stream, a probe that fails or times out is
\* invalid; a missing ffprobe or a duration that is no number raises another
\* exception.
ProbeOutcome(probe) ==
  CASE probe = "streams" -> Ok
    [] probe \in {"fails", "times_out", "unparseable", "no_streams"} -> "InvalidMediaError"
    [] probe \in {"not_installed", "bad_duration"} -> "OtherError"

Probes == {"streams", "fails", "times_out", "unparseable", "no_streams", "not_installed",
           "bad_duration"}

\* extract_segment_frames: what ffmpeg makes of the file.
FramesOutcome(ffmpeg) ==
  CASE ffmpeg = "frames" -> Ok
    [] ffmpeg \in {"fails", "times_out", "no_frames"} -> "UnsupportedMediaError"
    [] ffmpeg = "not_installed" -> "OtherError"

FFmpegs == {"frames", "fails", "times_out", "no_frames", "not_installed"}

\* _load_image and _embed_pil_image of the frames, then the mean of them.
InferenceOutcomes == {Ok, "UnsupportedMediaError", "InferenceError", "OtherError"}

EmbedOutcomes == InferenceOutcomes \union {FramesOutcome(f) : f \in FFmpegs}

\* What get_or_build_segment_embedding comes to before a build.
ResolveAnswers == {"entry", "build", "KeyError", "TimeoutError", "SharedArtifactStoreError",
                   "OtherError"}

\* aggregation: the evidence of each technique, and the decision over all.
TemporalMatchToEvidence(verdict) == [technique |-> "dinov2", matched |-> verdict = "match"]

Combine(evidence) ==
  IF \E i \in DOMAIN evidence : evidence[i].matched THEN "match" ELSE "no_match"

---------------------------------------------------------------------------
(* Slips the runs must notice: wrong versions of operators below.          *)
AskAtOnce == "send"
TooManyLate(redirects) == redirects > MaxRedirects + 1
DiscardsUnexpected(e) == e = "OtherError"

---------------------------------------------------------------------------
Kinds == {"candidate", "frames", "target"}
Temps == [of : Kinds, call : 1 .. MaxCalls]
Temp(kind) == [of |-> kind, call |-> call]
Create(kind) == temps' = temps \union {Temp(kind)}
Remove(kinds) == temps' = temps \ {Temp(k) : k \in kinds}

HandlerInit ==
  /\ stage = "idle" /\ call = 0
  /\ hop = 0 /\ checked = {} /\ asked = {} /\ header = "none"
  /\ pending = NoOutcome /\ temps = {}

request == <<hop, checked, asked, header>>
At(s) == stage = s
Step(s) == stage' = s /\ UNCHANGED <<call, pending>>
Forget == hop' = 0 /\ checked' = {} /\ asked' = {} /\ header' = "none"

\* The call is over.
Over(outcome) ==
  /\ stage' = "over" /\ pending' = outcome
  /\ Forget

\* Nothing is open yet: the exception leaves the handler as it is.
Leave(outcome) == Over(outcome) /\ UNCHANGED call

\* The artifact is open: artifact.cleanup() runs first.
Unwind(outcome) ==
  /\ stage' = "cleanup" /\ pending' = outcome
  /\ UNCHANGED <<call, request>>

---------------------------------------------------------------------------
(* The steps of handler(job).                                              *)

\* Does the job name the technique of this handler?
Begin(named) ==
  /\ At("idle") /\ call < MaxCalls
  /\ call' = call + 1
  /\ IF named
     THEN stage' = "hop" /\ UNCHANGED <<request, pending>>
     ELSE Over(Outcome("permanent", "UnsupportedTechnique"))
  /\ UNCHANGED temps

CheckThisHop(url) ==
  /\ At("hop")
  /\ LET e == CheckHop(url) IN
       IF e = Ok
       THEN Step("send") /\ checked' = checked \union {hop} /\ UNCHANGED <<hop, asked, header>>
       ELSE Leave(AcquisitionFailure(e))
  /\ UNCHANGED temps

SendFails(e) ==
  /\ At("send")
  /\ Leave(AcquisitionFailure(e))
  /\ UNCHANGED temps

\* Every hop is checked afresh, the first one like the others.
NextHop == "hop"
TooMany(redirects) == redirects > MaxRedirects

Follow(code, location) ==
  /\ At("send") /\ Redirects(code)
  /\ IF ~location THEN Leave(AcquisitionFailure("PermanentAcquisitionError"))
     ELSE IF TooMany(hop + 1) THEN Leave(AcquisitionFailure("RedirectLimitExceededError"))
     ELSE /\ Step(NextHop)
          /\ hop' = hop + 1 /\ asked' = asked \union {hop}
          /\ UNCHANGED <<checked, header>>
  /\ UNCHANGED temps

Refuse(code, h) ==
  /\ At("send") /\ ~Redirects(code)
  /\ LET e == IF ClassifyStatus(code) # Ok THEN ClassifyStatus(code) ELSE CheckContentType(h) IN
       e # Ok /\ Leave(AcquisitionFailure(e))
  /\ UNCHANGED temps

Accept(code, h) ==
  /\ At("send") /\ ~Redirects(code)
  /\ ClassifyStatus(code) = Ok /\ CheckContentType(h) = Ok
  /\ Step("open")
  /\ header' = h /\ asked' = asked \union {hop}
  /\ UNCHANGED <<hop, checked, temps>>

OpenFile(disk) ==
  /\ At("open")
  /\ IF disk = Ok
     THEN Step("stream") /\ Create("candidate") /\ UNCHANGED request
     ELSE Leave(AcquisitionFailure(disk)) /\ UNCHANGED temps

StreamToDisk(body) ==
  /\ At("stream")
  /\ LET e == StreamOutcome(body) IN
       IF e = Ok
       THEN Step("validate") /\ UNCHANGED <<request, temps>>
       ELSE Leave(AcquisitionFailure(e)) /\ Remove({"candidate"})

\* Only InvalidMediaError removes the file.
Discards(e) == e = "InvalidMediaError"

Validate(probe) ==
  /\ At("validate")
  /\ LET e == ProbeOutcome(probe) IN
       IF e = Ok
       THEN Step("embed") /\ UNCHANGED <<request, temps>>
       ELSE /\ Leave(AcquisitionFailure(e))
            /\ IF Discards(e) THEN Remove({"candidate"}) ELSE UNCHANGED temps

\* A candidate that cannot be embedded is a result; anything else is raised.
CandidateFailure(e) ==
  IF e \in EmbeddingErrors THEN Outcome("result", "processing_failure") ELSE Outcome("raise", e)

EmbedCandidate ==
  /\ At("embed")
  /\ IF header = "video"
     THEN Step("frames") /\ Create("frames") /\ UNCHANGED request
     ELSE Unwind(CandidateFailure("UnsupportedMediaError")) /\ UNCHANGED temps

CandidateEmbedded(e) ==
  /\ At("frames")
  /\ Remove({"frames"})
  /\ IF e = Ok THEN Step("resolve") /\ UNCHANGED request ELSE Unwind(CandidateFailure(e))

\* get_or_build_segment_embedding: the entry, the turn to build it, or an error.
Resolve(answer) ==
  /\ At("resolve")
  /\ CASE answer = "entry" -> Step("match") /\ UNCHANGED request
       [] answer = "build" -> Step("media") /\ UNCHANGED request
       [] OTHER -> Unwind(TargetFailure(answer))
  /\ UNCHANGED temps

\* target_media_artifact: the file of this host, a copy from the store, or none.
OpenTarget(here) ==
  /\ At("media")
  /\ IF here THEN Step("target") /\ UNCHANGED <<request, temps>>
     ELSE IF UsesStore THEN Step("fetch") /\ Create("target") /\ UNCHANGED request
     ELSE Unwind(TargetFailure("UnsupportedMediaError")) /\ UNCHANGED temps

FetchToTemp(answer) ==
  /\ At("fetch")
  /\ CASE answer = "copied" -> Step("target") /\ UNCHANGED <<request, temps>>
       [] answer = "absent" -> Unwind(TargetFailure("UnsupportedMediaError")) /\ Remove({"target"})
       [] answer = "unreadable" ->
            Unwind(TargetFailure("SharedArtifactStoreError")) /\ UNCHANGED temps

EmbedTarget ==
  /\ At("target")
  /\ Step("target_frames") /\ Create("frames")
  /\ UNCHANGED request

\* build's finally: the frames and a fetched copy go, the host's own file stays.
TargetEmbedded(e) ==
  /\ At("target_frames")
  /\ Remove({"frames", "target"})
  /\ IF e = Ok THEN Step("store") /\ UNCHANGED request ELSE Unwind(TargetFailure(e))

\* register_segment_embedding and the lock's release: the target may be gone.
StoreEntry(e) ==
  /\ At("store")
  /\ IF e = Ok THEN Step("match") ELSE Unwind(TargetFailure(e))
  /\ UNCHANGED <<request, temps>>

\* match_segments, folded into a Result; vectors of two lengths raise.
Match(verdict) ==
  /\ At("match")
  /\ Unwind(IF verdict = "bad_vectors" THEN Outcome("raise", "OtherError")
            ELSE Outcome("result", Combine(<<TemporalMatchToEvidence(verdict)>>)))
  /\ UNCHANGED temps

Cleanup ==
  /\ At("cleanup")
  /\ Leave(pending)
  /\ Remove({"candidate"})

Stages == {"idle", "hop", "send", "open", "stream", "validate", "embed", "frames", "resolve",
           "media", "fetch", "target", "target_frames", "store", "match", "cleanup", "over"}
Results == [kind : {"none", "transient", "permanent", "raise", "result"},
            what : {"none"} \union Errors \union Decisions]

\* The steps of a call that has begun.
Acquire ==
  \/ \E url \in Urls : CheckThisHop(url)
  \/ \E e \in SendErrors : SendFails(e)
  \/ \E code \in Codes, location \in BOOLEAN : Follow(code, location)
  \/ \E code \in Codes, h \in Headers : Refuse(code, h) \/ Accept(code, h)
  \/ \E disk \in {Ok, "OtherError"} : OpenFile(disk)
  \/ \E body \in Bodies : StreamToDisk(body)
  \/ \E probe \in Probes : Validate(probe)

Handle ==
  \/ Acquire
  \/ EmbedCandidate \/ \E e \in EmbedOutcomes : CandidateEmbedded(e)
  \/ \E answer \in ResolveAnswers : Resolve(answer)
  \/ \E here \in BOOLEAN : OpenTarget(here)
  \/ \E answer \in {"copied", "absent", "unreadable"} : FetchToTemp(answer)
  \/ EmbedTarget \/ \E e \in EmbedOutcomes : TargetEmbedded(e)
  \/ \E e \in {Ok, "KeyError", "SharedArtifactStoreError", "OtherError"} : StoreEntry(e)
  \/ \E verdict \in {"match", "no_match", "bad_vectors"} : Match(verdict)
  \/ Cleanup
=============================================================================
