-------------------------- MODULE FingerprintWorker --------------------------
(***************************************************************************)
(* The job queue of the fingerprinter and the run loop of its workers:     *)
(* the Redis stream with one consumer group, the group's pending entries   *)
(* list (PEL), the delayed-retry ZSET, the per-job state hash, the result  *)
(* hash with its event stream and match index, and every step              *)
(* worker/fingerprint_worker.py takes between two Redis calls.             *)
(*                                                                         *)
(* One Redis command, or one Lua script, is one atomic step.  A worker may *)
(* crash between any two of them, a lease may expire under a handler that  *)
(* is still running, and a reply may be lost, in which case the client     *)
(* sends the same command again (REDIS_RETRY_ON_TIMEOUT).                  *)
(***************************************************************************)
EXTENDS Integers, Sequences, FiniteSets

CONSTANTS
  Workers,         (* worker processes, each one a consumer of the group   *)
  NoWorker,        (* stands for "in nobody's PEL"                         *)
  Jobs,            (* job ids                                              *)
  Payloads,        (* stream fields of a job, as XADDed; the ZSET member   *)
  JobOf,           (* the job id a payload carries                         *)
  Malformed,       (* the payloads Job.from_stream_fields refuses          *)
  Outcomes,        (* what the handler of this deployment can do           *)
  MaxAttempts,     (* Job.max_attempts                                     *)
  ReclaimBatch,    (* XAUTOCLAIM's COUNT                                   *)
  MaxCopies,       (* bound: XADDs of one payload by producers             *)
  MaxSlow,         (* bound: leases that expire under a live holder        *)
  MaxOutages,      (* bound: crashes and graceful stops                    *)
  MaxLostReplies,  (* bound: Redis replies lost on the way back            *)
  AttemptBound     (* bound: no lease expires beyond this attempt          *)

Decisions == {"match", "no_match", "processing_failure"}

ASSUME WorkersAssumption == NoWorker \notin Workers
ASSUME PayloadsAssumption == JobOf \in [Payloads -> Jobs] /\ Malformed \subseteq Payloads
ASSUME OutcomesAssumption ==
  Outcomes \subseteq Decisions \union {"none", "transient", "permanent"}
ASSUME BoundsAssumption ==
  /\ MaxAttempts \in Nat \ {0}
  /\ ReclaimBatch \in Nat \ {0}
  /\ {MaxCopies, MaxSlow, MaxOutages, MaxLostReplies, AttemptBound} \subseteq Nat

VARIABLES
  stream,      (* the payloads XADDed so far; an entry id is an index      *)
  group,       (* for each delivered entry, the consumer whose PEL has it, *)
               (* NoWorker once XACKed; its length is last-delivered-id    *)
  expired,     (* pending entries idle for longer than lease_ms            *)
  retry,       (* the retry ZSET: is a payload absent, waiting or due      *)
  status,      (* job:{id}:state, its status; "none" before any claim      *)
  attempt,     (* job:{id}:state, its attempt; 0 when the field is absent  *)
  result,      (* job:{id}:result; evidence = the attempt that wrote the   *)
               (* optional fields, 0 when they are absent                  *)
  events,      (* results stream, split by job                             *)
  matchIndex,  (* the jobs in their target's match index                   *)
  pc,          (* where a worker's loop stands                             *)
  after,       (* where it goes when its hands are empty                   *)
  inbox,       (* entries delivered to it and not yet registered           *)
  next,        (* the attempt it computed and has not yet written          *)
  claims,      (* its ClaimedEntry list, handled in entry order            *)
  sent,        (* the outcome whose script it is sending again             *)
  due,         (* the ZRANGEBYSCORE answer it is promoting from            *)
  enqueued,    (* how often producers XADDed a payload                     *)
  settled,     (* history: payloads whose processing reached an outcome    *)
  slow, outages, lost   (* how much of each fault budget is used           *)

redisVars == <<stream, group, expired, retry, status, attempt, result, events, matchIndex>>
localVars == <<pc, after, inbox, next, claims, sent, due>>
faultVars == <<slow, outages>>
vars == <<redisVars, localVars, enqueued, settled, faultVars, lost>>

Statuses ==
  {"none", "claimed", "completed", "rejected", "retry_scheduled", "failed"}
Terminal == {"completed", "rejected", "failed"}
PCs == {"top", "register", "reject", "mark", "process", "resend", "promote",
        "promoting", "claim", "down"}

Claim == [entry : Nat \ {0}, attempt : Nat \ {0}]
Event == [attempt : Nat, decision : Decisions]
Result == [attempt : Nat, decision : Decisions \union {"none"}, evidence : Nat]
NoResult == [attempt |-> 0, decision |-> "none", evidence |-> 0]

Entries == 1 .. Len(stream)
Pending == {e \in 1 .. Len(group) : group[e] # NoWorker}
Undelivered == Len(group) + 1 .. Len(stream)
Job(e) == JobOf[stream[e]]

\* The entries a worker has in memory, whether or not they are still its own.
Holding(w) == inbox[w] \union {c.entry : c \in claims[w]}
Held == UNION {Holding(w) : w \in Workers}

\* Entries are registered, and claims handled, in the order of their ids.
FirstDelivered(w) == {e \in inbox[w] : \A f \in inbox[w] : e <= f}
FirstClaimed(w) == {c \in claims[w] : \A d \in claims[w] : c.entry <= d.entry}

---------------------------------------------------------------------------
(* Slips in the code that the runs must notice: each is a wrong version of *)
(* an operator defined further down, put in its place by a mutant.         *)

\* XAUTOCLAIM with a min-idle-time of 0.
ReclaimSetAnyIdle(batch) == Cardinality(batch) <= ReclaimBatch
\* _next_attempt without the + 1.
NextAttemptSame(e) == attempt[Job(e)]
\* from_stream_fields that lets everything pass.
WellFormedAlways(e) == TRUE
\* ZRANGEBYSCORE with the comparison reversed.
DueMembersReversed == {p \in Payloads : retry[p] = "waiting"}
\* _PROMOTE_RETRY without its ZREM, or without its XADD.
PromoteNoZrem(p) == retry[p] # "absent" /\ stream' = Append(stream, p) /\ UNCHANGED retry
PromoteNoXadd(p) == retry' = [retry EXCEPT ![p] = "absent"] /\ UNCHANGED stream
\* attempt <= max_attempts.
AttemptsLeftOffByOne(c) == c.attempt <= MaxAttempts
\* The event only for the first result.
EmitOnce(j, a, d) ==
  events' = IF events[j] = <<>>
            THEN [events EXCEPT ![j] = Append(@, [attempt |-> a, decision |-> d])] ELSE events

---------------------------------------------------------------------------
Init ==
  /\ stream = <<>> /\ group = <<>> /\ expired = {}
  /\ retry = [p \in Payloads |-> "absent"]
  /\ status = [j \in Jobs |-> "none"] /\ attempt = [j \in Jobs |-> 0]
  /\ result = [j \in Jobs |-> NoResult]
  /\ events = [j \in Jobs |-> <<>>]
  /\ matchIndex = {}
  /\ pc = [w \in Workers |-> "top"]
  /\ after = [w \in Workers |-> "top"]
  /\ inbox = [w \in Workers |-> {}]
  /\ next = [w \in Workers |-> 0]
  /\ claims = [w \in Workers |-> {}]
  /\ sent = [w \in Workers |-> "none"]
  /\ due = [w \in Workers |-> {}]
  /\ enqueued = [p \in Payloads |-> 0]
  /\ settled = {}
  /\ slow = 0 /\ outages = 0 /\ lost = 0

Goto(w, label) == pc' = [pc EXCEPT ![w] = label]

(***************************************************************************)
(* Every Redis call of a worker is answered, or its effect is kept and the *)
(* reply is lost; the client then repeats the call.                        *)
(***************************************************************************)
Answered == lost' = lost
ReplyLost == lost < MaxLostReplies /\ lost' = lost + 1

---------------------------------------------------------------------------
(* The producer, and the passing of time. *)

\* JobProducer.enqueue.  A producer whose own reply is lost XADDs a copy.
Enqueue(p) ==
  /\ enqueued[p] < MaxCopies
  /\ enqueued' = [enqueued EXCEPT ![p] = @ + 1]
  /\ stream' = Append(stream, p)
  /\ UNCHANGED <<group, expired, retry, status, attempt, result, events, matchIndex>>
  /\ UNCHANGED <<localVars, settled, faultVars, lost>>

\* An entry has been idle for lease_ms.  Nothing renews a lease, so it also
\* expires under a worker whose handler is slower than that.
LeaseExpires(e) ==
  /\ e \in Pending \ expired
  /\ attempt[Job(e)] < AttemptBound
  /\ IF e \in Held THEN slow < MaxSlow /\ slow' = slow + 1 ELSE slow' = slow
  /\ expired' = expired \union {e}
  /\ UNCHANGED <<stream, group, retry, status, attempt, result, events, matchIndex>>
  /\ UNCHANGED <<localVars, enqueued, settled, outages, lost>>

\* The backoff of a scheduled retry has passed.
BackoffElapses(p) ==
  /\ retry[p] = "waiting"
  /\ retry' = [retry EXCEPT ![p] = "due"]
  /\ UNCHANGED <<stream, group, expired, status, attempt, result, events, matchIndex>>
  /\ UNCHANGED <<localVars, enqueued, settled, faultVars, lost>>

---------------------------------------------------------------------------
(* Claiming: the head of the loop, XAUTOCLAIM and XREADGROUP. *)

\* The reclaim interval has not elapsed.
SkipReclaim(w) ==
  /\ pc[w] = "top"
  /\ Goto(w, "promote")
  /\ UNCHANGED <<redisVars, after, inbox, next, claims, sent, due>>
  /\ UNCHANGED <<enqueued, settled, faultVars, lost>>

\* The first ReclaimBatch expired entries, in id order.
ReclaimSet(batch) ==
  /\ batch \subseteq expired
  /\ \A e \in batch, f \in expired \ batch : e < f
  /\ \/ batch = expired /\ Cardinality(batch) <= ReclaimBatch
     \/ batch # expired /\ Cardinality(batch) = ReclaimBatch

Reclaim(w) ==
  /\ pc[w] = "top"
  /\ \E batch \in SUBSET Pending :
       /\ ReclaimSet(batch)
       /\ group' = [e \in DOMAIN group |-> IF e \in batch THEN w ELSE group[e]]
       /\ expired' = expired \ batch
       /\ \/ /\ Answered
             /\ inbox' = [inbox EXCEPT ![w] = batch]
             /\ after' = [after EXCEPT ![w] = "promote"]
             /\ Goto(w, IF batch = {} THEN "promote" ELSE "register")
          \/ ReplyLost /\ batch # {} /\ UNCHANGED <<inbox, after, pc>>
  /\ UNCHANGED <<stream, retry, status, attempt, result, events, matchIndex>>
  /\ UNCHANGED <<next, claims, sent, due, enqueued, settled, faultVars>>

\* XREADGROUP ">" with COUNT 1 moves the next entry into the consumer's PEL.
Deliver(w) == group' = Append(group, w)

ClaimOne(w) ==
  /\ pc[w] = "claim"
  /\ Undelivered # {}
  /\ Deliver(w)
  /\ \/ /\ Answered
        /\ inbox' = [inbox EXCEPT ![w] = {Len(group) + 1}]
        /\ after' = [after EXCEPT ![w] = "top"]
        /\ Goto(w, "register")
     \/ ReplyLost /\ UNCHANGED <<inbox, after, pc>>
  /\ UNCHANGED <<stream, expired, retry, status, attempt, result, events, matchIndex>>
  /\ UNCHANGED <<next, claims, sent, due, enqueued, settled, faultVars>>

\* XREADGROUP blocked for block_ms and found nothing.
ClaimTimesOut(w) ==
  /\ pc[w] = "claim"
  /\ Undelivered = {}
  /\ Goto(w, "top")
  /\ UNCHANGED <<redisVars, after, inbox, next, claims, sent, due>>
  /\ UNCHANGED <<enqueued, settled, faultVars, lost>>

---------------------------------------------------------------------------
(* Registering what was delivered: HGETALL, then HSET, two calls. *)

\* XACK: whoever's PEL the entry is in, it leaves it.
XAck(e) ==
  /\ group' = [group EXCEPT ![e] = NoWorker]
  /\ expired' = expired \ {e}

SetStatus(j, s) == status' = [status EXCEPT ![j] = s]

Settle(e) == settled' = settled \union {stream[e]}

\* Job.from_stream_fields accepts the entry.
WellFormed(e) == stream[e] \notin Malformed

\* _next_attempt: one more than the attempt on record.
NextAttempt(e) == attempt[Job(e)] + 1

ReadAttempt(w) ==
  /\ pc[w] = "register"
  /\ \E e \in FirstDelivered(w) :
       /\ WellFormed(e)
       /\ next' = [next EXCEPT ![w] = NextAttempt(e)]
  /\ Goto(w, "mark")
  /\ UNCHANGED <<redisVars, after, inbox, claims, sent, due>>
  /\ UNCHANGED <<enqueued, settled, faultVars, lost>>

\* mark_claimed: an unconditional HSET of status and attempt.
MarkClaimed(w) ==
  /\ pc[w] = "mark"
  /\ \E e \in FirstDelivered(w) :
       /\ SetStatus(Job(e), "claimed")
       /\ attempt' = [attempt EXCEPT ![Job(e)] = next[w]]
       /\ \/ /\ Answered
             /\ claims' = [claims EXCEPT ![w] = @ \union {[entry |-> e, attempt |-> next[w]]}]
             /\ inbox' = [inbox EXCEPT ![w] = @ \ {e}]
             /\ next' = [next EXCEPT ![w] = 0]
             /\ Goto(w, IF inbox[w] = {e} THEN "process" ELSE "register")
          \/ ReplyLost /\ UNCHANGED <<claims, inbox, next, pc>>
  /\ UNCHANGED <<stream, group, expired, retry, result, events, matchIndex>>
  /\ UNCHANGED <<after, sent, due, enqueued, settled, faultVars>>

\* A malformed entry: mark_rejected overwrites the status of the job id it
\* carries and leaves the attempt alone.
MarkRejected(w) ==
  /\ pc[w] = "register"
  /\ \E e \in FirstDelivered(w) :
       /\ ~WellFormed(e)
       /\ SetStatus(Job(e), "rejected")
  /\ \/ Answered /\ Goto(w, "reject")
     \/ ReplyLost /\ UNCHANGED pc
  /\ UNCHANGED <<stream, group, expired, retry, attempt, result, events, matchIndex>>
  /\ UNCHANGED <<after, inbox, next, claims, sent, due, enqueued, settled, faultVars>>

\* ... and the XACK that follows it, a call of its own.
AckRejected(w) ==
  /\ pc[w] = "reject"
  /\ \E e \in FirstDelivered(w) :
       /\ XAck(e)
       /\ Settle(e)
       /\ \/ /\ Answered
             /\ inbox' = [inbox EXCEPT ![w] = @ \ {e}]
             /\ Goto(w, IF inbox[w] # {e} THEN "register"
                        ELSE IF claims[w] # {} THEN "process" ELSE after[w])
          \/ ReplyLost /\ UNCHANGED <<inbox, pc>>
  /\ UNCHANGED <<stream, retry, status, attempt, result, events, matchIndex>>
  /\ UNCHANGED <<after, next, claims, sent, due, enqueued, faultVars>>

---------------------------------------------------------------------------
(* process_claim: the handler ran with outcome o, and one script finalizes *)
(* the claim if its attempt is still the one on record.                    *)

Finalizing(w, o) ==
  \/ pc[w] = "process" /\ o \in Outcomes
  \/ pc[w] = "resend" /\ o = sent[w]

IsCurrent(c) == attempt[Job(c.entry)] = c.attempt

\* _handle_transient_failure looks at the claim's own attempt.
AttemptsLeft(c) == c.attempt < MaxAttempts

\* XADD to the results stream; SADD to the target's match index.
Emit(j, a, d) == events' = [events EXCEPT ![j] = Append(@, [attempt |-> a, decision |-> d])]
Index(j, d) == matchIndex' = IF d = "match" THEN matchIndex \union {j} ELSE matchIndex

\* The claim is dropped from memory and the next one, if any, is handled.
Dispatched(w, c) ==
  /\ claims' = [claims EXCEPT ![w] = @ \ {c}]
  /\ sent' = [sent EXCEPT ![w] = "none"]
  /\ Goto(w, IF claims[w] = {c} THEN after[w] ELSE "process")

\* The script ran; its reply arrives, or the client sends it again.
ScriptDone(w, c, o) ==
  /\ \/ Answered /\ Dispatched(w, c)
     \/ ReplyLost /\ sent' = [sent EXCEPT ![w] = o] /\ Goto(w, "resend") /\ UNCHANGED claims
  /\ UNCHANGED <<after, inbox, next, due>>

\* ack / _COMPLETE_IF_CURRENT: the handler returned no Result.
Complete(w, c) ==
  /\ Finalizing(w, "none") /\ IsCurrent(c)
  /\ SetStatus(Job(c.entry), "completed") /\ XAck(c.entry) /\ Settle(c.entry)
  /\ ScriptDone(w, c, "none")
  /\ UNCHANGED <<stream, retry, attempt, result, events, matchIndex, enqueued, faultVars>>

\* A slip: the script commits and leaves out its XACK.
CommitUnacked(w, c, d) ==
  /\ Finalizing(w, d) /\ IsCurrent(c)
  /\ LET j == Job(c.entry)
         evidence == IF d = "processing_failure" THEN result[j].evidence ELSE c.attempt
     IN /\ SetStatus(j, "completed") /\ Settle(c.entry)
        /\ result' = [result EXCEPT ![j] =
             [attempt |-> c.attempt, decision |-> d, evidence |-> evidence]]
        /\ Emit(j, c.attempt, d) /\ Index(j, d)
  /\ ScriptDone(w, c, d)
  /\ UNCHANGED <<stream, group, expired, retry, attempt, enqueued, faultVars>>

\* commit_result / _COMMIT_RESULT_IF_CURRENT.  The HSET of the result merges:
\* a processing_failure carries no evidence and leaves an earlier one behind.
CommitResult(w, c, d) ==
  /\ Finalizing(w, d) /\ IsCurrent(c)
  /\ LET j == Job(c.entry)
         evidence == IF d = "processing_failure" THEN result[j].evidence ELSE c.attempt
     IN /\ SetStatus(j, "completed") /\ XAck(c.entry) /\ Settle(c.entry)
        /\ result' = [result EXCEPT ![j] =
             [attempt |-> c.attempt, decision |-> d, evidence |-> evidence]]
        /\ Emit(j, c.attempt, d) /\ Index(j, d)
  /\ ScriptDone(w, c, d)
  /\ UNCHANGED <<stream, retry, attempt, enqueued, faultVars>>

\* _handle_transient_failure with attempts left / _SCHEDULE_RETRY_IF_CURRENT.
ScheduleRetry(w, c) ==
  /\ Finalizing(w, "transient") /\ IsCurrent(c)
  /\ AttemptsLeft(c)
  /\ SetStatus(Job(c.entry), "retry_scheduled") /\ XAck(c.entry)
  /\ retry' = [retry EXCEPT ![stream[c.entry]] = "waiting"]
  /\ ScriptDone(w, c, "transient")
  /\ UNCHANGED <<stream, attempt, result, events, matchIndex, enqueued, settled, faultVars>>

\* _fail / _FAIL_IF_CURRENT: a permanent failure, or no attempt left.
FailJob(w, c, o) ==
  /\ Finalizing(w, o) /\ IsCurrent(c)
  /\ o = "transient" => ~AttemptsLeft(c)
  /\ SetStatus(Job(c.entry), "failed") /\ XAck(c.entry) /\ Settle(c.entry)
  /\ ScriptDone(w, c, o)
  /\ UNCHANGED <<stream, retry, attempt, result, events, matchIndex, enqueued, faultVars>>

\* A slip: the XACK outside the script's fence.
FencedAcks(w, c) ==
  /\ \E o \in Outcomes : Finalizing(w, o)
  /\ ~IsCurrent(c)
  /\ Dispatched(w, c) /\ XAck(c.entry)
  /\ UNCHANGED <<stream, retry, status, attempt, result, events, matchIndex>>
  /\ UNCHANGED <<after, inbox, next, due, enqueued, settled, faultVars, lost>>

\* Any of the scripts with an attempt that is no longer on record: it writes
\* nothing and skips its XACK.
Fenced(w, c) ==
  /\ \E o \in Outcomes : Finalizing(w, o)
  /\ ~IsCurrent(c)
  /\ Dispatched(w, c)
  /\ UNCHANGED <<redisVars, after, inbox, next, due, enqueued, settled, faultVars, lost>>

---------------------------------------------------------------------------
(* promote_due_retries: one range query, then one script per member. *)

DueMembers == {p \in Payloads : retry[p] = "due"}

ListDue(w) ==
  /\ pc[w] = "promote"
  /\ due' = [due EXCEPT ![w] = DueMembers]
  /\ Goto(w, IF DueMembers = {} THEN "claim" ELSE "promoting")
  /\ UNCHANGED <<redisVars, after, inbox, next, claims, sent>>
  /\ UNCHANGED <<enqueued, settled, faultVars, lost>>

\* _PROMOTE_RETRY: ZREM, and XADD if it removed something.  The script does
\* not look at the score again.
Promote(p) ==
  IF retry[p] # "absent"
  THEN retry' = [retry EXCEPT ![p] = "absent"] /\ stream' = Append(stream, p)
  ELSE UNCHANGED <<retry, stream>>

PromoteOne(w, p) ==
  /\ pc[w] = "promoting" /\ p \in due[w]
  /\ Promote(p)
  /\ \/ /\ Answered
        /\ due' = [due EXCEPT ![w] = @ \ {p}]
        /\ Goto(w, IF due[w] = {p} THEN "claim" ELSE "promoting")
     \/ ReplyLost /\ UNCHANGED <<due, pc>>
  /\ UNCHANGED <<group, expired, status, attempt, result, events, matchIndex>>
  /\ UNCHANGED <<after, inbox, next, claims, sent, enqueued, settled, faultVars>>

---------------------------------------------------------------------------
(* Shutdown, crash and restart. *)

Forget(w) ==
  /\ Goto(w, "down")
  /\ inbox' = [inbox EXCEPT ![w] = {}]
  /\ next' = [next EXCEPT ![w] = 0]
  /\ claims' = [claims EXCEPT ![w] = {}]
  /\ sent' = [sent EXCEPT ![w] = "none"]
  /\ due' = [due EXCEPT ![w] = {}]

\* The process dies, or the handler raises what process_claim does not catch.
Crash(w) ==
  /\ pc[w] # "down" /\ outages < MaxOutages
  /\ outages' = outages + 1
  /\ Forget(w)
  /\ UNCHANGED <<redisVars, after, enqueued, settled, slow, lost>>

\* stop(), noticed at one of the three places run() looks: hands are empty.
Stop(w) ==
  /\ pc[w] \in {"top", "promote", "claim"} /\ outages < MaxOutages
  /\ outages' = outages + 1
  /\ Goto(w, "down")
  /\ UNCHANGED <<redisVars, after, inbox, next, claims, sent, due>>
  /\ UNCHANGED <<enqueued, settled, slow, lost>>

Restart(w) ==
  /\ pc[w] = "down"
  /\ Goto(w, "top")
  /\ UNCHANGED <<redisVars, after, inbox, next, claims, sent, due>>
  /\ UNCHANGED <<enqueued, settled, faultVars, lost>>

---------------------------------------------------------------------------
Finalize(w, c) ==
  \/ Complete(w, c)
  \/ \E d \in Decisions : CommitResult(w, c, d)
  \/ ScheduleRetry(w, c)
  \/ \E o \in {"transient", "permanent"} : FailJob(w, c, o)
  \/ Fenced(w, c)

\* The steps of run(), as opposed to what happens to the process.
Run(w) ==
  \/ SkipReclaim(w) \/ Reclaim(w)
  \/ ListDue(w) \/ (\E p \in Payloads : PromoteOne(w, p))
  \/ ClaimOne(w) \/ ClaimTimesOut(w)
  \/ ReadAttempt(w) \/ MarkClaimed(w) \/ MarkRejected(w) \/ AckRejected(w)
  \/ \E c \in FirstClaimed(w) : Finalize(w, c)

Next ==
  \/ \E p \in Payloads : Enqueue(p) \/ BackoffElapses(p)
  \/ \E e \in Entries : LeaseExpires(e)
  \/ \E w \in Workers : Run(w) \/ Crash(w) \/ Stop(w) \/ Restart(w)

Spec == Init /\ [][Next]_vars

(***************************************************************************)
(* Fairness.  A live worker keeps running its loop and its handlers        *)
(* return; a process that died is started again; time passes, so leases of *)
(* entries nobody works on and backoffs run out, and a loop that keeps     *)
(* passing its head finds the reclaim interval elapsed again and again.    *)
(***************************************************************************)
Fairness ==
  /\ \A w \in Workers : WF_vars(Run(w)) /\ WF_vars(Restart(w)) /\ SF_vars(Reclaim(w))
  /\ \A p \in Payloads : WF_vars(BackoffElapses(p))
  /\ WF_vars(\E e \in Entries \ Held : LeaseExpires(e))

FairSpec == Spec /\ Fairness

---------------------------------------------------------------------------
QueueOK ==
  /\ stream \in Seq(Payloads)
  /\ group \in Seq(Workers \union {NoWorker})
  /\ Len(group) <= Len(stream)
  /\ expired \subseteq Pending
  /\ retry \in [Payloads -> {"absent", "waiting", "due"}]
  /\ enqueued \in [Payloads -> Nat]

RecordsOK ==
  /\ status \in [Jobs -> Statuses]
  /\ attempt \in [Jobs -> Nat]
  /\ result \in [Jobs -> Result]
  /\ events \in [Jobs -> Seq(Event)]
  /\ matchIndex \subseteq Jobs
  /\ settled \subseteq Payloads

\* A worker only ever remembers entries that were delivered, and it never
\* writes or claims attempt 0, which stands for the absent field.
WorkersOK ==
  /\ pc \in [Workers -> PCs]
  /\ after \in [Workers -> {"top", "promote"}]
  /\ inbox \in [Workers -> SUBSET (1 .. Len(group))]
  /\ next \in [Workers -> Nat]
  /\ \A w \in Workers : pc[w] = "mark" => next[w] > 0
  /\ claims \in [Workers -> SUBSET Claim]
  /\ \A w \in Workers : \A c \in claims[w] : c.entry <= Len(group)
  /\ sent \in [Workers -> Outcomes \union {"none"}]
  /\ due \in [Workers -> SUBSET Payloads]

TypeOK ==
  /\ QueueOK /\ RecordsOK /\ WorkersOK
  /\ {slow, outages, lost} \subseteq Nat

---------------------------------------------------------------------------
(* What must hold whatever goes wrong: slow handlers, lost replies, copies. *)

\* A payload is somewhere a worker will find it: delayed, on the stream and
\* not delivered, or in somebody's PEL.
Live(p) ==
  \/ retry[p] # "absent"
  \/ \E e \in Undelivered \union Pending : stream[e] = p

(***************************************************************************)
(* No job is lost: a payload a producer XADDed stays where a worker finds  *)
(* it until some worker recorded an outcome for it, across the hand-over   *)
(* from stream to PEL to retry ZSET and back (_SCHEDULE_RETRY_IF_CURRENT   *)
(* and _PROMOTE_RETRY exist for this), crashes included.                   *)
(***************************************************************************)
NoJobLost == \A p \in Payloads : enqueued[p] > 0 => p \in settled \/ Live(p)

(***************************************************************************)
(* A state hash that says retry_scheduled is never left with nothing       *)
(* behind it: a well-formed payload of the job is still live, even when    *)
(* another copy of the job wrote the hash last.                            *)
(***************************************************************************)
RetryIsBacked ==
  \A j \in Jobs : status[j] = "retry_scheduled" =>
    \E p \in Payloads \ Malformed : JobOf[p] = j /\ Live(p)

(***************************************************************************)
(* Malformed entries, claimed afresh or reclaimed after a crash, only ever *)
(* reach the reject path, and well-formed ones only the handler.           *)
(***************************************************************************)
MalformedNeverHandled ==
  \A w \in Workers :
    /\ \A c \in claims[w] : stream[c.entry] \notin Malformed
    /\ \A e \in FirstDelivered(w) :
         /\ pc[w] = "mark" => stream[e] \notin Malformed
         /\ pc[w] = "reject" => stream[e] \in Malformed

(***************************************************************************)
(* The result hash and the results stream tell one story: a result exists  *)
(* exactly when an event was emitted, and it is the one the last event     *)
(* announces.  A match is always in the match index.                       *)
(***************************************************************************)
ResultIsAnnounced ==
  \A j \in Jobs :
    /\ (result[j].decision = "none") <=> (events[j] = <<>>)
    /\ events[j] # <<>> =>
         LET last == events[j][Len(events[j])] IN
         last.attempt = result[j].attempt /\ last.decision = result[j].decision
    /\ result[j].decision = "match" => j \in matchIndex

\* Every job a producer enqueues is settled in the end, whatever faults the
\* budgets allow: no retry, crash or reclaim path drops it or parks it.
EveryJobSettles ==
  \A p \in Payloads : (enqueued[p] > 0) ~> (p \in settled)

---------------------------------------------------------------------------
(* What the attempt fencing is meant to give.                              *)

\* One worker at a time handles a job, and the PEL names that worker for
\* every entry it still has to finalize.
OneWorkerPerJob ==
  \A v, w \in Workers : \A e \in Holding(v), f \in Holding(w) :
    /\ Job(e) = Job(f) => v = w /\ e = f
    /\ group[e] = v

\* A worker that lost an entry to XAUTOCLAIM never acknowledges it: an entry
\* leaves the PEL of its owner only by a step of that owner.
StaleNeverAcks ==
  [][\A e \in Pending : group'[e] = NoWorker => claims[group[e]] # claims'[group[e]]
                                             \/ inbox[group[e]] # inbox'[group[e]]]_vars

\* An outcome a caller may stop polling on never changes again.
TerminalIsFinal ==
  [][\A j \in Jobs : status[j] \in Terminal => status'[j] = status[j]]_vars

\* The match index lists a job exactly when its result is a match.
MatchIndexExact ==
  \A j \in Jobs : (j \in matchIndex) <=> (result[j].decision = "match")

\* The optional fields of a result hash come from the attempt it names.
ResultOfOneAttempt ==
  \A j \in Jobs : result[j].evidence \in {0, result[j].attempt}

\* Two events with the same (job_id, attempt) identity are duplicates of one
\* commit: a consumer may drop either.
EventIdentity ==
  \A j \in Jobs : \A k, l \in DOMAIN events[j] :
    events[j][k].attempt = events[j][l].attempt => events[j][k] = events[j][l]

\* A job is attempted at most max_attempts times.
AttemptsWithinMax == \A j \in Jobs : attempt[j] <= MaxAttempts

\* While no lease expires under a running handler, an attempt beyond
\* max_attempts is the price of a crash, and each crash costs a job one.
AttemptsAccountedFor ==
  \A j \in Jobs : attempt[j] <= MaxAttempts + outages

\* Only a retry whose due time has passed goes back onto the stream.
PromotedWhenDue ==
  [][\A p \in Payloads : retry[p] # "absent" /\ retry'[p] = "absent"
                            => retry[p] = "due"]_vars

---------------------------------------------------------------------------
(***************************************************************************)
(* The lifecycle a caller of the queue is promised, and where each of its  *)
(* phases is in the Redis state.                                           *)
(***************************************************************************)
Phase(j) ==
  CASE status[j] = "claimed" -> "running"
    [] status[j] = "retry_scheduled" -> "waiting"
    [] status[j] = "none" ->
         IF \E p \in Payloads : JobOf[p] = j /\ enqueued[p] > 0 THEN "queued" ELSE "new"
    [] OTHER -> status[j]

Lifecycle == INSTANCE JobLifecycle WITH
  phase <- [j \in Jobs |-> Phase(j)],
  attempts <- [j \in Jobs |-> attempt[j]],
  published <- [j \in Jobs |-> [k \in DOMAIN events[j] |-> events[j][k].decision]]

ImplementsLifecycle == Lifecycle!Spec
=============================================================================
