--------------------- MODULE FingerprintWorkerLeaseProofs ---------------------
(***************************************************************************)
(* What the attempt fencing of worker/fingerprint_worker.py gives while    *)
(* nothing slips past it: no lease has expired under a running handler,    *)
(* no Redis reply was lost, and no job was enqueued twice.  Workers may    *)
(* still crash, stop and restart at any step.  The theorems are about      *)
(* every state reached before the first such slip, whatever the bounds.    *)
(***************************************************************************)
EXTENDS FingerprintWorkerProofs

\* No slip so far.  A slip is counted and never forgotten.
Calm ==
  /\ slow = 0 /\ lost = 0
  /\ \A p \in Payloads : enqueued[p] <= 1
  /\ \A p, q \in Payloads :
       enqueued[p] > 0 /\ enqueued[q] > 0 /\ JobOf[p] = JobOf[q] => p = q

\* What is on the stream or in the ZSET was enqueued.
Submitted ==
  /\ \A e \in 1 .. Len(stream) : enqueued[stream[e]] > 0
  /\ \A p \in Payloads : retry[p] # "absent" => enqueued[p] > 0

\* A payload is in one place: the ZSET, or one entry of the queue.
OnePlace ==
  \A e \in Nat : InQueue(e) =>
    /\ retry[stream[e]] = "absent"
    /\ \A f \in Nat : InQueue(f) /\ stream[e] = stream[f] => e = f

\* The PEL names the worker that has an entry in memory, and its lease runs.
Owned == \A w \in Workers : \A e \in Holding(w) : group[e] = w /\ e \notin expired

\* An entry is in a worker's memory once.
Apart ==
  \A w \in Workers : \A c \in claims[w] :
    c.entry \notin inbox[w] /\ \A d \in claims[w] : c.entry = d.entry => c = d

\* No claim is fenced, and the attempt about to be written is the next one.
Current ==
  \A w \in Workers :
    /\ \A c \in claims[w] : IsCurrent(c) /\ status[Job(c.entry)] = "claimed"
    /\ pc[w] = "mark" => \A e \in FirstDelivered(w) : next[w] = attempt[Job(e)] + 1

\* A job nobody enqueued has no record.
Untouched ==
  \A j \in Jobs : (\A p \in Payloads : JobOf[p] = j => enqueued[p] = 0) =>
    status[j] = "none" /\ attempt[j] = 0 /\ result[j] = NoResult

\* A delayed retry has an attempt left and no result yet.
Waiting ==
  \A p \in Payloads : retry[p] # "absent" =>
    /\ p \notin Malformed
    /\ status[JobOf[p]] = "retry_scheduled" /\ result[JobOf[p]] = NoResult
    /\ attempt[JobOf[p]] < MaxAttempts

InClaims(e) == \E w \in Workers : \E c \in claims[w] : c.entry = e

OpenStatuses(p) ==
  IF p \in Malformed THEN {"none", "rejected"} ELSE {"none", "claimed", "retry_scheduled"}

\* An entry of the queue has no outcome yet; if nobody claims it, every
\* attempt beyond MaxAttempts - 1 is owed to a crash.
Open ==
  \A e \in Nat : InQueue(e) =>
    /\ result[Job(e)] = NoResult
    /\ status[Job(e)] \in OpenStatuses(stream[e])
    /\ InClaims(e) \/ attempt[Job(e)] < MaxAttempts + outages

Inv ==
  /\ Submitted /\ OnePlace /\ Owned /\ Apart /\ Current /\ Untouched /\ Waiting /\ Open
  /\ AttemptsAccountedFor /\ ResultOfOneAttempt

IInv == Calm => Inv

---------------------------------------------------------------------------
(* The lengths and entries of the queue.                                   *)
LEMMA QueueTypes ==
  ASSUME TypeOK
  PROVE  /\ Len(stream) \in Nat /\ Len(group) \in Nat /\ Len(group) <= Len(stream)
         /\ \A e \in Nat : InQueue(e) => /\ e \in 1 .. Len(stream)
                                         /\ stream[e] \in Payloads /\ Job(e) \in Jobs
         /\ \A e \in 1 .. Len(stream) : stream[e] \in Payloads /\ Job(e) \in Jobs
<1>1. Len(stream) \in Nat /\ Len(group) \in Nat /\ Len(group) <= Len(stream)
  BY DEF TypeOK, QueueOK
<1>2. \A e \in 1 .. Len(stream) : stream[e] \in Payloads /\ Job(e) \in Jobs
  BY PayloadsAssumption DEF TypeOK, QueueOK, Job
<1> QED
  BY <1>1, <1>2 DEF InQueue

(* What a worker has in memory is in the queue.                            *)
LEMMA HeldInQueue ==
  ASSUME TypeOK, Owned, NEW w \in Workers, NEW e \in Holding(w)
  PROVE  /\ e \in Nat /\ e \in 1 .. Len(group) /\ InQueue(e)
         /\ group[e] = w /\ e \notin expired
<1>1. e \in 1 .. Len(group)
  BY DEF TypeOK, WorkersOK, Holding, Claim, QueueOK
<1>2. e \in 1 .. Len(stream)
  BY <1>1, QueueTypes
<1> QED
  BY <1>1, <1>2, WorkersAssumption DEF Owned, InQueue

(* Two entries of the queue are of two jobs.                               *)
LEMMA JobsApart ==
  ASSUME TypeOK, Calm, Submitted, OnePlace,
         NEW e \in Nat, InQueue(e), NEW f \in Nat, InQueue(f), Job(e) = Job(f)
  PROVE  e = f
<1>1. stream[e] \in Payloads /\ stream[f] \in Payloads
      /\ e \in 1 .. Len(stream) /\ f \in 1 .. Len(stream)
  BY QueueTypes
<1>2. stream[e] = stream[f]
  BY <1>1 DEF Calm, Submitted, Job
<1> QED
  BY <1>2 DEF OnePlace

(* ... and a delayed retry is of a third.                                  *)
LEMMA RetriesApart ==
  ASSUME TypeOK, Calm, Submitted, OnePlace,
         NEW e \in Nat, InQueue(e), NEW p \in Payloads, retry[p] # "absent"
  PROVE  JobOf[p] # Job(e)
<1>1. stream[e] \in Payloads /\ e \in 1 .. Len(stream)
  BY QueueTypes
<1> QED
  BY <1>1 DEF Calm, Submitted, Job, OnePlace

(* One worker at a time has a job, and the PEL agrees.                     *)
LEMMA OneWorker ==
  ASSUME TypeOK, Calm, Submitted, OnePlace, Owned
  PROVE  OneWorkerPerJob
<1> SUFFICES ASSUME NEW v \in Workers, NEW w \in Workers, NEW e \in Holding(v), NEW f \in Holding(w)
             PROVE  (Job(e) = Job(f) => v = w /\ e = f) /\ group[e] = v
  BY DEF OneWorkerPerJob
<1>1. /\ e \in Nat /\ InQueue(e) /\ group[e] = v
      /\ f \in Nat /\ InQueue(f) /\ group[f] = w
  BY HeldInQueue
<1> QED
  BY <1>1, JobsApart

---------------------------------------------------------------------------
(***************************************************************************)
(* Slips are counted and never forgotten, so a calm state is only reached  *)
(* from calm ones.                                                         *)
(***************************************************************************)
LEMMA SlipsAreKept ==
  ASSUME TypeOK, [Next]_vars
  PROVE  /\ slow' = slow \/ (slow < MaxSlow /\ slow' = slow + 1)
         /\ lost' = lost \/ (lost < MaxLostReplies /\ lost' = lost + 1)
         /\ \/ enqueued' = enqueued
            \/ \E p \in Payloads : /\ enqueued[p] < MaxCopies
                                   /\ enqueued' = [enqueued EXCEPT ![p] = @ + 1]
<1> DEFINE Kept == /\ slow' = slow \/ (slow < MaxSlow /\ slow' = slow + 1)
                   /\ lost' = lost \/ (lost < MaxLostReplies /\ lost' = lost + 1)
                   /\ enqueued' = enqueued
<1>1. ASSUME NEW p \in Payloads, Enqueue(p)
      PROVE  /\ slow' = slow /\ lost' = lost /\ enqueued[p] < MaxCopies
             /\ enqueued' = [enqueued EXCEPT ![p] = @ + 1]
  BY <1>1 DEF Enqueue, faultVars
<1>2. ASSUME NEW e \in Entries, LeaseExpires(e) PROVE Kept
  BY <1>2 DEF LeaseExpires
<1>3. ASSUME NEW w \in Workers,
             \/ SkipReclaim(w) \/ Reclaim(w) \/ ListDue(w) \/ ClaimOne(w) \/ ClaimTimesOut(w)
             \/ ReadAttempt(w) \/ MarkClaimed(w) \/ MarkRejected(w) \/ AckRejected(w)
             \/ \E p \in Payloads : PromoteOne(w, p)
      PROVE  Kept
  BY <1>3 DEF SkipReclaim, Reclaim, ListDue, ClaimOne, ClaimTimesOut, ReadAttempt, MarkClaimed,
    MarkRejected, AckRejected, PromoteOne, Answered, ReplyLost, faultVars
<1>4. ASSUME NEW w \in Workers, Crash(w) \/ Stop(w) \/ Restart(w) PROVE Kept
  BY <1>4 DEF Crash, Stop, Restart, faultVars
<1>5. ASSUME NEW w \in Workers, NEW c \in FirstClaimed(w), Finalize(w, c) PROVE Kept
  BY <1>5 DEF Finalize, Complete, CommitResult, ScheduleRetry, FailJob, Fenced, ScriptDone,
    Answered, ReplyLost, faultVars
<1>6. ASSUME UNCHANGED vars \/ \E p \in Payloads : BackoffElapses(p) PROVE Kept
  BY <1>6 DEF vars, BackoffElapses, faultVars
<1> QED
  BY <1>1, <1>2, <1>3, <1>4, <1>5, <1>6 DEF Next, Run

(* A slip is never forgotten: a calm state had only calm ones before it.   *)
LEMMA CalmBefore ==
  ASSUME TypeOK, [Next]_vars, Calm'
  PROVE  Calm
<1>1. slow \in Nat /\ lost \in Nat /\ enqueued \in [Payloads -> Nat]
  BY DEF TypeOK, QueueOK
<1>2. slow = 0 /\ lost = 0
  BY <1>1, SlipsAreKept DEF Calm
<1>3. \A p \in Payloads : enqueued[p] \in Nat /\ enqueued'[p] \in Nat /\ enqueued[p] <= enqueued'[p]
  BY <1>1, SlipsAreKept
<1> QED
  BY <1>2, <1>3 DEF Calm

---------------------------------------------------------------------------
(* The steps, one kind after the other.                                    *)

(***************************************************************************)
(* A step that moves a worker's program counter, lets a backoff or the     *)
(* lease of an entry nobody works on run out, stops or starts a worker.    *)
(***************************************************************************)
LEMMA IdleStep ==
  ASSUME TypeOK, TypeOK', Inv,
         UNCHANGED <<stream, group, status, attempt, result, enqueued, inbox, claims, next>>,
         \A p \in Payloads : retry'[p] # "absent" <=> retry[p] # "absent",
         \A w \in Workers : \A e \in Holding(w) : e \in expired' => e \in expired,
         \A w \in Workers : pc'[w] = "mark" => pc[w] = "mark",
         outages <= outages'
  PROVE  Inv'
<1>0. outages \in Nat /\ outages' \in Nat /\ attempt \in [Jobs -> Nat] /\ MaxAttempts \in Nat
  BY BoundsAssumption DEF TypeOK, RecordsOK
<1>1. \A e : (InQueue(e) <=> InQueue(e)') /\ Job(e)' = Job(e)
  BY DEF InQueue, Job
<1>2. Submitted'
  BY DEF Inv, Submitted, TypeOK, QueueOK
<1>3. OnePlace'
  BY <1>1, QueueTypes DEF Inv, OnePlace
<1>4. Owned' /\ Apart'
  BY DEF Inv, Owned, Apart, Holding
<1>5. Current'
  <2>1. \A w \in Workers : FirstDelivered(w)' = FirstDelivered(w)
    BY DEF FirstDelivered
  <2> QED
    BY <1>1, <2>1 DEF Inv, Current, IsCurrent
<1>6. Untouched' /\ ResultOfOneAttempt'
  BY DEF Inv, Untouched, ResultOfOneAttempt
<1>7. Waiting'
  BY DEF Inv, Waiting
<1>8. Open'
  <2> SUFFICES ASSUME NEW e \in Nat, InQueue(e)'
               PROVE  /\ result'[Job(e)'] = NoResult
                      /\ status'[Job(e)'] \in OpenStatuses(stream'[e])
                      /\ InClaims(e)' \/ attempt'[Job(e)'] < MaxAttempts + outages'
    BY DEF Open
  <2>1. InQueue(e) /\ Job(e) \in Jobs
    BY <1>1, QueueTypes
  <2>2. attempt[Job(e)] \in Nat
    BY <1>0, <2>1
  <2>3. InClaims(e)' <=> InClaims(e)
    BY DEF InClaims
  <2>4. InClaims(e) \/ attempt[Job(e)] < MaxAttempts + outages
    BY <2>1 DEF Inv, Open
  <2>5. InClaims(e)' \/ attempt'[Job(e)'] < MaxAttempts + outages'
    BY <1>0, <1>1, <2>2, <2>3, <2>4
  <2> QED
    BY <1>1, <2>1, <2>5 DEF Inv, Open
<1>9. AttemptsAccountedFor'
  BY <1>0 DEF Inv, AttemptsAccountedFor
<1> QED
  BY <1>2, <1>3, <1>4, <1>5, <1>6, <1>7, <1>8, <1>9 DEF Inv

(***************************************************************************)
(* An XADD: an enqueue, or the promotion of a retry.                       *)
(***************************************************************************)
LEMMA AppendStep ==
  ASSUME TypeOK, TypeOK', Inv, NEW p \in Payloads, stream' = Append(stream, p),
         UNCHANGED <<group, expired, status, attempt, result, inbox, claims, next, outages>>,
         enqueued'[p] > 0, \A q \in Payloads : enqueued[q] <= enqueued'[q],
         retry'[p] = "absent", \A q \in Payloads \ {p} : retry'[q] = retry[q],
         \A e \in Nat : InQueue(e) => stream[e] # p,
         result[JobOf[p]] = NoResult, status[JobOf[p]] \in OpenStatuses(p),
         attempt[JobOf[p]] < MaxAttempts + outages,
         \A w \in Workers : pc'[w] = "mark" => pc[w] = "mark"
  PROVE  Inv'
<1> DEFINE n == Len(stream) + 1
<1>1. /\ n \in Nat \ {0} /\ n - 1 = Len(stream) /\ Len(group) \in Nat /\ Len(group) < n
      /\ Len(stream') = n /\ stream'[n] = p
      /\ \A e \in 1 .. Len(stream) : stream'[e] = stream[e]
  BY QueueTypes DEF TypeOK, QueueOK
<1>2. \A e \in 1 .. n : e = n \/ e \in 1 .. Len(stream)
  BY <1>1
<1> HIDE DEF n
<1>3. \A e \in Nat : InQueue(e)' => e = n \/ (InQueue(e) /\ stream'[e] = stream[e])
  BY <1>1, <1>2 DEF InQueue
<1>4. \A e \in 1 .. Len(stream) : Job(e)' = Job(e)
  BY <1>1 DEF Job
<1>5. Submitted'
  <2>1. \A q \in Payloads : enqueued[q] \in Nat /\ enqueued'[q] \in Nat
    BY DEF TypeOK, QueueOK
  <2>2. \A e \in 1 .. Len(stream) : stream[e] \in Payloads /\ enqueued[stream[e]] > 0
    BY QueueTypes DEF Inv, Submitted
  <2> QED
    BY <1>1, <1>2, <2>1, <2>2 DEF Inv, Submitted
<1>6. OnePlace'
  <2>1. \A e \in Nat : InQueue(e) => stream[e] \in Payloads
    BY QueueTypes
  <2> SUFFICES ASSUME NEW e \in Nat, InQueue(e)'
               PROVE  /\ retry'[stream'[e]] = "absent"
                      /\ \A f \in Nat : InQueue(f)' /\ stream'[e] = stream'[f] => e = f
    BY DEF OnePlace
  <2>2. CASE e = n
    <3>1. stream'[e] = p /\ retry'[p] = "absent"
      BY <1>1, <2>2
    <3>2. ASSUME NEW f \in Nat, InQueue(f)', stream'[f] = p
          PROVE  f = n
      BY <1>3, <3>2
    <3> QED
      BY <2>2, <3>1, <3>2
  <2>3. CASE InQueue(e) /\ stream'[e] = stream[e]
    <3>1. stream[e] # p /\ stream[e] \in Payloads
      BY <2>1, <2>3
    <3>2. retry'[stream'[e]] = "absent"
      BY <2>3, <3>1 DEF Inv, OnePlace
    <3>3. ASSUME NEW f \in Nat, InQueue(f)', stream'[e] = stream'[f]
          PROVE  e = f
      <4>1. f # n
        BY <1>1, <2>3, <3>1, <3>3
      <4>2. InQueue(f) /\ stream[f] = stream[e]
        BY <1>3, <2>3, <3>3, <4>1
      <4> QED
        BY <2>3, <4>2 DEF Inv, OnePlace
    <3> QED
      BY <3>2, <3>3
  <2> QED
    BY <1>3, <2>2, <2>3
<1>7. Owned' /\ Apart'
  BY DEF Inv, Owned, Apart, Holding
<1>8. \A w \in Workers : FirstDelivered(w)' = FirstDelivered(w)
  BY DEF FirstDelivered
<1>9. Current'
  <2>1. ASSUME NEW w \in Workers
        PROVE  /\ \A c \in claims[w] : c.entry \in 1 .. Len(stream)
               /\ \A e \in FirstDelivered(w) : e \in 1 .. Len(stream)
    BY QueueTypes, HeldInQueue DEF Inv, Holding, FirstDelivered
  <2> QED
    BY <1>4, <1>8, <2>1 DEF Inv, Current, IsCurrent
<1>10. Untouched'
  <2>1. \A q \in Payloads : enqueued[q] \in Nat /\ enqueued'[q] \in Nat
    BY DEF TypeOK, QueueOK
  <2>2. \A q \in Payloads : enqueued'[q] = 0 => enqueued[q] = 0
    BY <2>1
  <2> QED
    BY <2>2 DEF Inv, Untouched
<1>11. Waiting'
  BY DEF Inv, Waiting
<1>12. Open'
  <2> SUFFICES ASSUME NEW e \in Nat, InQueue(e)'
               PROVE  /\ result'[Job(e)'] = NoResult
                      /\ status'[Job(e)'] \in OpenStatuses(stream'[e])
                      /\ InClaims(e)' \/ attempt'[Job(e)'] < MaxAttempts + outages'
    BY DEF Open
  <2>1. CASE e = n
    BY <1>1, <2>1 DEF Job
  <2>2. CASE InQueue(e) /\ stream'[e] = stream[e]
    BY <2>2 DEF Inv, Open, InClaims, Job
  <2> QED
    BY <1>3, <2>1, <2>2
<1>13. AttemptsAccountedFor' /\ ResultOfOneAttempt'
  BY DEF Inv, AttemptsAccountedFor, ResultOfOneAttempt
<1> QED
  BY <1>5, <1>6, <1>7, <1>9, <1>10, <1>11, <1>12, <1>13 DEF Inv

(***************************************************************************)
(* XAUTOCLAIM of entries nobody works on.                                  *)
(***************************************************************************)
LEMMA ReclaimStep ==
  ASSUME TypeOK, TypeOK', Inv, NEW w \in Workers, NEW batch \in SUBSET Pending,
         batch \subseteq expired,
         group' = [e \in DOMAIN group |-> IF e \in batch THEN w ELSE group[e]],
         expired' = expired \ batch,
         inbox' = [inbox EXCEPT ![w] = batch],
         UNCHANGED <<stream, retry, status, attempt, result, enqueued, claims, next, outages>>,
         \A v \in Workers : pc'[v] = "mark" => v # w /\ pc[v] = "mark"
  PROVE  Inv'
<1>1. /\ Len(group') = Len(group) /\ batch \subseteq 1 .. Len(group)
      /\ \A e \in 1 .. Len(group) : group'[e] = IF e \in batch THEN w ELSE group[e]
      /\ \A e \in batch : group[e] # NoWorker
  BY DEF TypeOK, QueueOK, Pending
<1>2. \A e \in Nat : (InQueue(e)' <=> InQueue(e)) /\ Job(e)' = Job(e)
  BY <1>1, WorkersAssumption DEF InQueue, Job
<1>3. Submitted' /\ Untouched' /\ Waiting' /\ AttemptsAccountedFor' /\ ResultOfOneAttempt'
  BY DEF Inv, Submitted, Untouched, Waiting, AttemptsAccountedFor, ResultOfOneAttempt
<1>4. OnePlace' /\ Open'
  BY <1>2 DEF Inv, OnePlace, Open, InClaims
<1>5. \A v \in Workers : inbox'[v] = IF v = w THEN batch ELSE inbox[v]
  BY DEF TypeOK, WorkersOK
<1>6. \A v \in Workers : \A e \in Holding(v) :
        e \in 1 .. Len(group) /\ group[e] = v /\ e \notin expired /\ e \notin batch
  BY HeldInQueue DEF Inv
<1>7. Owned'
  <2> SUFFICES ASSUME NEW v \in Workers, NEW e \in Holding(v)'
               PROVE  group'[e] = v /\ e \notin expired'
    BY DEF Owned
  <2>1. (e \in batch /\ v = w) \/ e \in Holding(v)
    BY <1>5 DEF Holding
  <2> QED
    BY <1>1, <1>6, <2>1
<1>8. Apart'
  BY <1>5, <1>6 DEF Inv, Apart, Holding
<1>9. Current'
  <2>1. \A v \in Workers : v # w => FirstDelivered(v)' = FirstDelivered(v)
    BY <1>5 DEF FirstDelivered
  <2>2. \A v \in Workers : \A e \in FirstDelivered(v) : e \in Nat
    BY HeldInQueue DEF Inv, FirstDelivered, Holding
  <2>3. \A v \in Workers : \A c \in claims[v] : c.entry \in Nat
    BY HeldInQueue DEF Inv, Holding
  <2> QED
    BY <1>2, <2>1, <2>2, <2>3 DEF Inv, Current, IsCurrent
<1> QED
  BY <1>3, <1>4, <1>7, <1>8, <1>9 DEF Inv

(***************************************************************************)
(* XREADGROUP: the next entry goes to the worker that asked.               *)
(***************************************************************************)
LEMMA ClaimStep ==
  ASSUME TypeOK, TypeOK', Inv, NEW w \in Workers, Undelivered # {},
         group' = Append(group, w), inbox' = [inbox EXCEPT ![w] = {Len(group) + 1}],
         UNCHANGED <<stream, expired, retry, status, attempt, result, enqueued>>,
         UNCHANGED <<claims, next, outages>>,
         \A v \in Workers : pc'[v] = "mark" => v # w /\ pc[v] = "mark"
  PROVE  Inv'
<1> DEFINE n == Len(group) + 1
<1>1. /\ n \in Nat /\ Len(group') = n /\ n \in 1 .. Len(stream)
      /\ group'[n] = w /\ n \notin 1 .. Len(group)
      /\ \A e \in 1 .. Len(group) : e \in 1 .. n /\ group'[e] = group[e]
      /\ \A e \in 1 .. n : e = n \/ e \in 1 .. Len(group)
  <2>1. Len(group) \in Nat /\ Len(stream) \in Nat /\ Len(group) < Len(stream)
    BY QueueTypes DEF Undelivered
  <2>2. group \in Seq(Workers \union {NoWorker})
    BY DEF TypeOK, QueueOK
  <2> QED
    BY <2>1, <2>2
<1>2. expired \subseteq 1 .. Len(group)
  BY DEF TypeOK, QueueOK, Pending
<1>3. inbox' = [inbox EXCEPT ![w] = {n}]
  OBVIOUS
<1> HIDE DEF n
<1>4. \A e \in Nat : (InQueue(e)' <=> InQueue(e)) /\ Job(e)' = Job(e)
  BY <1>1, WorkersAssumption DEF InQueue, Job
<1>5. Submitted' /\ Untouched' /\ Waiting' /\ AttemptsAccountedFor' /\ ResultOfOneAttempt'
  BY DEF Inv, Submitted, Untouched, Waiting, AttemptsAccountedFor, ResultOfOneAttempt
<1>6. OnePlace' /\ Open'
  BY <1>4 DEF Inv, OnePlace, Open, InClaims
<1>7. \A v \in Workers : inbox'[v] = IF v = w THEN {n} ELSE inbox[v]
  BY <1>3 DEF TypeOK, WorkersOK
<1>8. \A v \in Workers : \A e \in Holding(v) :
        e \in 1 .. Len(group) /\ group[e] = v /\ e \notin expired /\ e # n /\ e \in Nat
  BY <1>1, HeldInQueue DEF Inv
<1>9. Owned'
  <2> SUFFICES ASSUME NEW v \in Workers, NEW e \in Holding(v)'
               PROVE  group'[e] = v /\ e \notin expired'
    BY DEF Owned
  <2>1. (e = n /\ v = w) \/ e \in Holding(v)
    BY <1>7 DEF Holding
  <2> QED
    BY <1>1, <1>2, <1>8, <2>1
<1>10. Apart'
  BY <1>7, <1>8 DEF Inv, Apart, Holding
<1>11. Current'
  <2>1. \A v \in Workers : v # w => FirstDelivered(v)' = FirstDelivered(v)
    BY <1>7 DEF FirstDelivered
  <2>2. \A v \in Workers : \A e \in FirstDelivered(v) : e \in Nat
    BY <1>8 DEF FirstDelivered, Holding
  <2>3. \A v \in Workers : \A c \in claims[v] : c.entry \in Nat
    BY <1>8 DEF Holding
  <2> QED
    BY <1>4, <2>1, <2>2, <2>3 DEF Inv, Current, IsCurrent
<1> QED
  BY <1>5, <1>6, <1>9, <1>10, <1>11 DEF Inv

(***************************************************************************)
(* _next_attempt: the attempt a worker is about to claim.                  *)
(***************************************************************************)
LEMMA ReadStep ==
  ASSUME TypeOK, TypeOK', Inv, NEW w \in Workers, ReadAttempt(w)
  PROVE  Inv'
<1>1. PICK e \in FirstDelivered(w) : next' = [next EXCEPT ![w] = attempt[Job(e)] + 1]
  BY DEF ReadAttempt, NextAttempt
<1>2. /\ UNCHANGED <<stream, group, expired, retry, status, attempt, result, enqueued>>
      /\ UNCHANGED <<inbox, claims, outages>>
      /\ \A v \in Workers : v # w => pc'[v] = pc[v] /\ next'[v] = next[v]
      /\ next'[w] = attempt[Job(e)] + 1
  BY <1>1 DEF ReadAttempt, Goto, redisVars, faultVars, TypeOK, WorkersOK
<1>3. \A v \in Workers : FirstDelivered(v)' = FirstDelivered(v)
  BY <1>2 DEF FirstDelivered
<1>4. Current'
  <2>1. \A f \in FirstDelivered(w) : f = e
    BY FirstIsUnique
  <2> QED
    BY <1>2, <1>3, <2>1 DEF Inv, Current, IsCurrent, Job
<1>5. /\ Submitted' /\ Owned' /\ Apart' /\ Untouched' /\ Waiting'
      /\ AttemptsAccountedFor' /\ ResultOfOneAttempt'
  BY <1>2 DEF Inv, Submitted, Owned, Apart, Untouched, Waiting, Holding, AttemptsAccountedFor,
    ResultOfOneAttempt
<1>6. OnePlace' /\ Open'
  BY <1>2 DEF Inv, OnePlace, Open, InQueue, InClaims, Job
<1> QED
  BY <1>4, <1>5, <1>6 DEF Inv

(***************************************************************************)
(* mark_claimed: the entry moves from what was delivered to what is        *)
(* claimed, with the attempt computed before.                              *)
(***************************************************************************)
LEMMA MarkStep ==
  ASSUME TypeOK, TypeOK', Calm, Inv, MalformedNeverHandled, NEW w \in Workers, MarkClaimed(w),
         lost' = lost
  PROVE  Inv'
<1>1. PICK e \in FirstDelivered(w) :
        /\ SetStatus(Job(e), "claimed")
        /\ attempt' = [attempt EXCEPT ![Job(e)] = next[w]]
        /\ claims' = [claims EXCEPT ![w] = @ \union {[entry |-> e, attempt |-> next[w]]}]
        /\ inbox' = [inbox EXCEPT ![w] = @ \ {e}]
        /\ next' = [next EXCEPT ![w] = 0]
        /\ Goto(w, IF inbox[w] = {e} THEN "process" ELSE "register")
  <2>1. ~ReplyLost
    BY DEF ReplyLost, TypeOK
  <2> QED
    BY <2>1 DEF MarkClaimed
<1> DEFINE new == [entry |-> e, attempt |-> next[w]]
<1>2. /\ e \in Holding(w) /\ e \in inbox[w] /\ stream[e] \notin Malformed
      /\ next[w] = attempt[Job(e)] + 1
  BY DEF FirstDelivered, Holding, MarkClaimed, MalformedNeverHandled, Inv, Current
<1>3. /\ e \in Nat /\ InQueue(e) /\ group[e] = w /\ Job(e) \in Jobs
      /\ stream[e] \in Payloads /\ e \in 1 .. Len(stream)
  BY <1>2, HeldInQueue, QueueTypes DEF Inv
<1>4. /\ attempt \in [Jobs -> Nat] /\ status \in [Jobs -> Statuses]
      /\ outages \in Nat /\ MaxAttempts \in Nat
  BY BoundsAssumption DEF TypeOK, RecordsOK
<1>5. /\ attempt'[Job(e)] = next[w] /\ status'[Job(e)] = "claimed"
      /\ \A j \in Jobs : j # Job(e) => attempt'[j] = attempt[j] /\ status'[j] = status[j]
  BY <1>1, <1>3, <1>4 DEF SetStatus
<1>6. UNCHANGED <<stream, group, expired, retry, result, enqueued, outages>>
  BY DEF MarkClaimed, faultVars
<1>7. /\ claims'[w] = claims[w] \union {new} /\ inbox'[w] = inbox[w] \ {e}
      /\ \A v \in Workers : v # w => /\ claims'[v] = claims[v] /\ inbox'[v] = inbox[v]
                                     /\ next'[v] = next[v] /\ pc'[v] = pc[v]
      /\ pc'[w] # "mark"
  BY <1>1 DEF TypeOK, WorkersOK, Goto
<1>8. new.entry = e /\ new.attempt = next[w]
  OBVIOUS
<1> HIDE DEF new
<1>9. \A f \in Nat : (InQueue(f)' <=> InQueue(f)) /\ Job(f)' = Job(f)
  BY <1>6 DEF InQueue, Job
<1>10. \A v \in Workers : Holding(v)' = Holding(v)
  BY <1>2, <1>7, <1>8 DEF Holding
<1>11. \A v \in Workers : \A f \in Holding(v) :
         /\ f \in Nat /\ InQueue(f) /\ Job(f) \in Jobs
         /\ f # e => Job(f) # Job(e)
         /\ v # w => f # e
  BY <1>3, HeldInQueue, QueueTypes, JobsApart DEF Inv
<1>12. Submitted' /\ OnePlace'
  BY <1>6, <1>9 DEF Inv, Submitted, OnePlace
<1>13. Owned'
  BY <1>6, <1>10 DEF Inv, Owned
<1>14. Apart'
  <2>1. \A c \in claims[w] : c.entry # e
    BY <1>2 DEF Inv, Apart
  <2> QED
    BY <1>7, <1>8, <2>1 DEF Inv, Apart
<1>15. Current'
  <2>1. ASSUME NEW v \in Workers, NEW c \in claims'[v]
        PROVE  IsCurrent(c)' /\ status'[Job(c.entry)'] = "claimed"
    <3>1. CASE c = new /\ v = w
      BY <1>3, <1>5, <1>8, <1>9, <3>1 DEF IsCurrent
    <3>2. CASE c \in claims[v]
      <4>1. c.entry \in Holding(v) /\ c.entry # e
        BY <1>2, <1>11, <3>2 DEF Holding, Inv, Apart
      <4>2. c.entry \in Nat /\ Job(c.entry) \in Jobs /\ Job(c.entry) # Job(e)
        BY <1>11, <4>1
      <4> QED
        BY <1>5, <1>9, <3>2, <4>2 DEF Inv, Current, IsCurrent
    <3> QED
      BY <1>7, <3>1, <3>2
  <2>2. ASSUME NEW v \in Workers, pc'[v] = "mark", NEW f \in FirstDelivered(v)'
        PROVE  next'[v] = attempt'[Job(f)'] + 1
    <3>1. v # w /\ f \in FirstDelivered(v)
      BY <1>7, <2>2 DEF FirstDelivered
    <3>2. f \in Holding(v)
      BY <3>1 DEF FirstDelivered, Holding
    <3>3. f \in Nat /\ Job(f) \in Jobs /\ Job(f) # Job(e)
      BY <1>11, <3>1, <3>2
    <3> QED
      BY <1>5, <1>7, <1>9, <2>2, <3>1, <3>3 DEF Inv, Current
  <2> QED
    BY <2>1, <2>2 DEF Current
<1>16. Untouched'
  <2>1. \A j \in Jobs : (\A p \in Payloads : JobOf[p] = j => enqueued[p] = 0) => j # Job(e)
    BY <1>3 DEF Inv, Submitted, Job
  <2> QED
    BY <1>5, <1>6, <2>1 DEF Inv, Untouched
<1>17. Waiting'
  <2>1. \A p \in Payloads : retry[p] # "absent" => JobOf[p] # Job(e) /\ JobOf[p] \in Jobs
    BY <1>3, RetriesApart, PayloadsAssumption DEF Inv
  <2> QED
    BY <1>5, <1>6, <2>1 DEF Inv, Waiting
<1>18. Open'
  <2> SUFFICES ASSUME NEW f \in Nat, InQueue(f)'
               PROVE  /\ result'[Job(f)'] = NoResult
                      /\ status'[Job(f)'] \in OpenStatuses(stream'[f])
                      /\ InClaims(f)' \/ attempt'[Job(f)'] < MaxAttempts + outages'
    BY DEF Open
  <2>1. InQueue(f) /\ Job(f)' = Job(f) /\ Job(f) \in Jobs
    BY <1>9, QueueTypes
  <2>2. CASE f = e
    <3>1. InClaims(f)'
      BY <1>7, <1>8, <2>2 DEF InClaims
    <3> QED
      BY <1>2, <1>5, <1>6, <2>1, <2>2, <3>1 DEF Inv, Open, OpenStatuses
  <2>3. CASE f # e
    <3>1. Job(f) # Job(e)
      BY <1>3, <2>1, <2>3, JobsApart DEF Inv
    <3>2. InClaims(f) => InClaims(f)'
      BY <1>7 DEF InClaims
    <3> QED
      BY <1>5, <1>6, <2>1, <3>1, <3>2 DEF Inv, Open
  <2> QED
    BY <2>2, <2>3
<1>19. AttemptsAccountedFor'
  <2>1. ~InClaims(e)
    <3> SUFFICES ASSUME NEW v \in Workers, NEW c \in claims[v], c.entry = e PROVE FALSE
      BY DEF InClaims
    <3>1. e \in Holding(v)
      BY DEF Holding
    <3>2. v = w
      BY <1>11, <3>1
    <3> QED
      BY <1>2, <3>2 DEF Inv, Apart
  <2>2. attempt[Job(e)] < MaxAttempts + outages /\ attempt[Job(e)] \in Nat
    BY <1>3, <1>4, <2>1 DEF Inv, Open
  <2>3. attempt'[Job(e)] <= MaxAttempts + outages
    BY <1>2, <1>4, <1>5, <2>2
  <2> QED
    BY <1>5, <1>6, <2>3 DEF Inv, AttemptsAccountedFor
<1>20. ResultOfOneAttempt'
  BY <1>6 DEF Inv, ResultOfOneAttempt
<1> QED
  BY <1>12, <1>13, <1>14, <1>15, <1>16, <1>17, <1>18, <1>19, <1>20 DEF Inv

(***************************************************************************)
(* mark_rejected: only the status of the malformed entry's own job.        *)
(***************************************************************************)
LEMMA RejectStep ==
  ASSUME TypeOK, TypeOK', Calm, Inv, NEW w \in Workers, MarkRejected(w)
  PROVE  Inv'
<1>1. PICK e \in FirstDelivered(w) : stream[e] \in Malformed /\ SetStatus(Job(e), "rejected")
  BY DEF MarkRejected, WellFormed
<1>2. e \in Holding(w) /\ e \in inbox[w]
  BY DEF FirstDelivered, Holding
<1>3. /\ e \in Nat /\ InQueue(e) /\ group[e] = w /\ Job(e) \in Jobs
      /\ stream[e] \in Payloads /\ e \in 1 .. Len(stream)
  BY <1>2, HeldInQueue, QueueTypes DEF Inv
<1>4. /\ status'[Job(e)] = "rejected"
      /\ \A j \in Jobs : j # Job(e) => status'[j] = status[j]
  BY <1>1, <1>3 DEF SetStatus, TypeOK, RecordsOK
<1>5. /\ UNCHANGED <<stream, group, expired, retry, attempt, result, enqueued, outages>>
      /\ UNCHANGED <<inbox, claims, next>>
  BY DEF MarkRejected, faultVars
<1>6. \A v \in Workers : pc'[v] = "mark" => pc[v] = "mark"
  BY DEF MarkRejected, Goto, TypeOK, WorkersOK
<1>7. \A f \in Nat : (InQueue(f)' <=> InQueue(f)) /\ Job(f)' = Job(f)
  BY <1>5 DEF InQueue, Job
<1>8. /\ Submitted' /\ OnePlace' /\ Owned' /\ Apart'
      /\ AttemptsAccountedFor' /\ ResultOfOneAttempt'
  BY <1>5, <1>7 DEF Inv, Submitted, OnePlace, Owned, Apart, Holding, AttemptsAccountedFor,
    ResultOfOneAttempt
<1>9. Current'
  <2>1. ASSUME NEW v \in Workers, NEW c \in claims[v]
        PROVE  c.entry \in Nat /\ Job(c.entry) \in Jobs /\ Job(c.entry) # Job(e)
    <3>1. c.entry \in Holding(v)
      BY DEF Holding
    <3>2. /\ c.entry \in Nat /\ InQueue(c.entry) /\ group[c.entry] = v
          /\ Job(c.entry) \in Jobs
      BY <3>1, HeldInQueue, QueueTypes DEF Inv
    <3>3. c.entry # e
      BY <1>2, <1>3, <3>2 DEF Inv, Apart
    <3> QED
      BY <1>3, <3>2, <3>3, JobsApart DEF Inv
  <2>2. \A v \in Workers : FirstDelivered(v)' = FirstDelivered(v)
    BY <1>5 DEF FirstDelivered
  <2>3. \A v \in Workers : \A f \in FirstDelivered(v) : f \in Nat
    BY FirstDeliveredEntry
  <2> QED
    BY <1>4, <1>5, <1>6, <1>7, <2>1, <2>2, <2>3 DEF Inv, Current, IsCurrent
<1>10. Untouched'
  <2>1. \A j \in Jobs : (\A p \in Payloads : JobOf[p] = j => enqueued[p] = 0) => j # Job(e)
    BY <1>3 DEF Inv, Submitted, Job
  <2> QED
    BY <1>4, <1>5, <2>1 DEF Inv, Untouched
<1>11. Waiting'
  <2>1. \A p \in Payloads : retry[p] # "absent" => JobOf[p] # Job(e) /\ JobOf[p] \in Jobs
    BY <1>3, RetriesApart, PayloadsAssumption DEF Inv
  <2> QED
    BY <1>4, <1>5, <2>1 DEF Inv, Waiting
<1>12. Open'
  <2> SUFFICES ASSUME NEW f \in Nat, InQueue(f)'
               PROVE  /\ result'[Job(f)'] = NoResult
                      /\ status'[Job(f)'] \in OpenStatuses(stream'[f])
                      /\ InClaims(f)' \/ attempt'[Job(f)'] < MaxAttempts + outages'
    BY DEF Open
  <2>1. InQueue(f) /\ Job(f)' = Job(f) /\ Job(f) \in Jobs
    BY <1>7, QueueTypes
  <2>2. status'[Job(f)] \in OpenStatuses(stream[f])
    <3>1. CASE f = e
      BY <1>1, <1>4, <3>1 DEF OpenStatuses
    <3>2. CASE f # e
      <4>1. Job(f) # Job(e)
        BY <1>3, <2>1, <3>2, JobsApart DEF Inv
      <4> QED
        BY <1>4, <2>1, <4>1 DEF Inv, Open
    <3> QED
      BY <3>1, <3>2
  <2> QED
    BY <1>5, <2>1, <2>2 DEF Inv, Open, InClaims
<1> QED
  BY <1>8, <1>9, <1>10, <1>11, <1>12 DEF Inv

(***************************************************************************)
(* An XACK of an entry that its worker drops from memory: it comes with    *)
(* an outcome of the entry's job, or hands its payload to the retry ZSET.  *)
(***************************************************************************)
LEMMA AckStep ==
  ASSUME TypeOK, TypeOK', Calm, Inv, NEW w \in Workers, NEW e \in Holding(w), XAck(e),
         UNCHANGED <<stream, attempt, enqueued, next, outages>>,
         \A v \in Workers : inbox'[v] \subseteq inbox[v] /\ claims'[v] \subseteq claims[v],
         e \notin Holding(w)',
         \A v \in Workers : \A c \in claims[v] : c.entry # e => c \in claims'[v],
         \A v \in Workers : pc'[v] = "mark" => pc[v] = "mark" /\ inbox'[v] = inbox[v],
         \A j \in Jobs : j # Job(e) => status'[j] = status[j] /\ result'[j] = result[j],
         result'[Job(e)].evidence \in {0, result'[Job(e)].attempt},
         \/ retry' = retry
         \/ /\ retry' = [retry EXCEPT ![stream[e]] = "waiting"] /\ stream[e] \notin Malformed
            /\ status'[Job(e)] = "retry_scheduled" /\ result'[Job(e)] = NoResult
            /\ attempt[Job(e)] < MaxAttempts
  PROVE  Inv'
<1>1. /\ e \in Nat /\ InQueue(e) /\ group[e] = w /\ Job(e) \in Jobs /\ e \in 1 .. Len(group)
      /\ stream[e] \in Payloads /\ e \in 1 .. Len(stream)
  BY HeldInQueue, QueueTypes DEF Inv
<1>2. /\ Len(group') = Len(group) /\ group'[e] = NoWorker /\ expired' \subseteq expired
      /\ \A f \in 1 .. Len(group) : f # e => group'[f] = group[f]
  BY <1>1 DEF XAck, TypeOK, QueueOK
<1>3. \A f \in Nat : InQueue(f)' => InQueue(f) /\ f # e
  BY <1>1, <1>2 DEF InQueue
<1>4. \A f \in Nat : Job(f)' = Job(f)
  BY DEF Job
<1>5. \A f \in Nat : InQueue(f) /\ f # e => /\ Job(f) \in Jobs /\ Job(f) # Job(e)
                                            /\ stream[f] # stream[e]
  BY <1>1, JobsApart, QueueTypes DEF Inv, Job
<1>6. \A v \in Workers : \A f \in Holding(v)' :
        f \in Holding(v) /\ f \in Nat /\ f \in 1 .. Len(group) /\ f # e /\ InQueue(f)
  <2> SUFFICES ASSUME NEW v \in Workers, NEW f \in Holding(v)'
               PROVE  f \in Holding(v) /\ f \in Nat /\ f \in 1 .. Len(group) /\ f # e /\ InQueue(f)
    OBVIOUS
  <2>1. f \in Holding(v)
    BY DEF Holding
  <2>2. f \in Nat /\ f \in 1 .. Len(group) /\ InQueue(f) /\ group[f] = v
    BY <2>1, HeldInQueue DEF Inv
  <2> QED
    BY <1>1, <2>1, <2>2
<1>7. \A p \in Payloads : retry'[p] # "absent" =>
        \/ retry[p] # "absent" /\ p # stream[e] /\ JobOf[p] # Job(e) /\ JobOf[p] \in Jobs
        \/ /\ p = stream[e] /\ JobOf[p] = Job(e) /\ stream[e] \notin Malformed
           /\ status'[Job(e)] = "retry_scheduled" /\ result'[Job(e)] = NoResult
           /\ attempt[Job(e)] < MaxAttempts
  <2> SUFFICES ASSUME NEW p \in Payloads, retry'[p] # "absent", p # stream[e] \/ retry' = retry
               PROVE  /\ retry[p] # "absent" /\ p # stream[e] /\ JobOf[p] # Job(e)
                      /\ JobOf[p] \in Jobs
    BY DEF Job
  <2>1. retry[p] # "absent"
    BY <1>1 DEF TypeOK, QueueOK
  <2> QED
    BY <1>1, <2>1, RetriesApart, PayloadsAssumption DEF Inv, Job
<1>8. Submitted'
  BY <1>1, <1>7 DEF Inv, Submitted
<1>9. OnePlace'
  <2> SUFFICES ASSUME NEW f \in Nat, InQueue(f)'
               PROVE  /\ retry'[stream[f]] = "absent"
                      /\ \A g \in Nat : InQueue(g)' /\ stream[f] = stream[g] => f = g
    BY DEF OnePlace
  <2>1. InQueue(f) /\ stream[f] # stream[e] /\ stream[f] \in Payloads
    BY <1>3, <1>5, QueueTypes
  <2> QED
    BY <1>3, <1>7, <2>1 DEF Inv, OnePlace
<1>10. Owned'
  BY <1>2, <1>6 DEF Inv, Owned
<1>11. Apart'
  BY DEF Inv, Apart
<1>12. Current'
  <2>1. ASSUME NEW v \in Workers, NEW c \in claims'[v]
        PROVE  IsCurrent(c)' /\ status'[Job(c.entry)'] = "claimed"
    <3>1. c \in claims[v] /\ c.entry \in Holding(v)'
      BY DEF Holding
    <3>2. c.entry \in Nat /\ Job(c.entry) \in Jobs /\ Job(c.entry) # Job(e)
      BY <1>5, <1>6, <3>1
    <3> QED
      BY <1>4, <3>1, <3>2 DEF Inv, Current, IsCurrent
  <2>2. ASSUME NEW v \in Workers, pc'[v] = "mark", NEW f \in FirstDelivered(v)'
        PROVE  next'[v] = attempt'[Job(f)'] + 1
    <3>1. f \in FirstDelivered(v) /\ pc[v] = "mark"
      BY <2>2 DEF FirstDelivered
    <3>2. f \in Nat
      BY <3>1, FirstDeliveredEntry
    <3> QED
      BY <1>4, <3>1, <3>2 DEF Inv, Current
  <2> QED
    BY <2>1, <2>2 DEF Current
<1>13. Untouched'
  <2>1. \A j \in Jobs : (\A p \in Payloads : JobOf[p] = j => enqueued[p] = 0) => j # Job(e)
    BY <1>1 DEF Inv, Submitted, Job
  <2> QED
    BY <2>1 DEF Inv, Untouched
<1>14. Waiting'
  BY <1>7 DEF Inv, Waiting
<1>15. Open'
  <2>1. \A f \in Nat : f # e /\ InClaims(f) => InClaims(f)'
    BY DEF InClaims
  <2> QED
    BY <1>3, <1>4, <1>5, <2>1 DEF Inv, Open
<1>16. AttemptsAccountedFor'
  BY DEF Inv, AttemptsAccountedFor
<1>17. ResultOfOneAttempt'
  BY DEF Inv, ResultOfOneAttempt
<1> QED
  BY <1>8, <1>9, <1>10, <1>11, <1>12, <1>13, <1>14, <1>15, <1>16, <1>17 DEF Inv

(***************************************************************************)
(* A crash empties a worker's memory; what it had claimed is now owed.     *)
(***************************************************************************)
LEMMA CrashStep ==
  ASSUME TypeOK, TypeOK', Inv, NEW w \in Workers, Crash(w)
  PROVE  Inv'
<1>1. /\ UNCHANGED <<stream, group, expired, retry, status, attempt, result, enqueued>>
      /\ outages' = outages + 1
      /\ claims'[w] = {} /\ inbox'[w] = {} /\ pc'[w] = "down"
      /\ \A v \in Workers : v # w => /\ claims'[v] = claims[v] /\ inbox'[v] = inbox[v]
                                     /\ next'[v] = next[v] /\ pc'[v] = pc[v]
  BY DEF Crash, Forget, Goto, redisVars, TypeOK, WorkersOK
<1>2. \A f \in Nat : (InQueue(f)' <=> InQueue(f)) /\ Job(f)' = Job(f)
  BY <1>1 DEF InQueue, Job
<1>3. /\ Submitted' /\ OnePlace' /\ Untouched' /\ Waiting' /\ ResultOfOneAttempt'
  BY <1>1, <1>2 DEF Inv, Submitted, OnePlace, Untouched, Waiting, ResultOfOneAttempt
<1>4. Owned' /\ Apart'
  BY <1>1 DEF Inv, Owned, Apart, Holding
<1>5. Current'
  <2>1. \A v \in Workers : v # w => FirstDelivered(v)' = FirstDelivered(v)
    BY <1>1 DEF FirstDelivered
  <2> QED
    BY <1>1, <2>1 DEF Inv, Current, IsCurrent, Job
<1>6. outages \in Nat /\ MaxAttempts \in Nat /\ attempt \in [Jobs -> Nat]
  BY BoundsAssumption DEF TypeOK, RecordsOK
<1>7. AttemptsAccountedFor'
  BY <1>1, <1>6 DEF Inv, AttemptsAccountedFor
<1>8. Open'
  <2>1. \A j \in Jobs : attempt[j] < MaxAttempts + (outages + 1)
    BY <1>6 DEF Inv, AttemptsAccountedFor
  <2> QED
    BY <1>1, <1>2, <2>1, QueueTypes DEF Inv, Open
<1> QED
  BY <1>3, <1>4, <1>5, <1>7, <1>8 DEF Inv

---------------------------------------------------------------------------
(***************************************************************************)
(* The scripts that finalize a claim.  None is fenced: the claim's attempt *)
(* is the one on record.                                                   *)
(***************************************************************************)
LEMMA FinalizeStep ==
  ASSUME TypeOK, TypeOK', Calm, Calm', Inv, MalformedNeverHandled,
         NEW w \in Workers, NEW c \in FirstClaimed(w), Finalize(w, c)
  PROVE  Inv'
<1> DEFINE e == c.entry
<1>1. /\ c \in claims[w] /\ c \in Claim /\ e \in Holding(w) /\ e \notin inbox[w]
      /\ IsCurrent(c) /\ stream[e] \notin Malformed
  BY FirstClaimedEntry DEF Holding, Inv, Apart, Current, MalformedNeverHandled
<1>2. e \in Nat /\ InQueue(e) /\ Job(e) \in Jobs /\ stream[e] \in Payloads
  BY <1>1, HeldInQueue, QueueTypes DEF Inv
<1>3. /\ result[Job(e)] = NoResult /\ attempt[Job(e)] = c.attempt /\ c.attempt \in Nat \ {0}
  BY <1>1, <1>2 DEF Inv, Open, IsCurrent, Claim
<1>4. ~ReplyLost
  BY DEF ReplyLost, Calm
<1>5. ASSUME Dispatched(w, c), inbox' = inbox
      PROVE  /\ \A v \in Workers : inbox'[v] \subseteq inbox[v] /\ claims'[v] \subseteq claims[v]
             /\ e \notin Holding(w)'
             /\ \A v \in Workers : \A d \in claims[v] : d.entry # e => d \in claims'[v]
             /\ \A v \in Workers : pc'[v] = "mark" => pc[v] = "mark" /\ inbox'[v] = inbox[v]
  <2>1. \A v \in Workers : claims'[v] = IF v = w THEN claims[w] \ {c} ELSE claims[v]
    BY <1>5 DEF Dispatched, TypeOK, WorkersOK
  <2>2. \A d \in claims[w] : d.entry = e => d = c
    BY <1>1 DEF Inv, Apart
  <2>3. e \notin Holding(w)'
    BY <1>1, <1>5, <2>1, <2>2 DEF Holding
  <2>4. \A v \in Workers : pc'[v] = "mark" => pc[v] = "mark"
    <3>1. after[w] # "mark"
      BY DEF TypeOK, WorkersOK
    <3> QED
      BY <1>5, <3>1 DEF Dispatched, Goto, TypeOK, WorkersOK
  <2> QED
    BY <1>5, <2>1, <2>3, <2>4
<1> HIDE DEF e
<1>6. CASE Complete(w, c)
  <2>1. /\ Dispatched(w, c) /\ XAck(e) /\ SetStatus(Job(e), "completed")
        /\ UNCHANGED <<inbox, next, stream, retry, attempt, result, enqueued, outages>>
    BY <1>4, <1>6 DEF Complete, ScriptDone, faultVars, e
  <2>2. \A j \in Jobs : j # Job(e) => status'[j] = status[j] /\ result'[j] = result[j]
    BY <2>1 DEF SetStatus, TypeOK, RecordsOK
  <2>3. result'[Job(e)].evidence \in {0, result'[Job(e)].attempt}
    BY <1>3, <2>1 DEF NoResult
  <2> QED
    BY <1>1, <1>5, <2>1, <2>2, <2>3, AckStep
<1>7. ASSUME NEW d \in Decisions, CommitResult(w, c, d)
      PROVE  Inv'
  <2>1. /\ Dispatched(w, c) /\ XAck(e) /\ SetStatus(Job(e), "completed")
        /\ UNCHANGED <<inbox, next, stream, retry, attempt, enqueued, outages>>
    BY <1>4, <1>7 DEF CommitResult, ScriptDone, faultVars, e
  <2>2. PICK ev \in {result[Job(e)].evidence, c.attempt} : result' =
          [result EXCEPT ![Job(e)] = [attempt |-> c.attempt, decision |-> d, evidence |-> ev]]
    BY <1>7 DEF CommitResult, e
  <2>3. \A j \in Jobs : j # Job(e) => status'[j] = status[j] /\ result'[j] = result[j]
    BY <2>1, <2>2 DEF SetStatus, TypeOK, RecordsOK
  <2>4. result'[Job(e)].evidence \in {0, result'[Job(e)].attempt}
    BY <1>2, <1>3, <2>2 DEF TypeOK, RecordsOK, NoResult
  <2> QED
    BY <1>1, <1>5, <2>1, <2>3, <2>4, AckStep
<1>8. CASE ScheduleRetry(w, c)
  <2>1. /\ Dispatched(w, c) /\ XAck(e) /\ SetStatus(Job(e), "retry_scheduled")
        /\ retry' = [retry EXCEPT ![stream[e]] = "waiting"]
        /\ UNCHANGED <<inbox, next, stream, attempt, result, enqueued, outages>>
    BY <1>4, <1>8 DEF ScheduleRetry, ScriptDone, faultVars, e
  <2>2. attempt[Job(e)] < MaxAttempts
    BY <1>3, <1>8 DEF ScheduleRetry, AttemptsLeft
  <2>3. /\ status'[Job(e)] = "retry_scheduled" /\ result'[Job(e)] = NoResult
        /\ \A j \in Jobs : j # Job(e) => status'[j] = status[j] /\ result'[j] = result[j]
    BY <1>2, <1>3, <2>1 DEF SetStatus, TypeOK, RecordsOK
  <2>4. result'[Job(e)].evidence \in {0, result'[Job(e)].attempt}
    BY <2>3 DEF NoResult
  <2> QED
    BY <1>1, <1>5, <2>1, <2>2, <2>3, <2>4, AckStep
<1>9. ASSUME NEW o \in {"transient", "permanent"}, FailJob(w, c, o)
      PROVE  Inv'
  <2>1. /\ Dispatched(w, c) /\ XAck(e) /\ SetStatus(Job(e), "failed")
        /\ UNCHANGED <<inbox, next, stream, retry, attempt, result, enqueued, outages>>
    BY <1>4, <1>9 DEF FailJob, ScriptDone, faultVars, e
  <2>2. \A j \in Jobs : j # Job(e) => status'[j] = status[j] /\ result'[j] = result[j]
    BY <2>1 DEF SetStatus, TypeOK, RecordsOK
  <2>3. result'[Job(e)].evidence \in {0, result'[Job(e)].attempt}
    BY <1>3, <2>1 DEF NoResult
  <2> QED
    BY <1>1, <1>5, <2>1, <2>2, <2>3, AckStep
<1>10. ~Fenced(w, c)
  BY <1>1 DEF Fenced
<1> QED
  BY <1>6, <1>7, <1>8, <1>9, <1>10 DEF Finalize

(***************************************************************************)
(* Every step.                                                             *)
(***************************************************************************)
LEMMA InvStep ==
  ASSUME TypeOK, TypeOK', MalformedNeverHandled, Calm, Calm', Inv, [Next]_vars
  PROVE  Inv'
<1>0. ~ReplyLost /\ slow' # slow + 1 /\ outages \in Nat /\ outages <= outages
  BY DEF ReplyLost, Calm, TypeOK
<1>1. ASSUME NEW p \in Payloads, Enqueue(p)
      PROVE  Inv'
  <2>1. /\ stream' = Append(stream, p) /\ enqueued' = [enqueued EXCEPT ![p] = @ + 1]
        /\ UNCHANGED <<group, expired, status, attempt, result, inbox, claims, next, outages>>
        /\ UNCHANGED <<retry, pc>>
    BY <1>1 DEF Enqueue, localVars, faultVars
  <2>2. /\ enqueued \in [Payloads -> Nat]
        /\ enqueued'[p] = enqueued[p] + 1
        /\ \A q \in Payloads : q # p => enqueued'[q] = enqueued[q]
    BY <2>1 DEF TypeOK, QueueOK
  <2>3. enqueued[p] = 0 /\ enqueued'[p] > 0 /\ \A q \in Payloads : enqueued[q] <= enqueued'[q]
    BY <2>2 DEF Calm
  <2>4. \A q \in Payloads : JobOf[q] = JobOf[p] => enqueued[q] = 0
    <3>1. \A q \in Payloads : enqueued[q] \in Nat /\ (enqueued[q] = 0 \/ enqueued'[q] > 0)
      BY <2>2
    <3> QED
      BY <2>3, <3>1 DEF Calm
  <2>5. \A e \in Nat : InQueue(e) => stream[e] # p
    BY <2>3, QueueTypes DEF Inv, Submitted
  <2>6. retry'[p] = "absent" /\ \A q \in Payloads : retry'[q] = retry[q]
    BY <2>1, <2>3 DEF Inv, Submitted
  <2>7. result[JobOf[p]] = NoResult /\ status[JobOf[p]] = "none" /\ attempt[JobOf[p]] = 0
    <3>1. JobOf[p] \in Jobs
      BY PayloadsAssumption
    <3> QED
      BY <2>4, <3>1 DEF Inv, Untouched
  <2>8. attempt[JobOf[p]] < MaxAttempts + outages /\ status[JobOf[p]] \in OpenStatuses(p)
    BY <1>0, <2>7, BoundsAssumption DEF OpenStatuses
  <2> QED
    BY <2>1, <2>3, <2>5, <2>6, <2>7, <2>8, AppendStep
<1>2. ASSUME NEW p \in Payloads, BackoffElapses(p)
      PROVE  Inv'
  <2>1. /\ UNCHANGED <<stream, group, status, attempt, result, enqueued, inbox, claims, next>>
        /\ UNCHANGED <<expired, pc, outages>>
        /\ \A q \in Payloads : retry'[q] # "absent" <=> retry[q] # "absent"
    BY <1>2 DEF BackoffElapses, localVars, faultVars, TypeOK, QueueOK
  <2> QED
    BY <1>0, <2>1, IdleStep
<1>3. ASSUME NEW e \in Entries, LeaseExpires(e)
      PROVE  Inv'
  <2>1. /\ UNCHANGED <<stream, group, status, attempt, result, enqueued, inbox, claims, next>>
        /\ UNCHANGED <<retry, pc, outages>>
        /\ e \notin Held /\ expired' = expired \union {e}
    BY <1>0, <1>3 DEF LeaseExpires, localVars
  <2>2. \A w \in Workers : \A f \in Holding(w) : f \in expired' => f \in expired
    BY <2>1 DEF Held
  <2> QED
    BY <1>0, <2>1, <2>2, IdleStep
<1>4. ASSUME NEW w \in Workers,
             SkipReclaim(w) \/ ListDue(w) \/ ClaimTimesOut(w) \/ Stop(w) \/ Restart(w)
      PROVE  Inv'
  <2>1. /\ UNCHANGED <<stream, group, status, attempt, result, enqueued, inbox, claims, next>>
        /\ UNCHANGED <<retry, expired>> /\ outages' \in {outages, outages + 1}
    BY <1>4 DEF SkipReclaim, ListDue, ClaimTimesOut, Stop, Restart, redisVars, faultVars
  <2>2. \A v \in Workers : pc'[v] = "mark" => pc[v] = "mark"
    BY <1>4 DEF SkipReclaim, ListDue, ClaimTimesOut, Stop, Restart, Goto, TypeOK, WorkersOK
  <2> QED
    BY <1>0, <2>1, <2>2, IdleStep
<1>5. ASSUME NEW w \in Workers, Reclaim(w)
      PROVE  Inv'
  <2>1. PICK batch \in SUBSET Pending :
          /\ batch \subseteq expired /\ expired' = expired \ batch
          /\ group' = [e \in DOMAIN group |-> IF e \in batch THEN w ELSE group[e]]
          /\ inbox' = [inbox EXCEPT ![w] = batch]
          /\ Goto(w, IF batch = {} THEN "promote" ELSE "register")
    BY <1>0, <1>5 DEF Reclaim, ReclaimSet
  <2>2. UNCHANGED <<stream, retry, status, attempt, result, enqueued, claims, next, outages>>
    BY <1>5 DEF Reclaim, faultVars
  <2>3. \A v \in Workers : pc'[v] = "mark" => v # w /\ pc[v] = "mark"
    BY <2>1 DEF Goto, TypeOK, WorkersOK
  <2> QED
    BY <2>1, <2>2, <2>3, ReclaimStep
<1>6. ASSUME NEW w \in Workers, ClaimOne(w)
      PROVE  Inv'
  <2>1. /\ Undelivered # {} /\ group' = Append(group, w)
        /\ inbox' = [inbox EXCEPT ![w] = {Len(group) + 1}] /\ Goto(w, "register")
        /\ UNCHANGED <<stream, expired, retry, status, attempt, result, enqueued>>
        /\ UNCHANGED <<claims, next, outages>>
    BY <1>0, <1>6 DEF ClaimOne, Deliver, faultVars
  <2>2. \A v \in Workers : pc'[v] = "mark" => v # w /\ pc[v] = "mark"
    BY <2>1 DEF Goto, TypeOK, WorkersOK
  <2> QED
    BY <2>1, <2>2, ClaimStep
<1>7. ASSUME NEW w \in Workers, NEW p \in Payloads, PromoteOne(w, p)
      PROVE  Inv'
  <2>1. /\ UNCHANGED <<group, expired, status, attempt, result, enqueued>>
        /\ UNCHANGED <<inbox, claims, next, outages>>
        /\ \A v \in Workers : pc'[v] = "mark" => pc[v] = "mark"
    BY <1>7 DEF PromoteOne, Goto, faultVars, TypeOK, WorkersOK
  <2>2. CASE retry[p] = "absent"
    <3>1. UNCHANGED <<retry, stream>>
      BY <1>7, <2>2 DEF PromoteOne, Promote
    <3> QED
      BY <1>0, <2>1, <3>1, IdleStep
  <2>3. CASE retry[p] # "absent"
    <3>1. stream' = Append(stream, p) /\ retry' = [retry EXCEPT ![p] = "absent"]
      BY <1>7, <2>3 DEF PromoteOne, Promote
    <3>2. retry'[p] = "absent" /\ \A q \in Payloads \ {p} : retry'[q] = retry[q]
      BY <3>1 DEF TypeOK, QueueOK
    <3>3. enqueued'[p] > 0 /\ \A q \in Payloads : enqueued[q] <= enqueued'[q]
      BY <2>1, <2>3 DEF Inv, Submitted, TypeOK, QueueOK
    <3>4. \A e \in Nat : InQueue(e) => stream[e] # p
      BY <2>3 DEF Inv, OnePlace
    <3>5. /\ result[JobOf[p]] = NoResult /\ status[JobOf[p]] \in OpenStatuses(p)
          /\ attempt[JobOf[p]] < MaxAttempts
      BY <2>3 DEF Inv, Waiting, OpenStatuses
    <3>6. attempt[JobOf[p]] < MaxAttempts + outages
      <4>1. attempt[JobOf[p]] \in Nat /\ MaxAttempts \in Nat
        BY PayloadsAssumption, BoundsAssumption DEF TypeOK, RecordsOK
      <4> QED
        BY <1>0, <3>5, <4>1
    <3> QED
      BY <2>1, <3>1, <3>2, <3>3, <3>4, <3>5, <3>6, AppendStep
  <2> QED
    BY <2>2, <2>3
<1>8. ASSUME NEW w \in Workers, MarkClaimed(w)
      PROVE  Inv'
  <2>1. lost' = lost
    BY <1>0, <1>8 DEF MarkClaimed, Answered
  <2> QED
    BY <1>8, <2>1, MarkStep
<1>9. ASSUME NEW w \in Workers, AckRejected(w)
      PROVE  Inv'
  <2>1. PICK e \in FirstDelivered(w) :
          /\ XAck(e) /\ inbox' = [inbox EXCEPT ![w] = @ \ {e}]
          /\ Goto(w, IF inbox[w] # {e} THEN "register"
                     ELSE IF claims[w] # {} THEN "process" ELSE after[w])
    BY <1>0, <1>9 DEF AckRejected
  <2>2. UNCHANGED <<stream, retry, status, attempt, result, next, claims, enqueued, outages>>
    BY <1>9 DEF AckRejected, faultVars
  <2>3. e \in Holding(w) /\ e \in inbox[w] /\ \A c \in claims[w] : c.entry # e
    BY DEF FirstDelivered, Holding, Inv, Apart
  <2>4. \A v \in Workers : inbox'[v] = IF v = w THEN inbox[w] \ {e} ELSE inbox[v]
    BY <2>1 DEF TypeOK, WorkersOK
  <2>5. e \notin Holding(w)'
    BY <2>2, <2>3, <2>4 DEF Holding
  <2>6. \A v \in Workers : pc'[v] = "mark" => pc[v] = "mark" /\ inbox'[v] = inbox[v]
    <3>1. after[w] # "mark"
      BY DEF TypeOK, WorkersOK
    <3> QED
      BY <2>1, <2>4, <3>1 DEF Goto, TypeOK, WorkersOK
  <2>7. result'[Job(e)].evidence \in {0, result'[Job(e)].attempt}
    <3>1. Job(e) \in Jobs
      BY <2>3, HeldInQueue, QueueTypes DEF Inv
    <3> QED
      BY <2>2, <3>1 DEF Inv, ResultOfOneAttempt
  <2> QED
    BY <2>1, <2>2, <2>3, <2>4, <2>5, <2>6, <2>7, AckStep
<1>10. ASSUME NEW w \in Workers, NEW c \in FirstClaimed(w), Finalize(w, c)
       PROVE  Inv'
  BY <1>10, FinalizeStep
<1>11. CASE UNCHANGED vars
  BY <1>0, <1>11, IdleStep DEF vars, redisVars, localVars, faultVars
<1> QED
  BY <1>1, <1>2, <1>3, <1>4, <1>5, <1>6, <1>7, <1>8, <1>9, <1>10, <1>11,
     ReadStep, RejectStep, CrashStep
  DEF Next, Run

---------------------------------------------------------------------------
(***************************************************************************)
(* Until the first slip the invariant holds.                               *)
(***************************************************************************)
THEOREM InvariantHolds == Spec => []IInv
<1>1. Init => IInv
  <2> SUFFICES ASSUME Init PROVE Inv
    BY DEF IInv
  <2>1. \A e \in Nat : ~InQueue(e)
    BY DEF Init, InQueue
  <2>2. /\ Submitted /\ OnePlace /\ Owned /\ Apart /\ Current /\ Untouched /\ Waiting /\ Open
    BY <2>1 DEF Init, Submitted, OnePlace, Owned, Apart, Current, Untouched, Waiting, Open, Holding,
      FirstDelivered
  <2>3. AttemptsAccountedFor /\ ResultOfOneAttempt
    BY BoundsAssumption DEF Init, AttemptsAccountedFor, ResultOfOneAttempt, NoResult
  <2> QED
    BY <2>2, <2>3 DEF Inv
<1>2. TypeOK /\ TypeOK' /\ MalformedNeverHandled /\ IInv /\ [Next]_vars => IInv'
  BY CalmBefore, InvStep DEF IInv
<1> QED
  BY <1>1, <1>2, TypeCorrect, MalformedRejected, PTL DEF Spec

(***************************************************************************)
(* Until the first slip, one worker at a time handles a job and the PEL    *)
(* names it.                                                               *)
(***************************************************************************)
THEOREM OneWorkerHasAJob == Spec => [](Calm => OneWorkerPerJob)
<1>1. TypeOK /\ IInv => (Calm => OneWorkerPerJob)
  BY OneWorker DEF IInv, Inv
<1> QED
  BY <1>1, TypeCorrect, InvariantHolds, PTL

(***************************************************************************)
(* Until the first slip, the optional fields of a result hash come from    *)
(* the attempt the hash names.                                             *)
(***************************************************************************)
THEOREM ResultsAreOfOneAttempt == Spec => [](Calm => ResultOfOneAttempt)
<1>1. IInv => (Calm => ResultOfOneAttempt)
  BY DEF IInv, Inv
<1> QED
  BY <1>1, InvariantHolds, PTL

(***************************************************************************)
(* Until the first slip, a job exceeds max_attempts at most by the number  *)
(* of crashes and stops.                                                   *)
(***************************************************************************)
THEOREM AttemptsAreOwedToCrashes == Spec => [](Calm => AttemptsAccountedFor)
<1>1. IInv => (Calm => AttemptsAccountedFor)
  BY DEF IInv, Inv
<1> QED
  BY <1>1, InvariantHolds, PTL

---------------------------------------------------------------------------
(***************************************************************************)
(* The queue implements JobLifecycle, step by step.                        *)
(***************************************************************************)
(* A job moves when its phase does and no other job's does.                *)
LEMMA PhaseMove ==
  ASSUME NEW i \in Jobs, NEW from, NEW to, Phase(i) \in from, Phase(i)' = to,
         \A j \in Jobs : j # i => Phase(j)' = Phase(j)
  PROVE  Lifecycle!Move(i, from, to)
BY DEF Lifecycle!Move

(* What leaves a job's record alone keeps its phase, its attempts, and     *)
(* what was published for it.                                              *)
LEMMA PhaseKept ==
  ASSUME NEW j \in Jobs, status'[j] = status[j], enqueued' = enqueued
  PROVE  Phase(j)' = Phase(j)
BY DEF Phase

(* What JobLifecycle is given, where a step leaves the state behind it alone. *)
LEMMA AttemptsKept ==
  ASSUME attempt' = attempt
  PROVE  [j \in Jobs |-> attempt[j]]' = [j \in Jobs |-> attempt[j]]
OBVIOUS

LEMMA PublishedKept ==
  ASSUME events' = events
  PROVE  [j \in Jobs |-> [k \in DOMAIN events[j] |-> events[j][k].decision]]'
           = [j \in Jobs |-> [k \in DOMAIN events[j] |-> events[j][k].decision]]
OBVIOUS

(* A step a caller does not see.                                           *)
LEMMA Stutter ==
  ASSUME status' = status, UNCHANGED <<attempt, events, enqueued>>
  PROVE  UNCHANGED Lifecycle!vars
BY PhaseKept, AttemptsKept, PublishedKept DEF Lifecycle!vars

\* A producer has XADDed the job.
Enqueued(j) == \E p \in Payloads : JobOf[p] = j /\ enqueued[p] > 0

\* Which phase each status of a job's hash stands for.
PhaseTold(j) ==
  /\ status[j] = "claimed" => Phase(j) = "running"
  /\ status[j] = "retry_scheduled" => Phase(j) = "waiting"
  /\ status[j] = "none" /\ Enqueued(j) => Phase(j) = "queued"
  /\ status[j] = "none" /\ ~Enqueued(j) => Phase(j) = "new"
  /\ status[j] = "completed" => Phase(j) = "completed"
  /\ status[j] = "failed" => Phase(j) = "failed"
  /\ status[j] = "rejected" => Phase(j) = "rejected"

(* The value of Phase in each case, in this state ...                      *)
LEMMA PhaseValues == \A j \in Jobs : PhaseTold(j)
<1> SUFFICES ASSUME NEW j \in Jobs PROVE PhaseTold(j)
  OBVIOUS
<1>1. status[j] = "claimed" => Phase(j) = "running"
  BY Zenon DEF Phase
<1>2. status[j] = "retry_scheduled" => Phase(j) = "waiting"
  BY Zenon DEF Phase
<1>3. status[j] = "none" /\ Enqueued(j) => Phase(j) = "queued"
  BY Zenon DEF Phase, Enqueued
<1>4. status[j] = "none" /\ ~Enqueued(j) => Phase(j) = "new"
  BY Zenon DEF Phase, Enqueued
<1>5. status[j] = "completed" => Phase(j) = "completed"
  BY Zenon DEF Phase
<1>6. status[j] = "failed" => Phase(j) = "failed"
  BY Zenon DEF Phase
<1>7. status[j] = "rejected" => Phase(j) = "rejected"
  BY Zenon DEF Phase
<1> QED
  BY <1>1, <1>2, <1>3, <1>4, <1>5, <1>6, <1>7 DEF PhaseTold

(* ... and in the next.                                                    *)
LEMMA PhaseValuesNext == \A j \in Jobs : PhaseTold(j)'
<1>1. (\A j \in Jobs : PhaseTold(j))'
  BY PhaseValues, PTL
<1> QED
  BY <1>1

(* A step that sets one job's status.                                      *)
LEMMA StatusMove ==
  ASSUME TypeOK, NEW i \in Jobs, NEW s \in Statuses, SetStatus(i, s), enqueued' = enqueued,
         NEW from, NEW to, Phase(i) \in from, Phase(i)' = to
  PROVE  Lifecycle!Move(i, from, to)
<1>1. \A j \in Jobs : j # i => status'[j] = status[j]
  BY DEF SetStatus, TypeOK, RecordsOK
<1> QED
  BY <1>1, PhaseKept, PhaseMove

(* An enqueue submits the job.                                             *)
LEMMA SubmitStep ==
  ASSUME TypeOK, TypeOK', Calm', Inv, NEW p \in Payloads, Enqueue(p)
  PROVE  Lifecycle!Next
<1> DEFINE i == JobOf[p]
<1>1. /\ i \in Jobs /\ enqueued \in [Payloads -> Nat] /\ enqueued' = [enqueued EXCEPT ![p] = @ + 1]
      /\ UNCHANGED <<status, attempt, events>>
  BY PayloadsAssumption DEF Enqueue, TypeOK, QueueOK
<1>2. /\ enqueued'[p] = enqueued[p] + 1 /\ enqueued[p] \in Nat
      /\ \A q \in Payloads : q # p => enqueued'[q] = enqueued[q]
  BY <1>1
<1>3. enqueued'[p] > 0 /\ enqueued[p] = 0
  BY <1>2 DEF Calm
<1>4. \A q \in Payloads : JobOf[q] = i => enqueued[q] = 0
  <2>1. ASSUME NEW q \in Payloads, JobOf[q] = i
        PROVE  enqueued[q] = 0
    <3>1. q # p => enqueued'[q] = 0
      <4>1. enqueued'[q] \in Nat
        BY DEF TypeOK, QueueOK
      <4> QED
        BY <1>3, <2>1, <4>1 DEF Calm
    <3> QED
      BY <1>2, <1>3, <3>1
  <2> QED
    BY <2>1
<1>5. Phase(i) = "new"
  <2>1. status[i] = "none" /\ ~Enqueued(i)
    BY <1>1, <1>4 DEF Inv, Untouched, Enqueued
  <2> QED
    BY <1>1, <2>1, PhaseValues DEF PhaseTold
<1>6. Phase(i)' = "queued"
  <2>1. status'[i] = "none" /\ Enqueued(i)'
    BY <1>1, <1>3, <1>4 DEF Inv, Untouched, Enqueued
  <2> QED
    BY <1>1, <2>1, PhaseValuesNext DEF PhaseTold
<1>7. ASSUME NEW j \in Jobs, j # i
      PROVE  Phase(j)' = Phase(j)
  <2>1. status'[j] = status[j]
    BY <1>1
  <2>2. (\E q \in Payloads : JobOf[q] = j /\ enqueued'[q] > 0)
          <=> (\E q \in Payloads : JobOf[q] = j /\ enqueued[q] > 0)
    BY <1>2, <1>7
  <2> QED
    BY <2>1, <2>2, Zenon DEF Phase
<1>8. Lifecycle!Move(i, {"new"}, "queued")
  BY <1>1, <1>5, <1>6, <1>7, PhaseMove
<1>9. Lifecycle!Submit(i)
  BY <1>1, <1>8, AttemptsKept, PublishedKept DEF Lifecycle!Submit
<1> QED
  BY <1>1, <1>9 DEF Lifecycle!Next

(* mark_claimed starts an attempt: the first, a retry, or the recovery of  *)
(* one whose worker is gone.                                               *)
LEMMA StartStep ==
  ASSUME TypeOK, TypeOK', Calm, Inv, MalformedNeverHandled, NEW w \in Workers, MarkClaimed(w)
  PROVE  Lifecycle!Next
<1>1. PICK e \in FirstDelivered(w) :
        SetStatus(Job(e), "claimed") /\ attempt' = [attempt EXCEPT ![Job(e)] = next[w]]
  BY DEF MarkClaimed
<1>2. /\ e \in Holding(w) /\ stream[e] \notin Malformed
      /\ next[w] = attempt[Job(e)] + 1
  BY DEF FirstDelivered, Holding, MarkClaimed, MalformedNeverHandled, Inv, Current
<1>3. /\ e \in Nat /\ InQueue(e) /\ Job(e) \in Jobs
      /\ stream[e] \in Payloads /\ e \in 1 .. Len(stream)
  BY <1>2, HeldInQueue, QueueTypes DEF Inv
<1>4. PICK i \in Jobs : i = Job(e)
  BY <1>3
<1>5. status[i] \in {"none", "claimed", "retry_scheduled"} /\ Enqueued(i)
  BY <1>2, <1>3, <1>4 DEF Inv, Open, OpenStatuses, Submitted, Enqueued, Job
<1>6. Phase(i) \in {"queued", "waiting", "running"}
  BY <1>5, PhaseValues DEF PhaseTold
<1>7. status'[i] = "claimed" /\ UNCHANGED <<enqueued, events>>
  BY <1>1, <1>4 DEF SetStatus, TypeOK, RecordsOK, MarkClaimed
<1>8. Phase(i)' = "running"
  BY <1>7, PhaseValuesNext DEF PhaseTold
<1>9. Lifecycle!Move(i, {"queued", "waiting", "running"}, "running")
  BY <1>1, <1>4, <1>6, <1>7, <1>8, StatusMove DEF Statuses
<1>10. [j \in Jobs |-> attempt[j]]' = [[j \in Jobs |-> attempt[j]] EXCEPT ![i] = @ + 1]
  BY <1>1, <1>2, <1>4 DEF TypeOK, RecordsOK
<1>11. Lifecycle!Start(i)
  BY <1>7, <1>9, <1>10, PublishedKept DEF Lifecycle!Start
<1> QED
  BY <1>11 DEF Lifecycle!Next

(* mark_rejected closes the job; repeated after a crash it changes nothing. *)
LEMMA RejectedStep ==
  ASSUME TypeOK, TypeOK', Calm, Inv, NEW w \in Workers, MarkRejected(w)
  PROVE  Lifecycle!Next \/ UNCHANGED Lifecycle!vars
<1>1. PICK e \in FirstDelivered(w) : stream[e] \in Malformed /\ SetStatus(Job(e), "rejected")
  BY DEF MarkRejected, WellFormed
<1>2. e \in Holding(w)
  BY DEF FirstDelivered, Holding
<1>3. /\ e \in Nat /\ InQueue(e) /\ Job(e) \in Jobs
      /\ stream[e] \in Payloads /\ e \in 1 .. Len(stream)
  BY <1>2, HeldInQueue, QueueTypes DEF Inv
<1>4. PICK i \in Jobs : i = Job(e)
  BY <1>3
<1>5. status[i] \in {"none", "rejected"} /\ Enqueued(i)
  BY <1>1, <1>3, <1>4 DEF Inv, Open, OpenStatuses, Submitted, Enqueued, Job
<1>6. status'[i] = "rejected" /\ UNCHANGED <<attempt, enqueued, events>>
  BY <1>1, <1>4 DEF SetStatus, TypeOK, RecordsOK, MarkRejected
<1>7. CASE status[i] = "none"
  <2>1. Phase(i) = "queued" /\ Phase(i)' = "rejected"
    BY <1>5, <1>6, <1>7, PhaseValues, PhaseValuesNext DEF PhaseTold
  <2>2. Lifecycle!Move(i, {"queued"}, "rejected")
    BY <1>1, <1>4, <1>6, <2>1, StatusMove DEF Statuses
  <2>3. Lifecycle!Close(i)
    BY <1>6, <2>2, AttemptsKept, PublishedKept DEF Lifecycle!Close
  <2> QED
    BY <2>3 DEF Lifecycle!Next
<1>8. CASE status[i] = "rejected"
  <2>1. status' = status
    BY <1>1, <1>4, <1>8 DEF SetStatus, TypeOK, RecordsOK
  <2> QED
    BY <1>6, <2>1, Stutter
<1> QED
  BY <1>5, <1>7, <1>8

(* A finalizing script publishes the job's result, closes it, or postpones *)
(* it while it has attempts left.                                          *)
LEMMA FinalizedStep ==
  ASSUME TypeOK, TypeOK', Calm, Inv, NEW w \in Workers, NEW c \in FirstClaimed(w), Finalize(w, c)
  PROVE  Lifecycle!Next
<1>1. /\ c \in claims[w] /\ c.entry \in Holding(w) /\ IsCurrent(c)
      /\ status[Job(c.entry)] = "claimed"
  BY FirstClaimedEntry DEF Holding, Inv, Current
<1>2. Job(c.entry) \in Jobs
  BY <1>1, HeldInQueue, QueueTypes DEF Inv
<1>3. PICK i \in Jobs : i = Job(c.entry)
  BY <1>2
<1>4. Phase(i) = "running"
  BY <1>1, <1>3, PhaseValues DEF PhaseTold
<1>5. ASSUME NEW s \in {"completed", "failed", "retry_scheduled"}, SetStatus(i, s)
      PROVE  status'[i] = s
  BY <1>5 DEF SetStatus, TypeOK, RecordsOK
<1>6. CASE Complete(w, c)
  <2>1. SetStatus(i, "completed") /\ UNCHANGED <<attempt, enqueued, events>>
    BY <1>3, <1>6 DEF Complete
  <2>2. Phase(i)' = "completed"
    BY <1>5, <2>1, PhaseValuesNext DEF PhaseTold
  <2>3. Lifecycle!Move(i, {"running"}, "completed")
    BY <1>4, <2>1, <2>2, StatusMove DEF Statuses
  <2> QED
    BY <2>1, <2>3, AttemptsKept, PublishedKept DEF Lifecycle!Close, Lifecycle!Next
<1>7. ASSUME NEW d \in Decisions, CommitResult(w, c, d)
      PROVE  Lifecycle!Next
  <2>1. /\ SetStatus(i, "completed") /\ UNCHANGED <<attempt, enqueued>>
        /\ events' = [events EXCEPT ![i] = Append(@, [attempt |-> c.attempt, decision |-> d])]
    BY <1>3, <1>7 DEF CommitResult, Emit
  <2>2. Phase(i)' = "completed"
    BY <1>5, <2>1, PhaseValuesNext DEF PhaseTold
  <2>3. Lifecycle!Move(i, {"running"}, "completed")
    BY <1>4, <2>1, <2>2, StatusMove DEF Statuses
  <2> DEFINE told(s) == [k \in DOMAIN s |-> s[k].decision]
  <2>4. events[i] \in Seq(Event) /\ [attempt |-> c.attempt, decision |-> d] \in Event
    BY FirstClaimedEntry DEF TypeOK, RecordsOK, Event
  <2>5. told(Append(events[i], [attempt |-> c.attempt, decision |-> d]))
          = Append(told(events[i]), d)
    BY <2>4
  <2>6. [j \in Jobs |-> told(events'[j])]
          = [[j \in Jobs |-> told(events[j])] EXCEPT ![i] = Append(@, d)]
    BY <2>1, <2>5 DEF TypeOK, RecordsOK
  <2>7. Lifecycle!Publish(i, d)
    BY <2>1, <2>3, <2>6, AttemptsKept DEF Lifecycle!Publish
  <2> QED
    BY <2>7 DEF Lifecycle!Next
<1>8. CASE ScheduleRetry(w, c)
  <2>1. /\ SetStatus(i, "retry_scheduled") /\ UNCHANGED <<attempt, enqueued, events>>
        /\ attempt[i] < MaxAttempts
    BY <1>1, <1>3, <1>8 DEF ScheduleRetry, AttemptsLeft, IsCurrent
  <2>2. Phase(i)' = "waiting"
    BY <1>5, <2>1, PhaseValuesNext DEF PhaseTold
  <2>3. Lifecycle!Move(i, {"running"}, "waiting")
    BY <1>4, <2>1, <2>2, StatusMove DEF Statuses
  <2> QED
    BY <2>1, <2>3, AttemptsKept, PublishedKept DEF Lifecycle!Postpone, Lifecycle!Next
<1>9. ASSUME NEW o \in {"transient", "permanent"}, FailJob(w, c, o)
      PROVE  Lifecycle!Next
  <2>1. SetStatus(i, "failed") /\ UNCHANGED <<attempt, enqueued, events>>
    BY <1>3, <1>9 DEF FailJob
  <2>2. Phase(i)' = "failed"
    BY <1>5, <2>1, PhaseValuesNext DEF PhaseTold
  <2>3. Lifecycle!Move(i, {"running"}, "failed")
    BY <1>4, <2>1, <2>2, StatusMove DEF Statuses
  <2> QED
    BY <2>1, <2>3, AttemptsKept, PublishedKept DEF Lifecycle!Close, Lifecycle!Next
<1>10. ~Fenced(w, c)
  BY <1>1 DEF Fenced
<1> QED
  BY <1>6, <1>7, <1>8, <1>9, <1>10 DEF Finalize

(* Every other step is one a caller does not see.                          *)
LEMMA LifecycleStep ==
  ASSUME TypeOK, TypeOK', MalformedNeverHandled, Calm, Calm', Inv, [Next]_vars
  PROVE  [Lifecycle!Next]_(Lifecycle!vars)
<1>1. ASSUME \/ UNCHANGED vars
             \/ \E p \in Payloads : BackoffElapses(p)
             \/ \E e \in Entries : LeaseExpires(e)
      PROVE  UNCHANGED Lifecycle!vars
  BY <1>1, Stutter DEF vars, redisVars, BackoffElapses, LeaseExpires
<1>2. ASSUME NEW w \in Workers,
             \/ SkipReclaim(w) \/ Reclaim(w) \/ ListDue(w) \/ ClaimOne(w) \/ ClaimTimesOut(w)
             \/ ReadAttempt(w) \/ AckRejected(w) \/ Crash(w) \/ Stop(w) \/ Restart(w)
             \/ \E p \in Payloads : PromoteOne(w, p)
      PROVE  UNCHANGED Lifecycle!vars
  <2>1. status' = status /\ UNCHANGED <<attempt, events, enqueued>>
    BY <1>2 DEF SkipReclaim, Reclaim, ListDue, ClaimOne, ClaimTimesOut, ReadAttempt, AckRejected,
      Crash, Stop, Restart, PromoteOne, redisVars
  <2> QED
    BY <2>1, Stutter
<1> QED
  BY <1>1, <1>2, SubmitStep, StartStep, RejectedStep, FinalizedStep DEF Next, Run

---------------------------------------------------------------------------
(***************************************************************************)
(* Results and match index.                                                *)
(***************************************************************************)
\* A job is announced at most once.
OneEvent == \A j \in Jobs : Len(events[j]) <= 1

(* Results, events and match index change in one script only.              *)
LEMMA OnlyCommitPublishes ==
  ASSUME [Next]_vars
  PROVE  \/ UNCHANGED <<result, events, matchIndex>>
         \/ \E w \in Workers, d \in Decisions : \E c \in FirstClaimed(w) : CommitResult(w, c, d)
<1>1. ASSUME NEW w \in Workers,
             \/ SkipReclaim(w) \/ Reclaim(w) \/ ListDue(w) \/ ClaimOne(w) \/ ClaimTimesOut(w)
             \/ ReadAttempt(w) \/ MarkClaimed(w) \/ MarkRejected(w) \/ AckRejected(w)
             \/ Crash(w) \/ Stop(w) \/ Restart(w)
             \/ \E p \in Payloads : PromoteOne(w, p)
      PROVE  UNCHANGED <<result, events, matchIndex>>
  BY <1>1 DEF SkipReclaim, Reclaim, ListDue, ClaimOne, ClaimTimesOut, ReadAttempt, MarkClaimed,
    MarkRejected, AckRejected, Crash, Stop, Restart, PromoteOne, redisVars
<1>2. ASSUME NEW w \in Workers, NEW c \in FirstClaimed(w), Finalize(w, c)
      PROVE  \/ UNCHANGED <<result, events, matchIndex>>
             \/ \E d \in Decisions : CommitResult(w, c, d)
  BY <1>2 DEF Finalize, Complete, ScheduleRetry, FailJob, Fenced, redisVars
<1>3. ASSUME \/ UNCHANGED vars
             \/ \E p \in Payloads : Enqueue(p) \/ BackoffElapses(p)
             \/ \E e \in Entries : LeaseExpires(e)
      PROVE  UNCHANGED <<result, events, matchIndex>>
  BY <1>3 DEF vars, redisVars, Enqueue, BackoffElapses, LeaseExpires
<1> QED
  BY <1>1, <1>2, <1>3 DEF Next, Run

(* ... which finds no earlier result.                                      *)
LEMMA ExactStep ==
  ASSUME TypeOK, Calm, Inv, ResultIsAnnounced, OneEvent, MatchIndexExact, [Next]_vars
  PROVE  OneEvent' /\ MatchIndexExact'
<1>1. CASE UNCHANGED <<result, events, matchIndex>>
  BY <1>1 DEF OneEvent, MatchIndexExact
<1>2. ASSUME NEW w \in Workers, NEW d \in Decisions, NEW c \in FirstClaimed(w),
             CommitResult(w, c, d)
      PROVE  OneEvent' /\ MatchIndexExact'
  <2>1. c.entry \in Holding(w)
    BY FirstClaimedEntry DEF Holding
  <2>2. c.entry \in Nat /\ InQueue(c.entry) /\ Job(c.entry) \in Jobs
    BY <2>1, HeldInQueue, QueueTypes DEF Inv
  <2>3. PICK i \in Jobs : i = Job(c.entry)
    BY <2>2
  <2>4. result[i].decision = "none"
    BY <2>2, <2>3 DEF Inv, Open, NoResult
  <2>5. events[i] = <<>> /\ i \notin matchIndex
    BY <2>4 DEF ResultIsAnnounced, MatchIndexExact
  <2>6. \A j \in Jobs : j # i => events'[j] = events[j] /\ result'[j] = result[j]
    BY <1>2, <2>3 DEF CommitResult, Emit, TypeOK, RecordsOK
  <2>7. /\ events'[i] = Append(<<>>, [attempt |-> c.attempt, decision |-> d])
        /\ result'[i].decision = d
    BY <1>2, <2>3, <2>5 DEF CommitResult, Emit, TypeOK, RecordsOK
  <2>8. matchIndex' = IF d = "match" THEN matchIndex \union {i} ELSE matchIndex
    BY <1>2, <2>3 DEF CommitResult, Index
  <2>9. Len(events'[i]) <= 1
    BY <2>7
  <2> QED
    BY <2>5, <2>6, <2>7, <2>8, <2>9 DEF OneEvent, MatchIndexExact
<1> QED
  BY <1>1, <1>2, OnlyCommitPublishes

(***************************************************************************)
(* Until the first slip, a job publishes at most one event, so two events  *)
(* of one attempt are one, and the match index lists a job exactly when    *)
(* its result is a match.                                                  *)
(***************************************************************************)
THEOREM ResultsAreExact == Spec => [](Calm => EventIdentity /\ MatchIndexExact)
<1>1. Init => OneEvent /\ MatchIndexExact
  BY DEF Init, OneEvent, MatchIndexExact, NoResult
<1>2. /\ TypeOK /\ IInv /\ ResultIsAnnounced /\ [Next]_vars
      /\ (Calm => OneEvent /\ MatchIndexExact)
      => (Calm => OneEvent /\ MatchIndexExact)'
  BY CalmBefore, ExactStep DEF IInv
<1>3. TypeOK /\ OneEvent => EventIdentity
  <2> SUFFICES ASSUME TypeOK, OneEvent, NEW j \in Jobs,
                      NEW k \in DOMAIN events[j], NEW l \in DOMAIN events[j]
               PROVE  k = l
    BY DEF EventIdentity
  <2>1. DOMAIN events[j] = 1 .. Len(events[j]) /\ Len(events[j]) \in Nat
    BY DEF TypeOK, RecordsOK
  <2> QED
    BY <2>1 DEF OneEvent
<1> QED
  BY <1>1, <1>2, <1>3, TypeCorrect, InvariantHolds, ResultsAreAnnounced, PTL DEF Spec

---------------------------------------------------------------------------
\* What StaleNeverAcks says of a step.
OwnerLetsGo ==
  \A e \in Pending : group'[e] = NoWorker => \/ claims[group[e]] # claims'[group[e]]
                                             \/ inbox[group[e]] # inbox'[group[e]]

(* An XACK of an entry in the memory of a worker that drops something.     *)
LEMMA LettingGo ==
  ASSUME TypeOK, Inv, NEW w \in Workers, NEW a \in Holding(w), XAck(a),
         claims'[w] # claims[w] \/ inbox'[w] # inbox[w]
  PROVE  OwnerLetsGo
<1>1. a \in 1 .. Len(group) /\ group[a] = w
  BY HeldInQueue DEF Inv
<1>2. \A e \in Pending : group'[e] = NoWorker => e = a
  BY DEF XAck, Pending, TypeOK, QueueOK
<1> QED
  BY <1>1, <1>2 DEF OwnerLetsGo

(* Every XACK is such a one.                                               *)
LEMMA PelStep ==
  ASSUME TypeOK, Calm, Calm', Inv, [Next]_vars
  PROVE  OwnerLetsGo
<1>0. ~ReplyLost
  BY DEF ReplyLost, Calm
<1>1. ASSUME NEW w \in Workers, AckRejected(w)
      PROVE  OwnerLetsGo
  <2>1. PICK e \in FirstDelivered(w) : XAck(e) /\ inbox' = [inbox EXCEPT ![w] = @ \ {e}]
    BY <1>0, <1>1 DEF AckRejected
  <2>2. e \in Holding(w) /\ e \in inbox[w] /\ inbox'[w] = inbox[w] \ {e}
    BY <2>1 DEF FirstDelivered, Holding, TypeOK, WorkersOK
  <2>3. inbox'[w] # inbox[w]
    BY <2>2
  <2> QED
    BY <2>1, <2>2, <2>3, LettingGo
<1>2. ASSUME NEW w \in Workers, NEW c \in FirstClaimed(w), Finalize(w, c)
      PROVE  OwnerLetsGo
  <2>1. c \in claims[w] /\ c.entry \in Holding(w) /\ ~Fenced(w, c)
    BY FirstClaimedEntry DEF Holding, Inv, Current, Fenced
  <2>2. XAck(c.entry) /\ Dispatched(w, c)
    BY <1>0, <1>2, <2>1 DEF Finalize, Complete, CommitResult, ScheduleRetry, FailJob, ScriptDone
  <2>3. claims'[w] # claims[w]
    BY <2>1, <2>2 DEF Dispatched, TypeOK, WorkersOK
  <2> QED
    BY <2>1, <2>2, <2>3, LettingGo
<1>3. ASSUME NEW w \in Workers, Reclaim(w) \/ ClaimOne(w)
      PROVE  \A e \in Pending : group'[e] # NoWorker
  <2>1. group \in Seq(Workers \union {NoWorker})
    BY DEF TypeOK, QueueOK
  <2>2. CASE Reclaim(w)
    BY <2>1, <2>2, WorkersAssumption DEF Reclaim, Pending
  <2>3. CASE ClaimOne(w)
    BY <2>1, <2>3 DEF ClaimOne, Deliver, Pending
  <2> QED
    BY <1>3, <2>2, <2>3
<1>4. ASSUME NEW w \in Workers,
             \/ SkipReclaim(w) \/ ListDue(w) \/ ClaimTimesOut(w)
             \/ ReadAttempt(w) \/ MarkClaimed(w) \/ MarkRejected(w)
             \/ Crash(w) \/ Stop(w) \/ Restart(w)
             \/ \E p \in Payloads : PromoteOne(w, p)
      PROVE  group' = group
  BY <1>4 DEF SkipReclaim, ListDue, ClaimTimesOut, ReadAttempt, MarkClaimed, MarkRejected, Crash,
    Stop, Restart, PromoteOne, redisVars
<1>5. ASSUME \/ UNCHANGED vars
             \/ \E p \in Payloads : Enqueue(p) \/ BackoffElapses(p)
             \/ \E e \in Entries : LeaseExpires(e)
      PROVE  group' = group
  BY <1>5 DEF vars, redisVars, Enqueue, BackoffElapses, LeaseExpires
<1>6. (group' = group \/ \A e \in Pending : group'[e] # NoWorker) => OwnerLetsGo
  BY DEF OwnerLetsGo, Pending
<1> QED
  BY <1>1, <1>2, <1>3, <1>4, <1>5, <1>6 DEF Next, Run

(***************************************************************************)
(* Until the first slip, an entry leaves the PEL of its owner only by a    *)
(* step of that owner, which lets go of it: what StaleNeverAcks demands,   *)
(* and what fails once a lease expires under a running handler.            *)
(***************************************************************************)
THEOREM OnlyOwnersAck == Spec => [][Calm' => OwnerLetsGo]_vars
<1>1. TypeOK /\ IInv /\ [Next]_vars => [Calm' => OwnerLetsGo]_vars
  BY CalmBefore, PelStep DEF IInv
<1> QED
  BY <1>1, TypeCorrect, InvariantHolds, PTL DEF Spec

---------------------------------------------------------------------------
(***************************************************************************)
(* Until the first slip, every step of the queue is a step of JobLifecycle *)
(* or leaves what a caller sees alone.                                     *)
(***************************************************************************)
THEOREM StepsFollowTheLifecycle ==
  Spec => [][Calm' => [Lifecycle!Next]_(Lifecycle!vars)]_vars
<1>1. TypeOK /\ TypeOK' /\ MalformedNeverHandled /\ IInv /\ [Next]_vars
        => [Calm' => [Lifecycle!Next]_(Lifecycle!vars)]_vars
  BY CalmBefore, LifecycleStep DEF IInv
<1> QED
  BY <1>1, TypeCorrect, MalformedRejected, InvariantHolds, PTL DEF Spec

\* What TerminalIsFinal says of a step.
OutcomesStay == \A j \in Jobs : status[j] \in Terminal => status'[j] = status[j]

(* The lifecycle has no way out of an outcome.                             *)
LEMMA OutcomeStep ==
  ASSUME TypeOK', [Lifecycle!Next]_(Lifecycle!vars)
  PROVE  OutcomesStay
<1> DEFINE Ends == {"completed", "failed", "rejected"}
<1>1. ASSUME NEW j \in Jobs, Phase(j) \in Ends
      PROVE  Phase(j)' = Phase(j)
  <2>1. CASE UNCHANGED Lifecycle!vars
    BY <2>1 DEF Lifecycle!vars
  <2>2. ASSUME NEW i \in Jobs, NEW from, NEW to,
               from \subseteq {"new", "queued", "running", "waiting"},
               Lifecycle!Move(i, from, to)
        PROVE  Phase(j)' = Phase(j)
    BY <1>1, <2>2 DEF Lifecycle!Move
  <2>3. CASE Lifecycle!Next
    BY <2>2, <2>3 DEF Lifecycle!Next, Lifecycle!Submit, Lifecycle!Start, Lifecycle!Postpone,
      Lifecycle!Publish, Lifecycle!Close
  <2> QED
    BY <2>1, <2>3
<1>2. ASSUME NEW j \in Jobs, status[j] \in Terminal
      PROVE  status'[j] = status[j]
  <2>1. Phase(j) = status[j] /\ Phase(j) \in Ends
    BY <1>2, PhaseValues DEF Terminal, PhaseTold
  <2>2. Phase(j)' = status[j] /\ status'[j] \in Statuses
    BY <1>1, <2>1 DEF TypeOK, RecordsOK
  <2>3. Phase(j)' \in {"running", "waiting", "queued", "new"} \/ Phase(j)' = status'[j]
    BY <2>2, PhaseValuesNext DEF PhaseTold, Statuses
  <2> QED
    BY <2>1, <2>2, <2>3
<1> QED
  BY <1>2 DEF OutcomesStay

(***************************************************************************)
(* Until the first slip, an outcome a caller may stop polling on never     *)
(* changes again.                                                          *)
(***************************************************************************)
THEOREM OutcomesAreFinal == Spec => [][Calm' => OutcomesStay]_vars
<1>1. TypeOK /\ TypeOK' /\ MalformedNeverHandled /\ IInv /\ [Next]_vars
        => [Calm' => OutcomesStay]_vars
  BY CalmBefore, LifecycleStep, OutcomeStep DEF IInv
<1> QED
  BY <1>1, TypeCorrect, MalformedRejected, InvariantHolds, PTL DEF Spec

(***************************************************************************)
(* A deployment in which no slip can happen: no handler outlives its       *)
(* lease, no reply is lost, and every job is enqueued once, as one payload.*)
(***************************************************************************)
Orderly ==
  /\ MaxSlow = 0 /\ MaxLostReplies = 0 /\ MaxCopies <= 1
  /\ \A p, q \in Payloads : JobOf[p] = JobOf[q] => p = q

(* ... so none does.                                                       *)
LEMMA OrderlyStaysCalm ==
  ASSUME Orderly, TypeOK, Calm, [Next]_vars
  PROVE  Calm'
<1>1. slow' = 0 /\ lost' = 0
  BY SlipsAreKept DEF Calm, Orderly
<1>2. ASSUME NEW p \in Payloads
      PROVE  enqueued'[p] <= 1
  <2>1. enqueued \in [Payloads -> Nat] /\ MaxCopies \in Nat
    BY BoundsAssumption DEF TypeOK, QueueOK
  <2>2. CASE enqueued' = enqueued
    BY <2>2 DEF Calm
  <2>3. ASSUME NEW q \in Payloads, enqueued[q] < MaxCopies,
               enqueued' = [enqueued EXCEPT ![q] = @ + 1]
        PROVE  enqueued'[p] <= 1
    <3>1. CASE p = q
      BY <2>1, <2>3, <3>1 DEF Orderly
    <3>2. CASE p # q
      BY <2>1, <2>3, <3>2 DEF Calm
    <3> QED
      BY <3>1, <3>2
  <2> QED
    BY <2>2, <2>3, SlipsAreKept
<1> QED
  BY <1>1, <1>2 DEF Calm, Orderly

(***************************************************************************)
(* In such a deployment the queue implements JobLifecycle: whatever        *)
(* crashes, stops and restarts come between, a caller sees each job run    *)
(* its attempts one after the other, end in one outcome, and have that     *)
(* outcome announced once.                                                 *)
(***************************************************************************)
THEOREM LifecycleIsImplemented ==
  ASSUME Orderly
  PROVE  Spec => ImplementsLifecycle
<1>1. Init => Calm /\ Lifecycle!Init
  <2>1. ASSUME Init PROVE Calm
    BY <2>1 DEF Init, Calm
  <2>2. ASSUME Init PROVE Lifecycle!Init
    <3>1. \A j \in Jobs : Phase(j) = "new"
      <4>1. \A j \in Jobs : status[j] = "none" /\ ~Enqueued(j)
        BY <2>2 DEF Init, Enqueued
      <4> QED
        BY <4>1, PhaseValues DEF PhaseTold
    <3>2. \A j \in Jobs : /\ attempt[j] = 0
                          /\ [k \in DOMAIN events[j] |-> events[j][k].decision] = <<>>
      BY <2>2 DEF Init
    <3> QED
      BY <3>1, <3>2 DEF Lifecycle!Init
  <2> QED
    BY <2>1, <2>2
<1>2. TypeOK /\ Calm /\ [Next]_vars => Calm'
  BY OrderlyStaysCalm
<1>3. TypeOK /\ TypeOK' /\ MalformedNeverHandled /\ IInv /\ Calm /\ Calm' /\ [Next]_vars
        => [Lifecycle!Next]_(Lifecycle!vars)
  BY LifecycleStep DEF IInv
<1> QED
  BY <1>1, <1>2, <1>3, TypeCorrect, MalformedRejected, InvariantHolds, PTL
  DEF Spec, ImplementsLifecycle, Lifecycle!Spec
=============================================================================
