----------------------- MODULE FingerprintWorkerProofs -----------------------
(***************************************************************************)
(* Theorems about FingerprintWorker, for every number of workers, jobs,    *)
(* payloads, copies, crashes, expired leases and lost replies.             *)
(***************************************************************************)
EXTENDS FingerprintWorker, TLAPS

(***************************************************************************)
(* What a worker can learn about an entry it was delivered or has claimed. *)
(***************************************************************************)
LEMMA DeliveredEntry ==
  ASSUME TypeOK, NEW e \in 1 .. Len(group)
  PROVE  stream[e] \in Payloads /\ Job(e) \in Jobs
BY PayloadsAssumption DEF TypeOK, QueueOK, Job

(* The entry and the claim the loop is at are what the types say.          *)
LEMMA FirstDeliveredEntry ==
  ASSUME TypeOK, NEW w \in Workers, NEW e \in FirstDelivered(w)
  PROVE  e \in inbox[w] /\ e \in 1 .. Len(group) /\ e \in Nat \ {0}
BY DEF TypeOK, QueueOK, WorkersOK, FirstDelivered

LEMMA FirstClaimedEntry ==
  ASSUME TypeOK, NEW w \in Workers, NEW c \in FirstClaimed(w)
  PROVE  /\ c \in claims[w] /\ c \in Claim
         /\ c.entry \in 1 .. Len(group)
         /\ c.attempt \in Nat
BY DEF TypeOK, QueueOK, WorkersOK, FirstClaimed, Claim

(***************************************************************************)
(* XACK takes an entry out of the PEL and touches no other entry.          *)
(***************************************************************************)
LEMMA XAckQueue ==
  ASSUME QueueOK, NEW e \in 1 .. Len(group), XAck(e), stream' = stream,
         retry' \in [Payloads -> {"absent", "waiting", "due"}], enqueued' = enqueued
  PROVE  QueueOK' /\ Len(group') = Len(group)
<1>1. group' \in Seq(Workers \union {NoWorker}) /\ Len(group') = Len(group)
  BY DEF QueueOK, XAck
<1>2. Pending' = Pending \ {e}
  BY <1>1 DEF QueueOK, XAck, Pending
<1>3. expired' \subseteq Pending'
  BY <1>2 DEF QueueOK, XAck
<1> QED
  BY <1>1, <1>3 DEF QueueOK

(* What a write of the status, a jump and a finished script leave typed.   *)
LEMMA SetStatusRecords ==
  ASSUME RecordsOK, NEW j \in Jobs, NEW s \in Statuses, SetStatus(j, s)
  PROVE  status' \in [Jobs -> Statuses]
BY DEF RecordsOK, SetStatus

LEMMA GotoType ==
  ASSUME pc \in [Workers -> PCs], NEW w \in Workers, NEW l \in PCs, Goto(w, l)
  PROVE  pc' \in [Workers -> PCs] /\ pc'[w] = l /\ \A v \in Workers \ {w} : pc'[v] = pc[v]
BY DEF Goto

(***************************************************************************)
(* Dropping a claim, and the end of a finalizing script, keep the worker's *)
(* memory well typed.                                                      *)
(***************************************************************************)
LEMMA DispatchedWorkers ==
  ASSUME TypeOK, NEW w \in Workers, NEW c \in FirstClaimed(w), Dispatched(w, c),
         Len(group') = Len(group), UNCHANGED <<after, inbox, next, due>>
  PROVE  WorkersOK'
<1>1. claims' \in [Workers -> SUBSET Claim] /\ \A v \in Workers : claims'[v] \subseteq claims[v]
  BY DEF TypeOK, WorkersOK, Dispatched
<1>2. pc' \in [Workers -> PCs] /\ \A v \in Workers : pc'[v] = "mark" => pc[v] = "mark"
  <2>1. after[w] \in PCs \ {"mark"}
    BY DEF TypeOK, WorkersOK, PCs
  <2> QED
    BY <2>1 DEF TypeOK, WorkersOK, Dispatched, Goto, PCs
<1>3. sent' \in [Workers -> Outcomes \union {"none"}]
  BY DEF TypeOK, WorkersOK, Dispatched
<1>4. \A v \in Workers : \A d \in claims'[v] : d.entry <= Len(group')
  BY <1>1 DEF TypeOK, WorkersOK
<1> QED
  BY <1>1, <1>2, <1>3, <1>4 DEF TypeOK, WorkersOK

(* A finalizing script touches its own worker only.                        *)
LEMMA ScriptDoneWorkers ==
  ASSUME TypeOK, NEW w \in Workers, NEW c \in FirstClaimed(w),
         NEW o \in Outcomes \union {"none"}, ScriptDone(w, c, o), Len(group') = Len(group)
  PROVE  WorkersOK' /\ lost' \in Nat
<1>1. CASE Answered /\ Dispatched(w, c)
  BY <1>1, DispatchedWorkers DEF ScriptDone, Answered, TypeOK
<1>2. CASE ReplyLost /\ sent' = [sent EXCEPT ![w] = o] /\ Goto(w, "resend") /\ UNCHANGED claims
  <2>1. lost' \in Nat
    BY <1>2 DEF ReplyLost, TypeOK
  <2>2. sent' \in [Workers -> Outcomes \union {"none"}]
    BY <1>2 DEF TypeOK, WorkersOK
  <2>3. pc' \in [Workers -> PCs] /\ \A v \in Workers : pc'[v] = "mark" => pc[v] = "mark"
    BY <1>2 DEF TypeOK, WorkersOK, Goto, PCs
  <2> QED
    BY <1>2, <2>1, <2>2, <2>3 DEF ScriptDone, TypeOK, WorkersOK
<1> QED
  BY <1>1, <1>2 DEF ScriptDone

(* The outcome a script is sent for is one the handler can have. *)
LEMMA FinalizingOutcome ==
  ASSUME TypeOK, NEW w \in Workers, NEW o, Finalizing(w, o)
  PROVE  o \in Outcomes \union {"none"}
BY DEF TypeOK, WorkersOK, Finalizing

(***************************************************************************)
(* Redis state, worker memory and history variables keep their types.      *)
(***************************************************************************)
THEOREM TypeCorrect == Spec => []TypeOK
<1>1. Init => TypeOK
  BY PayloadsAssumption
  DEF Init, TypeOK, QueueOK, RecordsOK, WorkersOK, Pending, Statuses, PCs, NoResult, Result,
  Decisions
<1>2. TypeOK /\ [Next]_vars => TypeOK'
  <2> SUFFICES ASSUME TypeOK, [Next]_vars
               PROVE  TypeOK'
    OBVIOUS
  <2>1. ASSUME NEW p \in Payloads, Enqueue(p)
        PROVE  TypeOK'
    <3>1. Pending' = Pending /\ Len(stream') = Len(stream) + 1
      BY <2>1 DEF Enqueue, Pending, TypeOK, QueueOK
    <3>2. QueueOK'
      BY <2>1, <3>1 DEF Enqueue, TypeOK, QueueOK
    <3> QED
      BY <2>1, <3>2 DEF Enqueue, TypeOK, RecordsOK, WorkersOK, localVars, faultVars
  <2>2. ASSUME NEW p \in Payloads, BackoffElapses(p)
        PROVE  TypeOK'
    <3>1. retry' \in [Payloads -> {"absent", "waiting", "due"}]
      BY <2>2 DEF BackoffElapses, TypeOK, QueueOK
    <3>2. QueueOK'
      <4>1. UNCHANGED <<stream, group, expired, enqueued>> /\ Pending' = Pending
        BY <2>2 DEF BackoffElapses, Pending
      <4> QED
        BY <3>1, <4>1 DEF TypeOK, QueueOK
    <3> QED
      BY <2>2, <3>2 DEF BackoffElapses, TypeOK, RecordsOK, WorkersOK, localVars, faultVars
  <2>3. ASSUME NEW e \in Entries, LeaseExpires(e)
        PROVE  TypeOK'
    <3>1. expired' \subseteq Pending
      BY <2>3 DEF LeaseExpires, TypeOK, QueueOK
    <3>2. QueueOK'
      <4>1. UNCHANGED <<stream, group, retry, enqueued>> /\ Pending' = Pending
        BY <2>3 DEF LeaseExpires, Pending
      <4> QED
        BY <3>1, <4>1 DEF TypeOK, QueueOK
    <3> QED
      BY <2>3, <3>2 DEF LeaseExpires, TypeOK, RecordsOK, WorkersOK, localVars
  <2>4. ASSUME NEW w \in Workers, SkipReclaim(w)
        PROVE  TypeOK'
    <3>1. WorkersOK'
      BY <2>4 DEF SkipReclaim, TypeOK, WorkersOK, Goto, redisVars, PCs
    <3> QED
      BY <2>4, <3>1 DEF SkipReclaim, TypeOK, QueueOK, RecordsOK, Pending, redisVars, faultVars
  <2>5. ASSUME NEW w \in Workers, Reclaim(w)
        PROVE  TypeOK'
    <3>1. PICK batch \in SUBSET Pending :
                 /\ ReclaimSet(batch)
                 /\ group' = [e \in DOMAIN group |-> IF e \in batch THEN w ELSE group[e]]
                 /\ expired' = expired \ batch
                 /\ \/ /\ Answered
                       /\ inbox' = [inbox EXCEPT ![w] = batch]
                       /\ after' = [after EXCEPT ![w] = "promote"]
                       /\ Goto(w, IF batch = {} THEN "promote" ELSE "register")
                    \/ ReplyLost /\ batch # {} /\ UNCHANGED <<inbox, after, pc>>
      BY <2>5 DEF Reclaim
    <3>2. group' \in Seq(Workers \union {NoWorker}) /\ Len(group') = Len(group)
      <4>1. group \in Seq(Workers \union {NoWorker})
        BY DEF TypeOK, QueueOK
      <4> QED
        BY <3>1, <4>1
    <3>3. Pending' = Pending
      BY <3>1, <3>2, WorkersAssumption DEF TypeOK, QueueOK, Pending
    <3>4. QueueOK'
      BY <2>5, <3>1, <3>2, <3>3 DEF Reclaim, TypeOK, QueueOK
    <3>5. batch \subseteq 1 .. Len(group)
      BY DEF Pending
    <3>6. WorkersOK'
      BY <2>5, <3>1, <3>2, <3>5 DEF Reclaim, TypeOK, WorkersOK, Goto, PCs
    <3>7. lost' \in Nat
      BY <3>1 DEF TypeOK, Answered, ReplyLost
    <3> QED
      BY <2>5, <3>4, <3>6, <3>7 DEF Reclaim, TypeOK, RecordsOK, faultVars
  <2>6. ASSUME NEW w \in Workers, ListDue(w)
        PROVE  TypeOK'
    <3>1. WorkersOK'
      BY <2>6 DEF ListDue, DueMembers, TypeOK, WorkersOK, Goto, redisVars, PCs
    <3> QED
      BY <2>6, <3>1 DEF ListDue, DueMembers, TypeOK, QueueOK, RecordsOK, Pending, redisVars,
         faultVars
  <2>7. ASSUME NEW w \in Workers, NEW p \in Payloads, PromoteOne(w, p)
        PROVE  TypeOK'
    <3>0. stream' = stream \/ stream' = Append(stream, p)
      BY <2>7 DEF PromoteOne, Promote
    <3>1. /\ stream' \in Seq(Payloads) /\ Len(stream') >= Len(stream)
          /\ Len(stream) \in Nat /\ Len(stream') \in Nat
      <4>1. stream \in Seq(Payloads)
        BY DEF TypeOK, QueueOK
      <4>2. CASE stream' = stream
        BY <4>1, <4>2
      <4>3. CASE stream' = Append(stream, p)
        BY <4>1, <4>3
      <4> QED
        BY <3>0, <4>2, <4>3
    <3>9. retry' \in [Payloads -> {"absent", "waiting", "due"}]
      BY <2>7 DEF PromoteOne, Promote, TypeOK, QueueOK
    <3>2. QueueOK'
      <4>1. group' = group /\ expired' = expired /\ enqueued' = enqueued
        BY <2>7 DEF PromoteOne, Promote
      <4>2. Pending' = Pending
        BY <4>1 DEF Pending
      <4>3. Len(group) <= Len(stream')
        <5>1. Len(group) <= Len(stream) /\ Len(group) \in Nat
          BY DEF TypeOK, QueueOK
        <5> QED
          BY <3>1, <5>1
      <4>4. expired \subseteq Pending /\ group \in Seq(Workers \union {NoWorker})
            /\ enqueued \in [Payloads -> Nat]
        BY DEF TypeOK, QueueOK
      <4> QED
        BY <3>1, <3>9, <4>1, <4>2, <4>3, <4>4 DEF QueueOK
    <3>3. WorkersOK'
      <4>1. UNCHANGED <<group, after, inbox, next, claims, sent>>
        BY <2>7 DEF PromoteOne, Promote
      <4>2. /\ \/ pc' = [pc EXCEPT ![w] = IF due[w] = {p} THEN "claim" ELSE "promoting"]
               \/ pc' = pc
            /\ due' = [due EXCEPT ![w] = @ \ {p}] \/ due' = due
        BY <2>7 DEF PromoteOne, Goto
      <4>3. pc \in [Workers -> PCs] /\ due \in [Workers -> SUBSET Payloads]
        BY DEF TypeOK, WorkersOK
      <4>4. due' \in [Workers -> SUBSET Payloads]
        BY <4>2, <4>3
      <4>5. pc' \in [Workers -> PCs] /\ \A v \in Workers : pc'[v] = "mark" => pc[v] = "mark"
        BY <4>2, <4>3 DEF PCs
      <4> QED
        BY <4>1, <4>4, <4>5 DEF TypeOK, WorkersOK
    <3>4. lost' \in Nat
      BY <2>7 DEF PromoteOne, Promote, TypeOK, Answered, ReplyLost
    <3> QED
      BY <2>7, <3>2, <3>3, <3>4 DEF PromoteOne, Promote, TypeOK, RecordsOK, faultVars
  <2>8. ASSUME NEW w \in Workers, ClaimOne(w)
        PROVE  TypeOK'
    <3>1. /\ group' = Append(group, w)
          /\ Len(group) + 1 <= Len(stream)
      BY <2>8 DEF ClaimOne, Deliver, Undelivered, TypeOK, QueueOK
    <3>2. /\ group' \in Seq(Workers \union {NoWorker})
          /\ Len(group') = Len(group) + 1
          /\ \A e \in 1 .. Len(group) : group'[e] = group[e]
      BY <3>1 DEF TypeOK, QueueOK
    <3>3. Pending \subseteq Pending'
      BY <3>2 DEF Pending, TypeOK, QueueOK
    <3>4. QueueOK'
      BY <2>8, <3>1, <3>2, <3>3 DEF ClaimOne, Deliver, TypeOK, QueueOK
    <3>5. /\ inbox' \in [Workers -> SUBSET (1 .. Len(group'))]
          /\ after' \in [Workers -> {"top", "promote"}]
      <4>1. Len(group) \in Nat /\ 1 .. Len(group) \subseteq 1 .. Len(group')
        BY <3>2 DEF TypeOK, QueueOK
      <4>2. {Len(group) + 1} \in SUBSET (1 .. Len(group'))
        BY <3>2, <4>1
      <4>3. inbox \in [Workers -> SUBSET (1 .. Len(group'))]
        BY <4>1 DEF TypeOK, WorkersOK
      <4>4. inbox' = inbox \/ inbox' = [inbox EXCEPT ![w] = {Len(group) + 1}]
        BY <2>8 DEF ClaimOne, Deliver
      <4>5. after' \in [Workers -> {"top", "promote"}]
        BY <2>8 DEF ClaimOne, Deliver, TypeOK, WorkersOK
      <4> QED
        BY <4>2, <4>3, <4>4, <4>5
    <3>6. pc' \in [Workers -> PCs] /\ \A v \in Workers : pc'[v] = "mark" => pc[v] = "mark"
      BY <2>8 DEF ClaimOne, Deliver, TypeOK, WorkersOK, Goto, PCs
    <3>7. \A v \in Workers : \A c \in claims[v] : c.entry <= Len(group')
      BY <3>2 DEF TypeOK, QueueOK, WorkersOK, Claim
    <3>8. WorkersOK'
      BY <2>8, <3>5, <3>6, <3>7 DEF ClaimOne, Deliver, TypeOK, WorkersOK
    <3>9. lost' \in Nat
      BY <2>8 DEF ClaimOne, Deliver, TypeOK, Answered, ReplyLost
    <3> QED
      BY <2>8, <3>4, <3>8, <3>9 DEF ClaimOne, Deliver, TypeOK, RecordsOK, faultVars
  <2>9. ASSUME NEW w \in Workers, ClaimTimesOut(w)
        PROVE  TypeOK'
    <3>1. WorkersOK'
      BY <2>9 DEF ClaimTimesOut, TypeOK, WorkersOK, Goto, redisVars, PCs
    <3> QED
      BY <2>9, <3>1 DEF ClaimTimesOut, TypeOK, QueueOK, RecordsOK, Pending, redisVars, faultVars
  <2>10. ASSUME NEW w \in Workers, ReadAttempt(w)
         PROVE  TypeOK'
    <3>1. PICK e \in FirstDelivered(w) : next' = [next EXCEPT ![w] = attempt[Job(e)] + 1]
      BY <2>10 DEF ReadAttempt, WellFormed, NextAttempt
    <3>2. attempt[Job(e)] \in Nat
      BY FirstDeliveredEntry, DeliveredEntry DEF TypeOK, RecordsOK
    <3>3. WorkersOK'
      BY <2>10, <3>1, <3>2 DEF ReadAttempt, WellFormed, NextAttempt, TypeOK, WorkersOK, Goto,
         redisVars, PCs
    <3> QED
      BY <2>10, <3>3 DEF ReadAttempt, WellFormed, NextAttempt, TypeOK, QueueOK, RecordsOK,
         Pending, redisVars, faultVars
  <2>11. ASSUME NEW w \in Workers, MarkClaimed(w)
         PROVE  TypeOK'
    <3>1. PICK e \in FirstDelivered(w) :
            /\ SetStatus(Job(e), "claimed")
            /\ attempt' = [attempt EXCEPT ![Job(e)] = next[w]]
            /\ \/ /\ Answered
                  /\ claims' = [claims EXCEPT ![w] = @ \union {[entry |-> e, attempt |-> next[w]]}]
                  /\ inbox' = [inbox EXCEPT ![w] = @ \ {e}]
                  /\ next' = [next EXCEPT ![w] = 0]
                  /\ Goto(w, IF inbox[w] = {e} THEN "process" ELSE "register")
               \/ ReplyLost /\ UNCHANGED <<claims, inbox, next, pc>>
      BY <2>11 DEF MarkClaimed
    <3>2. e \in 1 .. Len(group) /\ e \in Nat \ {0} /\ Job(e) \in Jobs
      BY FirstDeliveredEntry, DeliveredEntry
    <3>3. next[w] \in Nat \ {0}
      BY <2>11 DEF MarkClaimed, TypeOK, WorkersOK
    <3>4. RecordsOK'
      BY <2>11, <3>1, <3>2, <3>3 DEF MarkClaimed, TypeOK, RecordsOK, SetStatus, Statuses
    <3>5. WorkersOK'
      <4>1. CASE UNCHANGED <<claims, inbox, next, pc>>
        BY <2>11, <4>1 DEF MarkClaimed, TypeOK, WorkersOK
      <4>2. CASE /\ claims' = [claims EXCEPT ![w] = @ \union {[entry |-> e, attempt |-> next[w]]}]
                 /\ inbox' = [inbox EXCEPT ![w] = @ \ {e}]
                 /\ next' = [next EXCEPT ![w] = 0]
                 /\ Goto(w, IF inbox[w] = {e} THEN "process" ELSE "register")
        <5> DEFINE new == [entry |-> e, attempt |-> next[w]]
        <5>1. claims[w] \union {new} \in SUBSET Claim /\ claims \in [Workers -> SUBSET Claim]
          BY <3>2, <3>3 DEF TypeOK, WorkersOK, Claim
        <5>2. claims' \in [Workers -> SUBSET Claim]
          BY <4>2, <5>1
        <5>3. \A v \in Workers : \A c \in claims'[v] : c \in claims[v] \/ c = new
          BY <4>2 DEF TypeOK, WorkersOK
        <5>4. \A v \in Workers : \A c \in claims'[v] : c.entry <= Len(group)
          BY <5>3, <3>2 DEF TypeOK, WorkersOK
        <5>5. inbox' \in [Workers -> SUBSET (1 .. Len(group))]
          BY <4>2 DEF TypeOK, WorkersOK
        <5>6. next' \in [Workers -> Nat]
          BY <4>2 DEF TypeOK, WorkersOK
        <5>7. /\ pc' \in [Workers -> PCs]
              /\ \A v \in Workers : pc'[v] = "mark" => v # w /\ pc[v] = "mark"
          BY <4>2 DEF TypeOK, WorkersOK, Goto, PCs
        <5>8. \A v \in Workers : pc'[v] = "mark" => next'[v] > 0
          BY <4>2, <5>7 DEF TypeOK, WorkersOK
        <5> QED
          BY <2>11, <5>2, <5>4, <5>5, <5>6, <5>7, <5>8 DEF MarkClaimed, TypeOK, WorkersOK
      <4> QED
        BY <3>1, <4>1, <4>2
    <3>8. lost' \in Nat
      BY <3>1 DEF TypeOK, Answered, ReplyLost
    <3> QED
      BY <2>11, <3>4, <3>5, <3>8 DEF MarkClaimed, TypeOK, QueueOK, Pending, faultVars
  <2>12. ASSUME NEW w \in Workers, MarkRejected(w)
         PROVE  TypeOK'
    <3>1. status' \in [Jobs -> Statuses]
      BY <2>12, FirstDeliveredEntry, DeliveredEntry, SetStatusRecords
      DEF MarkRejected, WellFormed, TypeOK, Statuses
    <3>2. WorkersOK'
      BY <2>12 DEF MarkRejected, WellFormed, TypeOK, WorkersOK, Goto, PCs
    <3>3. lost' \in Nat
      BY <2>12 DEF MarkRejected, WellFormed, TypeOK, Answered, ReplyLost
    <3> QED
      BY <2>12, <3>1, <3>2, <3>3
      DEF MarkRejected, WellFormed, TypeOK, QueueOK, RecordsOK, Pending, faultVars
  <2>13. ASSUME NEW w \in Workers, AckRejected(w)
         PROVE  TypeOK'
    <3>1. PICK e \in FirstDelivered(w) :
            /\ XAck(e) /\ Settle(e)
            /\ \/ /\ Answered
                  /\ inbox' = [inbox EXCEPT ![w] = @ \ {e}]
                  /\ Goto(w, IF inbox[w] # {e} THEN "register"
                             ELSE IF claims[w] # {} THEN "process" ELSE after[w])
               \/ ReplyLost /\ UNCHANGED <<inbox, pc>>
      BY <2>13 DEF AckRejected
    <3>2. e \in 1 .. Len(group) /\ stream[e] \in Payloads
      BY FirstDeliveredEntry, DeliveredEntry
    <3>3. QueueOK' /\ Len(group') = Len(group)
      BY <2>13, <3>1, <3>2, XAckQueue DEF AckRejected, TypeOK, QueueOK
    <3>4. WorkersOK'
      <4>1. inbox' \in [Workers -> SUBSET (1 .. Len(group))]
        BY <3>1 DEF TypeOK, WorkersOK
      <4>2. pc' \in [Workers -> PCs] /\ \A v \in Workers : pc'[v] = "mark" => pc[v] = "mark"
        <5>1. after[w] \in PCs \ {"mark"}
          BY DEF TypeOK, WorkersOK, PCs
        <5> QED
          BY <3>1, <5>1 DEF TypeOK, WorkersOK, Goto, PCs
      <4> QED
        BY <2>13, <3>3, <4>1, <4>2 DEF AckRejected, TypeOK, WorkersOK
    <3>5. lost' \in Nat
      BY <3>1 DEF TypeOK, Answered, ReplyLost
    <3> QED
      BY <2>13, <3>1, <3>2, <3>3, <3>4, <3>5
      DEF AckRejected, TypeOK, RecordsOK, Settle, faultVars
  <2>14. ASSUME NEW w \in Workers, NEW c \in FirstClaimed(w), Finalize(w, c)
         PROVE  TypeOK'
    <3>1. c.entry \in 1 .. Len(group) /\ stream[c.entry] \in Payloads /\ Job(c.entry) \in Jobs
          /\ c.attempt \in Nat
      BY FirstClaimedEntry, DeliveredEntry
    <3>2. CASE Complete(w, c)
      <4>1. QueueOK' /\ Len(group') = Len(group)
        BY <3>1, <3>2, XAckQueue DEF Complete, TypeOK, QueueOK
      <4>2. WorkersOK' /\ lost' \in Nat
        BY <3>2, <4>1, ScriptDoneWorkers DEF Complete
      <4>3. RecordsOK'
        BY <3>1, <3>2, SetStatusRecords DEF Complete, TypeOK, RecordsOK, Settle, Statuses
      <4> QED
        BY <3>2, <4>1, <4>2, <4>3 DEF Complete, TypeOK, faultVars
    <3>3. ASSUME NEW d \in Decisions, CommitResult(w, c, d)
          PROVE  TypeOK'
      <4>1. QueueOK' /\ Len(group') = Len(group)
        BY <3>1, <3>3, XAckQueue DEF CommitResult, Emit, Index, TypeOK, QueueOK
      <4>2. WorkersOK' /\ lost' \in Nat
        BY <3>3, <4>1, ScriptDoneWorkers, FinalizingOutcome DEF CommitResult, Emit, Index
      <4>3. PICK ev \in Nat : result' = [result EXCEPT ![Job(c.entry)] =
                                [attempt |-> c.attempt, decision |-> d, evidence |-> ev]]
        BY <3>1, <3>3 DEF CommitResult, Emit, Index, TypeOK, RecordsOK, Result
      <4>4. result' \in [Jobs -> Result]
        BY <3>1, <4>3 DEF TypeOK, RecordsOK, Result
      <4>5. events' \in [Jobs -> Seq(Event)]
        <5>1. [attempt |-> c.attempt, decision |-> d] \in Event
          BY <3>1 DEF Event
        <5>2. Append(events[Job(c.entry)], [attempt |-> c.attempt, decision |-> d]) \in Seq(Event)
          BY <3>1, <5>1 DEF TypeOK, RecordsOK
        <5> QED
          BY <3>3, <5>2 DEF CommitResult, Emit, Index, TypeOK, RecordsOK
      <4>6. matchIndex' \subseteq Jobs
        BY <3>1, <3>3 DEF CommitResult, Emit, Index, TypeOK, RecordsOK
      <4>7. status' \in [Jobs -> Statuses]
        BY <3>1, <3>3, SetStatusRecords DEF CommitResult, Emit, Index, TypeOK, Statuses
      <4>8. RecordsOK'
        BY <3>1, <3>3, <4>4, <4>5, <4>6, <4>7 DEF CommitResult, Emit, Index, TypeOK, RecordsOK,
           Settle
      <4> QED
        BY <3>3, <4>1, <4>2, <4>8 DEF CommitResult, Emit, Index, TypeOK, faultVars
    <3>4. CASE ScheduleRetry(w, c)
      <4>1. retry' \in [Payloads -> {"absent", "waiting", "due"}]
        BY <3>1, <3>4 DEF ScheduleRetry, TypeOK, QueueOK
      <4>2. QueueOK' /\ Len(group') = Len(group)
        BY <3>1, <3>4, <4>1, XAckQueue DEF ScheduleRetry, TypeOK
      <4>3. WorkersOK' /\ lost' \in Nat
        BY <3>4, <4>2, ScriptDoneWorkers, FinalizingOutcome DEF ScheduleRetry
      <4>4. RecordsOK'
        BY <3>1, <3>4, SetStatusRecords DEF ScheduleRetry, TypeOK, RecordsOK, Statuses
      <4> QED
        BY <3>4, <4>2, <4>3, <4>4 DEF ScheduleRetry, TypeOK, faultVars
    <3>5. ASSUME NEW o \in {"transient", "permanent"}, FailJob(w, c, o)
          PROVE  TypeOK'
      <4>1. QueueOK' /\ Len(group') = Len(group)
        BY <3>1, <3>5, XAckQueue DEF FailJob, TypeOK, QueueOK
      <4>2. WorkersOK' /\ lost' \in Nat
        BY <3>5, <4>1, ScriptDoneWorkers, FinalizingOutcome DEF FailJob
      <4>3. RecordsOK'
        BY <3>1, <3>5, SetStatusRecords DEF FailJob, TypeOK, RecordsOK, Settle, Statuses
      <4> QED
        BY <3>5, <4>1, <4>2, <4>3 DEF FailJob, TypeOK, faultVars
    <3>6. CASE Fenced(w, c)
      <4>1. WorkersOK'
        BY <3>6, DispatchedWorkers DEF Fenced, redisVars
      <4> QED
        BY <3>6, <4>1 DEF Fenced, TypeOK, QueueOK, RecordsOK, Pending, redisVars, faultVars
    <3> QED
      BY <2>14, <3>2, <3>3, <3>4, <3>5, <3>6 DEF Finalize
  <2>15. ASSUME NEW w \in Workers, Crash(w)
         PROVE  TypeOK'
    <3>1. WorkersOK'
      <4>1. inbox' \in [Workers -> SUBSET (1 .. Len(group))] /\ next' \in [Workers -> Nat]
        BY <2>15 DEF Crash, Forget, TypeOK, WorkersOK
      <4>2. claims' \in [Workers -> SUBSET Claim] /\ \A v \in Workers : claims'[v] \subseteq claims[v]
        BY <2>15 DEF Crash, Forget, TypeOK, WorkersOK
      <4>3. pc' \in [Workers -> PCs] /\ \A v \in Workers : pc'[v] = "mark" => pc[v] = "mark" /\ v # w
        BY <2>15 DEF Crash, Forget, Goto, TypeOK, WorkersOK, PCs
      <4>4. /\ sent' \in [Workers -> Outcomes \union {"none"}]
            /\ due' \in [Workers -> SUBSET Payloads]
        BY <2>15 DEF Crash, Forget, TypeOK, WorkersOK
      <4>5. \A v \in Workers : v # w => next'[v] = next[v]
        BY <2>15 DEF Crash, Forget, TypeOK, WorkersOK
      <4>6. \A v \in Workers : pc'[v] = "mark" => next'[v] > 0
        BY <4>3, <4>5 DEF TypeOK, WorkersOK
      <4>7. group' = group /\ after' = after
        BY <2>15 DEF Crash, redisVars
      <4>8. \A v \in Workers : \A c \in claims'[v] : c.entry <= Len(group')
        BY <4>2, <4>7 DEF TypeOK, WorkersOK
      <4> QED
        BY <4>1, <4>2, <4>3, <4>4, <4>6, <4>7, <4>8 DEF TypeOK, WorkersOK
    <3> QED
      BY <2>15, <3>1 DEF Crash, Forget, Goto, TypeOK, QueueOK, RecordsOK, Pending, redisVars
  <2>16. ASSUME NEW w \in Workers, Stop(w) \/ Restart(w)
         PROVE  TypeOK'
    <3>1. WorkersOK'
      <4>1. pc' \in [Workers -> PCs] /\ \A v \in Workers : pc'[v] = "mark" => pc[v] = "mark"
        BY <2>16 DEF Stop, Restart, Goto, TypeOK, WorkersOK, PCs
      <4>2. UNCHANGED <<group, after, inbox, next, claims, sent, due>>
        BY <2>16 DEF Stop, Restart, redisVars
      <4> QED
        BY <4>1, <4>2 DEF TypeOK, WorkersOK
    <3>2. {slow', outages', lost'} \subseteq Nat
      BY <2>16 DEF Stop, Restart, TypeOK, faultVars
    <3> QED
      BY <2>16, <3>1, <3>2 DEF Stop, Restart, TypeOK, QueueOK, RecordsOK, Pending, redisVars
  <2>17. CASE UNCHANGED vars
    BY <2>17 DEF vars, redisVars, localVars, faultVars, TypeOK, QueueOK, RecordsOK, WorkersOK,
       Pending
  <2> QED
    BY <2>1, <2>2, <2>3, <2>4, <2>5, <2>6, <2>7, <2>8, <2>9, <2>10, <2>11, <2>12, <2>13,
       <2>14, <2>15, <2>16, <2>17
    DEF Next, Run
<1> QED
  BY <1>1, <1>2, PTL DEF Spec

---------------------------------------------------------------------------
(***************************************************************************)
(* Where an entry is.  Entry e is in the queue when it is on the stream    *)
(* and, if it was delivered, still in somebody's PEL.                      *)
(***************************************************************************)
InQueue(e) == e \in 1 .. Len(stream) /\ (e \in 1 .. Len(group) => group[e] # NoWorker)

(* A payload is live when the ZSET or an entry of the queue holds it.      *)
LEMMA LiveInQueue ==
  TypeOK => \A p \in Payloads :
    Live(p) <=> (retry[p] # "absent" \/ \E e \in Nat : InQueue(e) /\ stream[e] = p)
<1> SUFFICES ASSUME TypeOK
             PROVE  \A p \in Payloads :
               Live(p) <=> (retry[p] # "absent" \/ \E e \in Nat : InQueue(e) /\ stream[e] = p)
  OBVIOUS
<1>1. Len(stream) \in Nat /\ Len(group) \in Nat /\ Len(group) <= Len(stream)
  BY DEF TypeOK, QueueOK
<1>2. \A e \in Undelivered \union Pending : e \in Nat /\ InQueue(e)
  BY <1>1 DEF Undelivered, Pending, InQueue
<1>3. \A e \in Nat : InQueue(e) => e \in Undelivered \union Pending
  BY <1>1 DEF Undelivered, Pending, InQueue
<1>4. ASSUME NEW p \in Payloads
      PROVE  (\E e \in Undelivered \union Pending : stream[e] = p)
               <=> (\E e \in Nat : InQueue(e) /\ stream[e] = p)
  BY <1>2, <1>3
<1> QED
  BY <1>4 DEF Live

(* The same of the next state: the facts above are about one state each.   *)
LEMMA LiveInQueueNext ==
  ASSUME TypeOK'
  PROVE  \A p \in Payloads :
           Live(p)' <=> (retry'[p] # "absent" \/ \E e \in Nat : InQueue(e)' /\ stream'[e] = p)
<1>1. (TypeOK => \A p \in Payloads :
         Live(p) <=> (retry[p] # "absent" \/ \E e \in Nat : InQueue(e) /\ stream[e] = p))'
  BY LiveInQueue, PTL
<1> QED
  BY <1>1

(* Appending to the stream keeps what is in the queue and adds the payload. *)
LEMMA AppendKeeps ==
  ASSUME TypeOK, NEW p \in Payloads, stream' = Append(stream, p), group' = group
  PROVE  /\ \A e \in Nat : InQueue(e) => InQueue(e)' /\ stream'[e] = stream[e]
         /\ \E e \in Nat : InQueue(e)' /\ stream'[e] = p
<1>1. /\ Len(stream) \in Nat /\ Len(group) \in Nat /\ Len(group) <= Len(stream)
      /\ Len(stream') = Len(stream) + 1
      /\ stream'[Len(stream) + 1] = p
      /\ \A e \in 1 .. Len(stream) : stream'[e] = stream[e]
  BY DEF TypeOK, QueueOK
<1>2. ASSUME NEW e \in Nat, InQueue(e)
      PROVE  InQueue(e)' /\ stream'[e] = stream[e]
  <2>1. e \in 1 .. Len(stream) /\ e \in 1 .. Len(stream')
    BY <1>1, <1>2 DEF InQueue
  <2> QED
    BY <1>1, <1>2, <2>1 DEF InQueue
<1>3. PICK n \in Nat : n = Len(stream) + 1
  BY <1>1
<1>4. n \in 1 .. Len(stream') /\ n \notin 1 .. Len(group')
  BY <1>1, <1>3
<1>5. InQueue(n)' /\ stream'[n] = p
  BY <1>1, <1>3, <1>4 DEF InQueue
<1> QED
  BY <1>2, <1>5

(* XACK takes only its own entry out of the queue. *)
LEMMA XAckKeeps ==
  ASSUME TypeOK, NEW a \in 1 .. Len(group), XAck(a), stream' = stream
  PROVE  \A e \in Nat \ {a} : InQueue(e) => InQueue(e)' /\ stream'[e] = stream[e]
<1>1. /\ Len(group') = Len(group) /\ Len(group) \in Nat
      /\ \A e \in 1 .. Len(group) : e # a => group'[e] = group[e]
  BY DEF TypeOK, QueueOK, XAck
<1>2. ASSUME NEW e \in Nat \ {a}, InQueue(e)
      PROVE  InQueue(e)' /\ stream'[e] = stream[e]
  BY <1>1, <1>2 DEF InQueue
<1> QED
  BY <1>2

(***************************************************************************)
(* A payload stops being live only by an XACK that comes with an outcome:  *)
(* it was malformed, or its job's status now says completed or failed.     *)
(***************************************************************************)
Gone(p) == p \in settled' /\ (p \in Malformed \/ status'[JobOf[p]] \in {"completed", "failed"})

(* While nothing leaves the queue or the ZSET, live payloads stay live.    *)
LEMMA QueuedStays ==
  ASSUME TypeOK, TypeOK',
         \A q \in Payloads : retry[q] # "absent" => retry'[q] # "absent",
         \A e \in Nat : InQueue(e) => InQueue(e)' /\ stream'[e] = stream[e]
  PROVE  \A p \in Payloads : Live(p) => Live(p)'
BY LiveInQueue, LiveInQueueNext

(* An entry that is acknowledged takes at most its own payload with it.    *)
LEMMA XAckSparesOthers ==
  ASSUME TypeOK, TypeOK', NEW a \in 1 .. Len(group), XAck(a), stream' = stream,
         \A q \in Payloads : retry[q] # "absent" => retry'[q] # "absent"
  PROVE  \A p \in Payloads : Live(p) => Live(p)' \/ p = stream[a]
BY LiveInQueue, LiveInQueueNext, XAckKeeps

---------------------------------------------------------------------------
(***************************************************************************)
(* A worker never takes a malformed entry for a well-formed one, nor the   *)
(* reverse: the reject path and the handler are told apart by the payload  *)
(* alone, so an entry reclaimed after a crash between mark_rejected and    *)
(* its XACK is rejected again and never handled.                           *)
(***************************************************************************)
LEMMA FirstIsUnique ==
  ASSUME TypeOK, NEW w \in Workers, NEW e \in FirstDelivered(w), NEW f \in FirstDelivered(w)
  PROVE  e = f
BY FirstDeliveredEntry DEF FirstDelivered

(* The stream is only ever appended to. *)
LEMMA StreamGrows ==
  ASSUME TypeOK, [Next]_vars
  PROVE  \A e \in 1 .. Len(stream) : stream'[e] = stream[e]
<1>1. ASSUME NEW p \in Payloads, stream' = Append(stream, p)
      PROVE  \A e \in 1 .. Len(stream) : stream'[e] = stream[e]
  BY <1>1 DEF TypeOK, QueueOK
<1>2. ASSUME NEW p \in Payloads, Enqueue(p)
      PROVE  stream' = Append(stream, p)
  BY <1>2 DEF Enqueue
<1>3. ASSUME NEW w \in Workers, NEW p \in Payloads, PromoteOne(w, p)
      PROVE  stream' = stream \/ stream' = Append(stream, p)
  BY <1>3 DEF PromoteOne, Promote
<1>4. ASSUME NEW w \in Workers, NEW c \in FirstClaimed(w), Finalize(w, c)
      PROVE  stream' = stream
  BY <1>4 DEF Finalize, Complete, CommitResult, Emit, Index, ScheduleRetry, FailJob, Fenced,
     redisVars
<1>5. ASSUME NEW w \in Workers,
             \/ SkipReclaim(w) \/ Reclaim(w) \/ ListDue(w) \/ ClaimOne(w) \/ ClaimTimesOut(w)
             \/ ReadAttempt(w) \/ MarkClaimed(w) \/ MarkRejected(w) \/ AckRejected(w)
             \/ Crash(w) \/ Stop(w) \/ Restart(w)
      PROVE  stream' = stream
  BY <1>5 DEF SkipReclaim, Reclaim, ListDue, DueMembers, ClaimOne, Deliver, ClaimTimesOut,
     ReadAttempt, WellFormed, NextAttempt, MarkClaimed,
    MarkRejected, AckRejected, Crash, Stop, Restart, redisVars
<1>6. ASSUME \/ \E p \in Payloads : BackoffElapses(p)
             \/ \E e \in Entries : LeaseExpires(e)
             \/ UNCHANGED vars
      PROVE  stream' = stream
  BY <1>6 DEF BackoffElapses, LeaseExpires, vars, redisVars
<1>7. stream' = stream \/ \E p \in Payloads : stream' = Append(stream, p)
  BY <1>2, <1>3, <1>4, <1>5, <1>6 DEF Next, Run
<1> QED
  BY <1>1, <1>7

(* Worker v holds what it held and is not newly about to mark or reject.   *)
Quiet(v) ==
  /\ claims'[v] \subseteq claims[v]
  /\ pc'[v] \in {"mark", "reject"} => pc'[v] = pc[v] /\ inbox'[v] = inbox[v]

Sorted(v) ==
  /\ \A c \in claims[v] : stream[c.entry] \notin Malformed
  /\ \A e \in FirstDelivered(v) :
       /\ pc[v] = "mark" => stream[e] \notin Malformed
       /\ pc[v] = "reject" => stream[e] \in Malformed

(* A worker that reads nothing keeps its entries sorted; these steps are quiet. *)
LEMMA QuietStaysSorted ==
  ASSUME TypeOK, [Next]_vars, NEW v \in Workers, Sorted(v), Quiet(v)
  PROVE  Sorted(v)'
<1>1. \A c \in claims[v] : c.entry \in 1 .. Len(stream)
  BY DEF TypeOK, QueueOK, WorkersOK, Claim
<1>2. \A c \in claims'[v] : stream'[c.entry] \notin Malformed
  BY <1>1, StreamGrows DEF Quiet, Sorted
<1>3. \A e \in FirstDelivered(v) : e \in 1 .. Len(stream)
  BY DEF TypeOK, QueueOK, WorkersOK, FirstDelivered
<1>4. pc'[v] \in {"mark", "reject"} => FirstDelivered(v)' = FirstDelivered(v)
  BY DEF Quiet, FirstDelivered
<1>5. pc'[v] \in {"mark", "reject"} =>
        pc'[v] = pc[v] /\ \A e \in FirstDelivered(v) : stream'[e] = stream[e]
  BY <1>3, StreamGrows DEF Quiet
<1> QED
  BY <1>2, <1>4, <1>5 DEF Sorted

LEMMA QuietDispatch ==
  ASSUME TypeOK, NEW w \in Workers, NEW c \in FirstClaimed(w), Dispatched(w, c), inbox' = inbox
  PROVE  \A v \in Workers : Quiet(v)
<1>1. after[w] \notin {"mark", "reject"}
  BY DEF TypeOK, WorkersOK
<1> QED
  BY <1>1 DEF TypeOK, WorkersOK, Dispatched, Goto, Quiet

LEMMA QuietScript ==
  ASSUME TypeOK, NEW w \in Workers, NEW c \in FirstClaimed(w),
         NEW o \in Outcomes \union {"none"}, ScriptDone(w, c, o)
  PROVE  \A v \in Workers : Quiet(v)
<1>1. CASE Dispatched(w, c)
  BY <1>1, QuietDispatch DEF ScriptDone
<1>2. CASE Goto(w, "resend") /\ UNCHANGED claims
  <2>1. pc'[w] = "resend" /\ \A v \in Workers \ {w} : pc'[v] = pc[v]
    BY <1>2, GotoType DEF TypeOK, WorkersOK, PCs
  <2> QED
    BY <1>2, <2>1 DEF ScriptDone, Quiet
<1> QED
  BY <1>1, <1>2 DEF ScriptDone

(* No step hands a malformed entry to a handler.                           *)
LEMMA MalformedStep ==
  ASSUME TypeOK, MalformedNeverHandled, [Next]_vars
  PROVE  MalformedNeverHandled'
<1>1. \A v \in Workers : Sorted(v)
  BY DEF MalformedNeverHandled, Sorted
<1>2. ASSUME NEW w \in Workers, ReadAttempt(w)
      PROVE  \A v \in Workers : Sorted(v)'
  <2>1. \A v \in Workers \ {w} : Quiet(v)
    BY <1>2 DEF ReadAttempt, WellFormed, NextAttempt, Goto, Quiet, TypeOK, WorkersOK
  <2>2. PICK e \in FirstDelivered(w) : stream[e] \notin Malformed
    BY <1>2 DEF ReadAttempt, WellFormed, NextAttempt
  <2>3. UNCHANGED <<stream, inbox, claims>> /\ pc'[w] = "mark"
    BY <1>2 DEF ReadAttempt, WellFormed, NextAttempt, redisVars, Goto, TypeOK, WorkersOK
  <2>4. Sorted(w)'
    <3>1. FirstDelivered(w)' = FirstDelivered(w)
      BY <2>3 DEF FirstDelivered
    <3> QED
      BY <1>1, <2>2, <2>3, <3>1, FirstIsUnique DEF Sorted
  <2> QED
    BY <1>1, <2>1, <2>4, QuietStaysSorted
<1>3. ASSUME NEW w \in Workers, MarkRejected(w)
      PROVE  \A v \in Workers : Sorted(v)'
  <2>1. \A v \in Workers \ {w} : Quiet(v)
    BY <1>3 DEF MarkRejected, WellFormed, Goto, Quiet, TypeOK, WorkersOK
  <2>2. PICK e \in FirstDelivered(w) : stream[e] \in Malformed
    BY <1>3 DEF MarkRejected, WellFormed
  <2>3. UNCHANGED <<stream, inbox, claims>> /\ pc'[w] \in {"reject", "register"}
    BY <1>3 DEF MarkRejected, WellFormed, Goto, TypeOK, WorkersOK
  <2>4. Sorted(w)'
    <3>1. FirstDelivered(w)' = FirstDelivered(w)
      BY <2>3 DEF FirstDelivered
    <3> QED
      BY <1>1, <2>2, <2>3, <3>1, FirstIsUnique DEF Sorted
  <2> QED
    BY <1>1, <2>1, <2>4, QuietStaysSorted
<1>4. ASSUME NEW w \in Workers, MarkClaimed(w)
      PROVE  \A v \in Workers : Sorted(v)'
  <2>1. \A v \in Workers \ {w} : Quiet(v)
    BY <1>4 DEF MarkClaimed, Goto, Quiet, TypeOK, WorkersOK
  <2>2. PICK e \in FirstDelivered(w) :
          \/ /\ claims' = [claims EXCEPT ![w] = @ \union {[entry |-> e, attempt |-> next[w]]}]
             /\ Goto(w, IF inbox[w] = {e} THEN "process" ELSE "register")
          \/ UNCHANGED <<claims, inbox, next, pc>>
    BY <1>4 DEF MarkClaimed
  <2>3. stream[e] \notin Malformed /\ stream' = stream
    BY <1>1, <1>4 DEF MarkClaimed, Sorted
  <2>4. CASE UNCHANGED <<claims, inbox, next, pc>>
    BY <1>1, <2>4, QuietStaysSorted DEF Quiet
  <2>5. CASE /\ claims' = [claims EXCEPT ![w] = @ \union {[entry |-> e, attempt |-> next[w]]}]
             /\ Goto(w, IF inbox[w] = {e} THEN "process" ELSE "register")
    <3>1. pc'[w] \notin {"mark", "reject"}
      BY <2>5 DEF Goto, TypeOK, WorkersOK
    <3>2. claims'[w] = claims[w] \union {[entry |-> e, attempt |-> next[w]]}
      BY <2>5 DEF TypeOK, WorkersOK
    <3>3. \A c \in claims'[w] : stream'[c.entry] \notin Malformed
      BY <1>1, <2>3, <3>2 DEF Sorted
    <3>4. Sorted(w)'
      BY <3>1, <3>3 DEF Sorted
    <3> QED
      BY <1>1, <2>1, <3>4, QuietStaysSorted
  <2> QED
    BY <2>2, <2>4, <2>5
<1>5. ASSUME NEW w \in Workers, NEW c \in FirstClaimed(w), Finalize(w, c)
      PROVE  \A v \in Workers : Quiet(v)
  <2>1. CASE Complete(w, c) \/ ScheduleRetry(w, c)
    BY <2>1, QuietScript, FinalizingOutcome DEF Complete, ScheduleRetry
  <2>2. ASSUME NEW d \in Decisions, CommitResult(w, c, d)
        PROVE  \A v \in Workers : Quiet(v)
    BY <2>2, QuietScript, FinalizingOutcome DEF CommitResult, Emit, Index
  <2>3. ASSUME NEW o \in {"transient", "permanent"}, FailJob(w, c, o)
        PROVE  \A v \in Workers : Quiet(v)
    BY <2>3, QuietScript, FinalizingOutcome DEF FailJob
  <2>4. CASE Fenced(w, c)
    BY <2>4, QuietDispatch DEF Fenced
  <2> QED
    BY <1>5, <2>1, <2>2, <2>3, <2>4 DEF Finalize
<1>6. ASSUME NEW w \in Workers,
             \/ SkipReclaim(w) \/ Reclaim(w) \/ ListDue(w)
             \/ (\E p \in Payloads : PromoteOne(w, p))
             \/ ClaimOne(w) \/ ClaimTimesOut(w) \/ AckRejected(w)
      PROVE  \A v \in Workers : Quiet(v)
  <2>1. claims' = claims
    BY <1>6 DEF SkipReclaim, Reclaim, ListDue, DueMembers, PromoteOne, Promote, ClaimOne,
       Deliver, ClaimTimesOut, AckRejected
  <2>2. after[w] \notin {"mark", "reject"}
    BY DEF TypeOK, WorkersOK
  <2>3. \/ UNCHANGED <<inbox, pc>>
        \/ /\ \E l \in PCs \ {"mark", "reject"} : Goto(w, l)
           /\ \A v \in Workers \ {w} : inbox'[v] = inbox[v]
    <3>1. CASE SkipReclaim(w) \/ ListDue(w) \/ ClaimTimesOut(w)
      BY <3>1 DEF SkipReclaim, ListDue, DueMembers, ClaimTimesOut, PCs
    <3>2. CASE Reclaim(w)
      BY <3>2 DEF Reclaim, PCs, TypeOK, WorkersOK
    <3>3. CASE ClaimOne(w)
      BY <3>3 DEF ClaimOne, Deliver, PCs, TypeOK, WorkersOK
    <3>4. CASE AckRejected(w)
      BY <2>2, <3>4 DEF AckRejected, PCs, TypeOK, WorkersOK
    <3>5. CASE \E p \in Payloads : PromoteOne(w, p)
      BY <3>5 DEF PromoteOne, Promote, PCs
    <3> QED
      BY <1>6, <3>1, <3>2, <3>3, <3>4, <3>5
  <2>4. CASE UNCHANGED <<inbox, pc>>
    BY <2>1, <2>4 DEF Quiet
  <2>5. ASSUME NEW l \in PCs \ {"mark", "reject"}, Goto(w, l)
        PROVE  pc'[w] \notin {"mark", "reject"} /\ \A v \in Workers \ {w} : pc'[v] = pc[v]
    BY <2>5, GotoType DEF TypeOK, WorkersOK
  <2> QED
    BY <2>1, <2>3, <2>4, <2>5 DEF Quiet
<1>7. ASSUME NEW w \in Workers, Crash(w) \/ Stop(w) \/ Restart(w)
      PROVE  \A v \in Workers : Quiet(v)
  BY <1>7 DEF Crash, Stop, Restart, Forget, Goto, Quiet, TypeOK, WorkersOK
<1>8. ASSUME \/ \E p \in Payloads : Enqueue(p) \/ BackoffElapses(p)
             \/ \E e \in Entries : LeaseExpires(e)
             \/ UNCHANGED vars
      PROVE  \A v \in Workers : Quiet(v)
  BY <1>8 DEF Enqueue, BackoffElapses, LeaseExpires, Quiet, vars, localVars
<1>9. (\A v \in Workers : Quiet(v)) \/ (\A v \in Workers : Sorted(v)')
  BY <1>2, <1>3, <1>4, <1>5, <1>6, <1>7, <1>8 DEF Next, Run
<1>10. \A v \in Workers : Sorted(v)'
  BY <1>1, <1>9, QuietStaysSorted
<1> QED
  BY <1>10 DEF MalformedNeverHandled, Sorted

(***************************************************************************)
(* Malformed entries only reach the reject path, well-formed ones only the *)
(* handler (claim_one and reclaim_stale parse an entry again each time).   *)
(***************************************************************************)
THEOREM MalformedRejected == Spec => []MalformedNeverHandled
<1>1. Init => MalformedNeverHandled
  BY DEF Init, MalformedNeverHandled, FirstDelivered
<1>2. TypeOK /\ MalformedNeverHandled /\ [Next]_vars => MalformedNeverHandled'
  BY MalformedStep
<1> QED
  BY <1>1, <1>2, TypeCorrect, PTL DEF Spec

---------------------------------------------------------------------------
(* Every step keeps a live payload live, or settles it.                    *)
LEMMA KeepsLive ==
  ASSUME TypeOK, TypeOK', MalformedNeverHandled, [Next]_vars
  PROVE  \A p \in Payloads : Live(p) => Live(p)' \/ Gone(p)
<1>1. ASSUME UNCHANGED <<stream, group>>,
             \A q \in Payloads : retry[q] # "absent" => retry'[q] # "absent"
      PROVE  \A p \in Payloads : Live(p) => Live(p)'
  <2>1. \A e \in Nat : InQueue(e) => InQueue(e)' /\ stream'[e] = stream[e]
    BY <1>1 DEF InQueue
  <2> QED
    BY <1>1, <2>1, QueuedStays
<1>2. ASSUME NEW p \in Payloads, Enqueue(p)
      PROVE  \A q \in Payloads : Live(q) => Live(q)'
  BY <1>2, AppendKeeps, QueuedStays DEF Enqueue
<1>3. ASSUME NEW p \in Payloads, BackoffElapses(p)
      PROVE  \A q \in Payloads : Live(q) => Live(q)'
  BY <1>1, <1>3 DEF BackoffElapses, TypeOK, QueueOK
<1>4. ASSUME NEW w \in Workers, Reclaim(w)
      PROVE  \A q \in Payloads : Live(q) => Live(q)'
  <2>1. PICK batch \in SUBSET Pending :
          group' = [e \in DOMAIN group |-> IF e \in batch THEN w ELSE group[e]]
    BY <1>4 DEF Reclaim
  <2>2. /\ Len(group') = Len(group) /\ Len(group) \in Nat
        /\ \A e \in 1 .. Len(group) : group'[e] \in {w, group[e]}
    BY <2>1 DEF TypeOK, QueueOK
  <2>3. ASSUME NEW e \in Nat, InQueue(e)
        PROVE  InQueue(e)' /\ stream'[e] = stream[e]
    BY <1>4, <2>2, <2>3, WorkersAssumption DEF InQueue, Reclaim
  <2> QED
    BY <1>4, <2>3, QueuedStays DEF Reclaim
<1>5. ASSUME NEW w \in Workers, ClaimOne(w)
      PROVE  \A q \in Payloads : Live(q) => Live(q)'
  <2>1. /\ Len(group') = Len(group) + 1 /\ Len(group) \in Nat
        /\ \A e \in 1 .. Len(group) : group'[e] = group[e]
        /\ group'[Len(group) + 1] = w
    BY <1>5 DEF ClaimOne, Deliver, TypeOK, QueueOK
  <2>2. ASSUME NEW e \in Nat, InQueue(e)
        PROVE  InQueue(e)' /\ stream'[e] = stream[e]
    BY <1>5, <2>1, <2>2, WorkersAssumption DEF InQueue, ClaimOne, Deliver
  <2> QED
    BY <1>5, <2>2, QueuedStays DEF ClaimOne, Deliver
<1>6. ASSUME NEW w \in Workers, NEW p \in Payloads, PromoteOne(w, p)
      PROVE  \A q \in Payloads : Live(q) => Live(q)'
  <2>1. CASE UNCHANGED <<retry, stream>>
    BY <1>1, <1>6, <2>1 DEF PromoteOne, Promote
  <2>2. CASE retry' = [retry EXCEPT ![p] = "absent"] /\ stream' = Append(stream, p)
    <3>2. \A q \in Payloads \ {p} : retry'[q] = retry[q]
      BY <2>2 DEF TypeOK, QueueOK
    <3>3. group' = group
      BY <1>6 DEF PromoteOne, Promote
    <3>4. /\ \A e \in Nat : InQueue(e) => InQueue(e)' /\ stream'[e] = stream[e]
          /\ \E e \in Nat : InQueue(e)' /\ stream'[e] = p
      BY <2>2, <3>3, AppendKeeps
    <3> QED
      BY <3>2, <3>4, LiveInQueue, LiveInQueueNext
  <2> QED
    BY <1>6, <2>1, <2>2 DEF PromoteOne, Promote
<1>7. ASSUME NEW w \in Workers, AckRejected(w)
      PROVE  \A q \in Payloads : Live(q) => Live(q)' \/ Gone(q)
  <2>1. PICK e \in FirstDelivered(w) : XAck(e) /\ Settle(e)
    BY <1>7 DEF AckRejected
  <2>2. e \in 1 .. Len(group)
    BY FirstDeliveredEntry
  <2>3. stream[e] \in Malformed /\ stream[e] \in settled'
    BY <1>7, <2>1 DEF AckRejected, MalformedNeverHandled, Settle
  <2>4. \A q \in Payloads : Live(q) => Live(q)' \/ q = stream[e]
    BY <1>7, <2>1, <2>2, XAckSparesOthers DEF AckRejected
  <2> QED
    BY <2>3, <2>4 DEF Gone
<1>8. ASSUME NEW w \in Workers, NEW c \in FirstClaimed(w), NEW s \in {"completed", "failed"},
             SetStatus(Job(c.entry), s), XAck(c.entry), Settle(c.entry),
             UNCHANGED <<stream, retry>>
      PROVE  \A q \in Payloads : Live(q) => Live(q)' \/ Gone(q)
  <2>1. c.entry \in 1 .. Len(group) /\ Job(c.entry) \in Jobs
    BY FirstClaimedEntry, DeliveredEntry
  <2>2. \A q \in Payloads : Live(q) => Live(q)' \/ q = stream[c.entry]
    BY <1>8, <2>1, XAckSparesOthers
  <2>3. status'[Job(c.entry)] = s /\ stream[c.entry] \in settled'
    BY <1>8, <2>1 DEF SetStatus, Settle, TypeOK, RecordsOK
  <2> QED
    BY <2>2, <2>3 DEF Gone, Job
<1>9. ASSUME NEW w \in Workers, NEW c \in FirstClaimed(w), ScheduleRetry(w, c)
      PROVE  \A q \in Payloads : Live(q) => Live(q)'
  <2>1. c.entry \in 1 .. Len(group) /\ stream[c.entry] \in Payloads
    BY FirstClaimedEntry, DeliveredEntry
  <2>2. /\ retry'[stream[c.entry]] = "waiting"
        /\ \A q \in Payloads : retry[q] # "absent" => retry'[q] # "absent"
    BY <1>9, <2>1 DEF ScheduleRetry, TypeOK, QueueOK
  <2>3. \A q \in Payloads : Live(q) => Live(q)' \/ q = stream[c.entry]
    BY <1>9, <2>1, <2>2, XAckSparesOthers DEF ScheduleRetry
  <2> QED
    BY <2>2, <2>3 DEF Live
<1>10. ASSUME NEW w \in Workers, NEW c \in FirstClaimed(w), Finalize(w, c)
       PROVE  \A q \in Payloads : Live(q) => Live(q)' \/ Gone(q)
  <2>1. CASE Complete(w, c)
    BY <1>8, <2>1 DEF Complete
  <2>2. CASE \E d \in Decisions : CommitResult(w, c, d)
    BY <1>8, <2>2 DEF CommitResult, Emit, Index
  <2>3. CASE \E o \in {"transient", "permanent"} : FailJob(w, c, o)
    BY <1>8, <2>3 DEF FailJob
  <2>4. CASE Fenced(w, c)
    BY <1>1, <2>4 DEF Fenced, redisVars
  <2> QED
    BY <1>9, <1>10, <2>1, <2>2, <2>3, <2>4 DEF Finalize
<1>11. ASSUME NEW w \in Workers,
              \/ SkipReclaim(w) \/ ListDue(w) \/ ClaimTimesOut(w) \/ ReadAttempt(w)
              \/ MarkClaimed(w) \/ MarkRejected(w) \/ Crash(w) \/ Stop(w) \/ Restart(w)
       PROVE  \A q \in Payloads : Live(q) => Live(q)'
  <2>1. UNCHANGED <<stream, group, retry>>
    BY <1>11 DEF SkipReclaim, ListDue, DueMembers, ClaimTimesOut, ReadAttempt, WellFormed,
       NextAttempt, MarkClaimed, MarkRejected,
      Crash, Stop, Restart, redisVars
  <2> QED
    BY <1>1, <2>1
<1>12. ASSUME (\E e \in Entries : LeaseExpires(e)) \/ UNCHANGED vars
       PROVE  \A q \in Payloads : Live(q) => Live(q)'
  <2>1. UNCHANGED <<stream, group, retry>>
    BY <1>12 DEF LeaseExpires, vars, redisVars
  <2> QED
    BY <1>1, <2>1
<1> QED
  BY <1>2, <1>3, <1>4, <1>5, <1>6, <1>7, <1>10, <1>11, <1>12 DEF Next, Run

(* Histories only grow, and only a producer's XADD enqueues a payload.     *)
LEMMA HistorySteps ==
  ASSUME TypeOK, [Next]_vars
  PROVE  /\ settled \subseteq settled'
         /\ \A p \in Payloads : enqueued'[p] = enqueued[p] \/ Enqueue(p)
<1>1. ASSUME NEW q \in Payloads, Enqueue(q)
      PROVE  settled' = settled /\ \A p \in Payloads \ {q} : enqueued'[p] = enqueued[p]
  BY <1>1 DEF Enqueue, TypeOK, QueueOK
<1>2. ASSUME NEW w \in Workers, NEW c \in FirstClaimed(w), Finalize(w, c)
      PROVE  settled \subseteq settled' /\ enqueued' = enqueued
  BY <1>2 DEF Finalize, Complete, CommitResult, Emit, Index, ScheduleRetry, FailJob, Fenced,
     Settle
<1>3. ASSUME NEW w \in Workers, AckRejected(w)
      PROVE  settled \subseteq settled' /\ enqueued' = enqueued
  BY <1>3 DEF AckRejected, Settle
<1>4. ASSUME NEW w \in Workers,
             \/ SkipReclaim(w) \/ Reclaim(w) \/ ListDue(w) \/ ClaimOne(w) \/ ClaimTimesOut(w)
             \/ (\E p \in Payloads : PromoteOne(w, p))
             \/ ReadAttempt(w) \/ MarkClaimed(w) \/ MarkRejected(w)
             \/ Crash(w) \/ Stop(w) \/ Restart(w)
      PROVE  settled' = settled /\ enqueued' = enqueued
  BY <1>4 DEF SkipReclaim, Reclaim, ListDue, DueMembers, ClaimOne, Deliver, ClaimTimesOut,
     PromoteOne, Promote, ReadAttempt, WellFormed, NextAttempt,
    MarkClaimed, MarkRejected, Crash, Stop, Restart
<1>5. ASSUME \/ \E p \in Payloads : BackoffElapses(p)
             \/ \E e \in Entries : LeaseExpires(e)
             \/ UNCHANGED vars
      PROVE  settled' = settled /\ enqueued' = enqueued
  BY <1>5 DEF BackoffElapses, LeaseExpires, vars
<1>6. \/ \E q \in Payloads : Enqueue(q)
      \/ settled \subseteq settled' /\ enqueued' = enqueued
  BY <1>2, <1>3, <1>4, <1>5 DEF Next, Run
<1> QED
  BY <1>1, <1>6

(***************************************************************************)
(* No job is lost: whatever crashes, expires or is sent twice, a payload a *)
(* producer XADDed is live until some worker recorded an outcome for it.   *)
(***************************************************************************)
THEOREM JobsAreKept == Spec => []NoJobLost
<1>1. Init => NoJobLost
  BY DEF Init, NoJobLost
<1>2. TypeOK /\ TypeOK' /\ MalformedNeverHandled /\ NoJobLost /\ [Next]_vars => NoJobLost'
  <2> SUFFICES ASSUME TypeOK, TypeOK', MalformedNeverHandled, NoJobLost, [Next]_vars,
                      NEW p \in Payloads, enqueued'[p] > 0
               PROVE  p \in settled' \/ Live(p)'
    BY DEF NoJobLost
  <2>1. settled \subseteq settled'
    BY HistorySteps
  <2>2. enqueued'[p] = enqueued[p] \/ Enqueue(p)
    BY HistorySteps
  <2>3. CASE Enqueue(p)
    <3>1. \E e \in Nat : InQueue(e)' /\ stream'[e] = p
      BY <2>3, AppendKeeps DEF Enqueue
    <3> QED
      BY <3>1, LiveInQueueNext
  <2>4. CASE enqueued'[p] = enqueued[p]
    BY <2>1, <2>4, KeepsLive DEF NoJobLost, Gone
  <2> QED
    BY <2>2, <2>3, <2>4
<1> QED
  BY <1>1, <1>2, TypeCorrect, MalformedRejected, PTL DEF Spec

---------------------------------------------------------------------------
(* Only _SCHEDULE_RETRY_IF_CURRENT makes a state hash say retry_scheduled. *)
LEMMA OnlyScheduleRetry ==
  ASSUME TypeOK, [Next]_vars, NEW j \in Jobs, status'[j] = "retry_scheduled"
  PROVE  \/ status[j] = "retry_scheduled"
         \/ \E w \in Workers : \E c \in FirstClaimed(w) : ScheduleRetry(w, c) /\ Job(c.entry) = j
<1>1. ASSUME NEW k \in Jobs, NEW s \in Statuses \ {"retry_scheduled"}, SetStatus(k, s)
      PROVE  status[j] = "retry_scheduled"
  BY <1>1 DEF SetStatus, TypeOK, RecordsOK
<1>2. ASSUME NEW w \in Workers, NEW e \in FirstDelivered(w)
      PROVE  Job(e) \in Jobs
  BY FirstDeliveredEntry, DeliveredEntry
<1>3. ASSUME NEW w \in Workers, MarkClaimed(w) \/ MarkRejected(w)
      PROVE  status[j] = "retry_scheduled"
  BY <1>1, <1>2, <1>3 DEF MarkClaimed, MarkRejected, WellFormed, Statuses
<1>4. ASSUME NEW w \in Workers, NEW c \in FirstClaimed(w), Finalize(w, c)
      PROVE  status[j] = "retry_scheduled" \/ (ScheduleRetry(w, c) /\ Job(c.entry) = j)
  <2>1. Job(c.entry) \in Jobs
    BY FirstClaimedEntry, DeliveredEntry
  <2>2. CASE ScheduleRetry(w, c)
    BY <2>1, <2>2 DEF ScheduleRetry, SetStatus, TypeOK, RecordsOK
  <2>3. CASE Complete(w, c) \/ (\E d \in Decisions : CommitResult(w, c, d))
    BY <1>1, <2>1, <2>3 DEF Complete, CommitResult, Emit, Index, Statuses
  <2>4. CASE \E o \in {"transient", "permanent"} : FailJob(w, c, o)
    BY <1>1, <2>1, <2>4 DEF FailJob, Statuses
  <2>5. CASE Fenced(w, c)
    BY <2>5 DEF Fenced, redisVars
  <2> QED
    BY <1>4, <2>2, <2>3, <2>4, <2>5 DEF Finalize
<1>5. ASSUME NEW w \in Workers,
             \/ SkipReclaim(w) \/ Reclaim(w) \/ ListDue(w) \/ ClaimOne(w) \/ ClaimTimesOut(w)
             \/ (\E p \in Payloads : PromoteOne(w, p)) \/ ReadAttempt(w) \/ AckRejected(w)
             \/ Crash(w) \/ Stop(w) \/ Restart(w)
      PROVE  status' = status
  BY <1>5 DEF SkipReclaim, Reclaim, ListDue, DueMembers, ClaimOne, Deliver, ClaimTimesOut,
     PromoteOne, Promote, ReadAttempt, WellFormed, NextAttempt,
    AckRejected, Crash, Stop, Restart, redisVars
<1>6. ASSUME \/ \E p \in Payloads : Enqueue(p) \/ BackoffElapses(p)
             \/ \E e \in Entries : LeaseExpires(e)
             \/ UNCHANGED vars
      PROVE  status' = status
  BY <1>6 DEF Enqueue, BackoffElapses, LeaseExpires, vars, redisVars
<1> QED
  BY <1>3, <1>4, <1>5, <1>6 DEF Next, Run

(***************************************************************************)
(* A job whose state hash says retry_scheduled still has a well-formed     *)
(* payload in the ZSET, on the stream or in a PEL: its retry will come.    *)
(***************************************************************************)
THEOREM RetriesAreBacked == Spec => []RetryIsBacked
<1>1. Init => RetryIsBacked
  BY DEF Init, RetryIsBacked
<1>2. TypeOK /\ TypeOK' /\ MalformedNeverHandled /\ RetryIsBacked /\ [Next]_vars => RetryIsBacked'
  <2> SUFFICES ASSUME TypeOK, TypeOK', MalformedNeverHandled, RetryIsBacked, [Next]_vars,
                      NEW j \in Jobs, status'[j] = "retry_scheduled"
               PROVE  \E p \in Payloads \ Malformed : JobOf[p] = j /\ Live(p)'
    BY DEF RetryIsBacked
  <2>1. CASE status[j] = "retry_scheduled"
    <3>1. PICK p \in Payloads \ Malformed : JobOf[p] = j /\ Live(p)
      BY <2>1 DEF RetryIsBacked
    <3>2. ~Gone(p)
      BY <3>1 DEF Gone
    <3> QED
      BY <3>1, <3>2, KeepsLive
  <2>2. ASSUME NEW w \in Workers, NEW c \in FirstClaimed(w),
               ScheduleRetry(w, c), Job(c.entry) = j
        PROVE  \E p \in Payloads \ Malformed : JobOf[p] = j /\ Live(p)'
    <3>1. c.entry \in 1 .. Len(group) /\ stream[c.entry] \in Payloads
      BY FirstClaimedEntry, DeliveredEntry
    <3>2. stream[c.entry] \notin Malformed
      BY FirstClaimedEntry DEF MalformedNeverHandled
    <3>3. retry'[stream[c.entry]] = "waiting"
      BY <2>2, <3>1 DEF ScheduleRetry, TypeOK, QueueOK
    <3> QED
      BY <2>2, <3>1, <3>2, <3>3 DEF Live, Job
  <2> QED
    BY <2>1, <2>2, OnlyScheduleRetry
<1> QED
  BY <1>1, <1>2, TypeCorrect, MalformedRejected, PTL DEF Spec

---------------------------------------------------------------------------
(***************************************************************************)
(* The last event of a job announces the result its hash holds, and every  *)
(* match is indexed: _COMMIT_RESULT_IF_CURRENT writes them together, and   *)
(* nothing else writes any of them.                                        *)
(***************************************************************************)
THEOREM ResultsAreAnnounced == Spec => []ResultIsAnnounced
<1>1. Init => ResultIsAnnounced
  BY DEF Init, ResultIsAnnounced, NoResult
<1>2. TypeOK /\ ResultIsAnnounced /\ [Next]_vars => ResultIsAnnounced'
  <2> SUFFICES ASSUME TypeOK, ResultIsAnnounced, [Next]_vars
               PROVE  ResultIsAnnounced'
    OBVIOUS
  <2>1. ASSUME UNCHANGED <<result, events, matchIndex>>
        PROVE  ResultIsAnnounced'
    BY <2>1 DEF ResultIsAnnounced
  <2>2. ASSUME NEW w \in Workers, NEW c \in FirstClaimed(w), NEW d \in Decisions,
               CommitResult(w, c, d)
        PROVE  ResultIsAnnounced'
    <3> DEFINE j == Job(c.entry)
               event == [attempt |-> c.attempt, decision |-> d]
    <3>1. j \in Jobs /\ c.attempt \in Nat /\ event \in Event
      BY FirstClaimedEntry, DeliveredEntry DEF Event
    <3>2. /\ result'[j].attempt = c.attempt /\ result'[j].decision = d
          /\ \A k \in Jobs \ {j} : result'[k] = result[k]
      BY <2>2, <3>1 DEF CommitResult, Emit, Index, TypeOK, RecordsOK
    <3>3. events'[j] = Append(events[j], event) /\ \A k \in Jobs \ {j} : events'[k] = events[k]
      BY <2>2, <3>1 DEF CommitResult, Emit, Index, TypeOK, RecordsOK
    <3>4. matchIndex \subseteq matchIndex' /\ (d = "match" => j \in matchIndex')
      BY <2>2 DEF CommitResult, Emit, Index
    <3>5. events[j] \in Seq(Event)
      BY <3>1 DEF TypeOK, RecordsOK
    <3>6. events'[j] # <<>> /\ events'[j][Len(events'[j])] = event
      <4> HIDE DEF event
      <4> QED
        BY <3>1, <3>3, <3>5
    <3>7. d # "none"
      BY DEF Decisions
    <3>8. \A k \in Jobs \ {j} :
            /\ (result'[k].decision = "none") <=> (events'[k] = <<>>)
            /\ events'[k] # <<>> =>
                 LET last == events'[k][Len(events'[k])] IN
                 last.attempt = result'[k].attempt /\ last.decision = result'[k].decision
            /\ result'[k].decision = "match" => k \in matchIndex'
      BY <3>2, <3>3, <3>4 DEF ResultIsAnnounced
    <3> QED
      BY <3>2, <3>4, <3>6, <3>7, <3>8 DEF ResultIsAnnounced
  <2>3. ASSUME NEW w \in Workers, NEW c \in FirstClaimed(w), Finalize(w, c)
        PROVE  ResultIsAnnounced'
    <3>1. CASE \E d \in Decisions : CommitResult(w, c, d)
      BY <2>2, <3>1
    <3>2. CASE \/ Complete(w, c) \/ ScheduleRetry(w, c) \/ Fenced(w, c)
               \/ \E o \in {"transient", "permanent"} : FailJob(w, c, o)
      BY <2>1, <3>2 DEF Complete, ScheduleRetry, Fenced, FailJob, redisVars
    <3> QED
      BY <2>3, <3>1, <3>2 DEF Finalize
  <2>4. ASSUME NEW w \in Workers,
               \/ SkipReclaim(w) \/ Reclaim(w) \/ ListDue(w) \/ ClaimOne(w) \/ ClaimTimesOut(w)
               \/ (\E p \in Payloads : PromoteOne(w, p))
               \/ ReadAttempt(w) \/ MarkClaimed(w) \/ MarkRejected(w) \/ AckRejected(w)
               \/ Crash(w) \/ Stop(w) \/ Restart(w)
        PROVE  UNCHANGED <<result, events, matchIndex>>
    BY <2>4 DEF SkipReclaim, Reclaim, ListDue, DueMembers, ClaimOne, Deliver, ClaimTimesOut,
       PromoteOne, Promote, ReadAttempt, WellFormed, NextAttempt,
      MarkClaimed, MarkRejected, AckRejected, Crash, Stop, Restart, redisVars
  <2>5. ASSUME \/ \E p \in Payloads : Enqueue(p) \/ BackoffElapses(p)
               \/ \E e \in Entries : LeaseExpires(e)
               \/ UNCHANGED vars
        PROVE  UNCHANGED <<result, events, matchIndex>>
    BY <2>5 DEF Enqueue, BackoffElapses, LeaseExpires, vars, redisVars
  <2> QED
    BY <2>1, <2>3, <2>4, <2>5 DEF Next, Run
<1> QED
  BY <1>1, <1>2, TypeCorrect, PTL DEF Spec
=============================================================================
