--------------------------- MODULE PrototypeProofs ---------------------------
(***************************************************************************)
(* What the prototype of src/old keeps, for any number of workers and      *)
(* assets, any policy limits and any number of crashes and exceptions: the *)
(* types, and each safety property the run proto_faults checks.            *)
(*                                                                         *)
(* No write to the databases names the worker that makes it, so nothing    *)
(* but the job's own status keeps two workers apart. The argument hence    *)
(* starts from the status: a job somebody works on is not pending, and     *)
(* only pending jobs are claimed. Every other part says what the steps of  *)
(* the one worker of a job have left in the tables and on disk so far.     *)
(***************************************************************************)
EXTENDS Prototype, FiniteSetTheorems, WellFoundedInduction, TLAPS

---------------------------------------------------------------------------
(* The inductive invariant.                                                *)

\* From its claim to the last step that may still raise.
Working(w, a) == mine[w] = a /\ pc[w] \notin {"fail_row", "done"}

Free == {"off", "scan", "requeue", "loop"}
Policies == {"sweep", "sweep_mark", "enforce", "enforce_mark"}
Marks == {"sweep_mark", "enforce_mark"}
AfterVerdict == {"boost", "run", "row", "complete"}
AfterTaskDone == {"match", "sweep_list", "enforce_list"} \union Policies
PastDecision == {"reject_row", "reject_task"} \union AfterVerdict \union AfterTaskDone
InProgress == {"gate", "download", "probe", "pipeline", "decide", "reject_row", "reject_task"}
                \union AfterVerdict

(* What a worker remembers fits where it is.                               *)
LocalsFit ==
  \A w \in Workers :
    /\ pc[w] \in Free <=> mine[w] = NoAsset
    /\ pc[w] \notin Policies => todo[w] = {}
    /\ pc[w] \in Marks => todo[w] # {}
    /\ Cardinality(todo[w]) <= surplus[w]
    /\ pc[w] \in {"decide"} \union AfterVerdict => verdict[w] \in Verdicts
    /\ pc[w] = "match" => verdict[w] = "matched"
    /\ pc[w] \in {"reject_row", "reject_task"} => verdict[w] \in Rejections
    /\ pc[w] \in PastDecision => verdict[w] \in Decided

(* Two workers hold an asset only after an overlap.                        *)
SoleWorker ==
  \A v, w \in Workers, a \in Assets :
    v # w /\ Working(v, a) /\ Working(w, a) => "overlap" \in blame[a]

(* Nobody can claim the job of an asset somebody works on.                 *)
NotPending ==
  \A w \in Workers, a \in Assets :
    Working(w, a) => job[a].status # "pending" \/ "overlap" \in blame[a]

(* Until it is decided, its status is that of its claim.                   *)
OwnersClaimed ==
  \A w \in Workers, a \in Assets :
    Owns(w, a) => job[a].status = "claimed" \/ blame[a] \intersect {"overlap", "raise"} # {}

(* Afterwards, it is the verdict of that worker.                           *)
VerdictIsStatus ==
  \A w \in Workers, a \in Assets :
    mine[w] = a /\ pc[w] \in PastDecision =>
      job[a].status = verdict[w] \/ "overlap" \in blame[a]

(* A row of evidence belongs to a job that is matched and left.            *)
EvidenceOfMatched ==
  \A a \in Assets :
    /\ matches[a] > 1 => blame[a] \intersect {"overlap", "commit"} # {}
    /\ matches[a] > 0 =>
         \/ blame[a] \intersect {"overlap", "commit"} # {}
         \/ job[a].status = "matched" /\ \A w \in Workers : ~Working(w, a)

(* A matched job without evidence is on its way to it, or to a failure.    *)
MatchedHasEvidence ==
  \A a \in Assets :
    job[a].status = "matched" /\ matches[a] = 0 =>
      \/ blame[a] \intersect {"crash", "overlap"} # {}
      \/ \E w \in Workers :
           /\ mine[w] = a
           /\ pc[w] \in AfterVerdict \union {"match", "fail_task", "fail_read", "fail_write"}

Twice == {"overlap", "raise"}
Loose == {"overlap", "raise", "cleared"}

(* The row of a download says what became of the job.                      *)
RowsFollowJobs ==
  \A i \in DOMAIN rows :
    rows[i].path = "local" =>
      \/ job[rows[i].asset].status = rows[i].decision /\ rows[i].decision \in Decided
      \/ blame[rows[i].asset] \intersect Twice # {}

(* A policy deletes what its query asked for.                              *)
ListsFollowRows ==
  \A w \in Workers : \A i \in todo[w] :
    rows[i].path = "local" =>
      \/ rows[i].decision \in NonMatching
      \/ blame[rows[i].asset] \intersect Twice # {}

(* The file is there from the download to the verdict, and stays if that   *)
(* is a match; it is gone before its row is marked, and stays so.          *)
FetchedOnDisk ==
  \A w \in Workers, a \in Assets :
    mine[w] = a /\ pc[w] \in {"probe", "pipeline", "decide"} =>
      a \in files \/ blame[a] \intersect Loose # {}
MatchedOnDisk ==
  \A a \in Assets :
    job[a].status = "matched" => a \in files \/ blame[a] \intersect Loose # {}
DeletedGone ==
  \A i \in DOMAIN rows :
    rows[i].path = "local" /\ rows[i].deleted =>
      rows[i].asset \notin files \/ blame[rows[i].asset] \intersect Loose # {}
MarkedGone ==
  \A w \in Workers :
    pc[w] \in Marks /\ NextRow(w).path = "local" =>
      NextRow(w).asset \notin files \/ blame[NextRow(w).asset] \intersect Loose # {}

(* The task follows the worker of the job, whatever befell it before, ...  *)
TaskOfWorker ==
  \A w \in Workers, a \in Assets :
    Working(w, a) /\ "overlap" \notin blame[a] =>
      /\ pc[w] \in InProgress => task[a] = "in_progress"
      /\ pc[w] \in AfterTaskDone => task[a] = "completed"
      /\ pc[w] \in {"fail_read", "fail_write"} => task[a] \in {"none", "failed"}

(* ... the job itself when nobody works on it and nobody died on it, ...   *)
TaskOfIdle ==
  \A a \in Assets :
    blame[a] \intersect {"overlap", "crash"} = {} /\ (\A w \in Workers : ~Working(w, a)) =>
      \/ task[a] = "none" /\ (job[a].status = "pending" \/ job[a].retries > 0)
      \/ task[a] = "completed"
      \/ task[a] = "failed" /\ job[a].status \in {"pending", "failed"} /\ job[a].retries > 0

(* ... and is completed only on top of a decision.                         *)
TaskDecided ==
  \A a \in Assets :
    "overlap" \notin blame[a] /\ task[a] = "completed" => job[a].status \in Decided

(* The rejected downloads the limit is about, but for those of workers     *)
(* that have not come to an end with theirs, S excepted. Of any workers in *)
(* their policy one has listed last, and all the rest is on its list.      *)
Spotless == {a \in RejectedOnDisk : blame[a] = {}}
Enforcing == {w \in Workers : pc[w] \in {"enforce", "enforce_mark"}}
Counted(S) ==
  {a \in Spotless : \A v \in Workers : pc[v] \in Rejecting /\ v \notin S => mine[v] # a}
OnList(w) == {rows[i].asset : i \in {j \in todo[w] : rows[j].path = "local"}}
LastListBounds ==
  \A S \in SUBSET Enforcing :
    Cardinality(Counted(S)) <= MaxRejected \/ \E w \in S : Counted(S) \subseteq OnList(w)

IInv ==
  /\ TypeOK /\ LocalsFit
  /\ SoleWorker /\ NotPending /\ OwnersClaimed /\ VerdictIsStatus
  /\ EvidenceOfMatched /\ MatchedHasEvidence
  /\ RowsFollowJobs /\ ListsFollowRows
  /\ FetchedOnDisk /\ MatchedOnDisk /\ DeletedGone /\ MarkedGone
  /\ TaskOfWorker /\ TaskOfIdle /\ TaskDecided
  /\ LastListBounds

---------------------------------------------------------------------------
(* Lemmas about the operators of the model.                                *)

(* The decisions, one by one.                                              *)
LEMMA VerdictSet ==
  /\ Verdicts = {"failed", "matched", "no_match_pending_review", "uncertain_manual_review"}
  /\ Decided = {"rejected_non_video", "rejected_too_short", "failed", "matched",
                "no_match_pending_review", "uncertain_manual_review"}
<1>1. Verdicts \subseteq {"failed", "matched", "no_match_pending_review", "uncertain_manual_review"}
  BY DEF Verdicts, FinalStatus
<1>2. /\ FinalStatus(FALSE, FALSE, "low") = "failed"
      /\ FinalStatus(TRUE, TRUE, "high") = "matched"
      /\ FinalStatus(TRUE, TRUE, "low") = "no_match_pending_review"
      /\ FinalStatus(TRUE, TRUE, "middle") = "uncertain_manual_review"
  BY DEF FinalStatus
<1>3. \A s, q \in BOOLEAN, sc \in {"low", "middle", "high"} : FinalStatus(s, q, sc) \in Verdicts
  BY DEF Verdicts
<1>4. {"failed", "matched", "no_match_pending_review", "uncertain_manual_review"} \subseteq Verdicts
  <2>1. "failed" \in Verdicts
    BY <1>2, <1>3
  <2>2. "matched" \in Verdicts
    BY <1>2, <1>3
  <2>3. "no_match_pending_review" \in Verdicts
    BY <1>2, <1>3
  <2>4. "uncertain_manual_review" \in Verdicts
    BY <1>2, <1>3
  <2> QED
    BY <2>1, <2>2, <2>3, <2>4
<1> QED
  BY <1>1, <1>4 DEF Decided, Rejections

(* A set of row numbers that is not empty has a least one.                 *)
LEMMA OldestListed ==
  ASSUME NEW S \in SUBSET Nat, S # {}
  PROVE Min(S) \in S
<1>1. PICK x \in S : \A y \in S : ~(<<y, x>> \in OpToRel(<, Nat))
  BY Zenon, WFMin, NatLessThanWellFounded
<1>2. \A y \in S : x =< y
  <2> SUFFICES ASSUME NEW y \in S PROVE ~(y < x)
    OBVIOUS
  <2> QED
    BY <1>1 DEF OpToRel
<1> QED
  BY <1>2 DEF Min

Rows == [asset : Assets, path : Paths, decision : Statuses \ {"claimed"}, deleted : BOOLEAN]

(* A sequence of rows of the same length.                                  *)
LEMMA SameLength ==
  ASSUME rows \in Seq(Rows), NEW r, r = [i \in DOMAIN rows |-> r[i]],
         \A i \in DOMAIN rows : r[i] \in Rows
  PROVE r \in Seq(Rows) /\ DOMAIN r = DOMAIN rows
<1>1. PICK n \in Nat : DOMAIN rows = 1 .. n
  OBVIOUS
<1>2. r \in [1 .. n -> Rows]
  BY <1>1
<1> QED
  BY <1>1, <1>2

(* record_asset changes the decision of rows it finds, or adds one.        *)
Updated(new, old, a, path, decision) ==
  /\ new.asset = old.asset /\ new.path = old.path /\ new.deleted = old.deleted
  /\ \/ new.decision = old.decision
     \/ old.asset = a /\ old.path = path /\ new.decision = decision
LEMMA UpsertRows ==
  ASSUME rows \in Seq(Rows), NEW a \in Assets, NEW path \in Paths,
         NEW decision \in Statuses \ {"claimed"},
         NEW r, r = Upsert(a, path, decision)
  PROVE /\ r \in Seq(Rows) /\ DOMAIN rows \subseteq DOMAIN r
        /\ \A i \in DOMAIN rows : Updated(r[i], rows[i], a, path, decision)
        /\ \A i \in DOMAIN r \ DOMAIN rows : r[i] = Row(a, path, decision)
<1>1. CASE \E i \in DOMAIN rows : rows[i].asset = a /\ rows[i].path = path
  <2>1. r = [i \in DOMAIN rows |-> IF rows[i].asset = a /\ rows[i].path = path
                                   THEN [rows[i] EXCEPT !.decision = decision] ELSE rows[i]]
    BY <1>1 DEF Upsert
  <2>2. \A i \in DOMAIN rows : r[i] \in Rows
    <3> SUFFICES ASSUME NEW i \in DOMAIN rows PROVE r[i] \in Rows
      OBVIOUS
    <3>1. rows[i] \in Rows
      OBVIOUS
    <3> QED
      BY <2>1, <3>1 DEF Rows
  <2>3. r \in Seq(Rows) /\ DOMAIN r = DOMAIN rows
    BY <2>1, <2>2, SameLength
  <2>4. ASSUME NEW i \in DOMAIN rows PROVE Updated(r[i], rows[i], a, path, decision)
    <3>1. rows[i] \in Rows
      OBVIOUS
    <3>2. CASE rows[i].asset = a /\ rows[i].path = path
      <4>1. r[i] = [rows[i] EXCEPT !.decision = decision]
        BY <2>1, <3>2
      <4> QED
        BY <3>1, <3>2, <4>1 DEF Rows, Updated
    <3>3. CASE ~(rows[i].asset = a /\ rows[i].path = path)
      BY <2>1, <3>3 DEF Updated
    <3> QED
      BY <3>2, <3>3
  <2> QED
    BY <2>3, <2>4
<1>2. CASE ~\E i \in DOMAIN rows : rows[i].asset = a /\ rows[i].path = path
  <2>1. r = Append(rows, Row(a, path, decision))
    BY <1>2 DEF Upsert
  <2>2. Row(a, path, decision) \in Rows
    BY DEF Row, Rows
  <2>3. /\ r \in Seq(Rows) /\ DOMAIN rows \subseteq DOMAIN r
        /\ \A i \in DOMAIN rows : r[i] = rows[i]
        /\ \A i \in DOMAIN r \ DOMAIN rows : r[i] = Row(a, path, decision)
    BY <2>1, <2>2
  <2> QED
    BY <2>3 DEF Updated
<1> QED
  BY <1>1, <1>2

(* Row numbers are natural numbers, and there are finitely many.           *)
LEMMA RowNumbers ==
  ASSUME rows \in Seq(Rows)
  PROVE /\ DOMAIN rows \subseteq Nat /\ IsFiniteSet(DOMAIN rows)
        /\ \A S \in SUBSET DOMAIN rows : IsFiniteSet(S) /\ Cardinality(S) \in Nat
<1>1. DOMAIN rows = 1 .. Len(rows) /\ Len(rows) \in Nat
  OBVIOUS
<1>2. IsFiniteSet(DOMAIN rows)
  BY <1>1, FS_Interval
<1> QED
  BY <1>1, <1>2, FS_Subset, FS_CardinalityType

(* update_job_status sets the status of one job.                           *)
LEMMA StatusSet ==
  ASSUME TypeOK, NEW a \in Assets, NEW s \in Statuses, job' = SetStatus(a, s)
  PROVE /\ job' \in [Assets -> [status : Statuses, retries : Nat]]
        /\ job'[a].status = s /\ job'[a].retries = job[a].retries
        /\ \A b \in Assets : b # a => job'[b] = job[b]
<1>1. job \in [Assets -> [status : Statuses, retries : Nat]]
  BY DEF TypeOK
<1>2. job' = [job EXCEPT ![a] = [job[a] EXCEPT !.status = s]]
  BY DEF SetStatus
<1>3. job[a] \in [status : Statuses, retries : Nat]
  BY <1>1
<1>4. [job[a] EXCEPT !.status = s] \in [status : Statuses, retries : Nat]
  BY <1>3
<1> QED
  BY <1>1, <1>2, <1>3, <1>4

---------------------------------------------------------------------------
(* The kinds of steps, as a job and its worker see them.                   *)

StepOf(w) ==
  \/ \E resume \in BOOLEAN : Start(w, resume)
  \/ Work(w) \/ Stop(w) \/ ClearAssets(w)
  \/ \E part \in BOOLEAN : Crash(w, part)

Others(w) ==
  \A v \in Workers \ {w} : pc'[v] = pc[v] /\ mine'[v] = mine[v] /\ verdict'[v] = verdict[v]
KeepsStatus(a) == job'[a].status = job[a].status
KeepsJobs == \A a \in Assets : KeepsStatus(a)
KeepsOthers(w) == \A a \in Assets \ {mine[w]} : KeepsStatus(a)
KeepsMine(w) == mine'[w] = mine[w]

\* The steps of a worker that has no asset.
IsFree(w) == KeepsMine(w) /\ pc[w] \in Free /\ pc'[w] \in Free /\ KeepsJobs

GivesBack(w) ==
  /\ KeepsMine(w) /\ pc[w] \in Free /\ pc'[w] \in Free
  /\ \A a \in Assets :
       \/ KeepsStatus(a)
       \/ /\ job'[a].status = "pending"
          /\ \/ job[a].status = "claimed" /\ ~Held(a)
             \/ "overlap" \in blame'[a]

Claims(w) ==
  \E a \in Assets :
    /\ mine'[w] = a /\ pc[w] \in Free /\ pc'[w] = "start"
    /\ job[a].status = "pending" /\ job'[a].status = "claimed"
    /\ \A b \in Assets \ {a} : KeepsStatus(b)

\* On the way to the row of evidence, or to the status of a failure.
ToEvidence == AfterVerdict \union {"match", "fail_task", "fail_read", "fail_write"}

\* A step of process_job or of the handler of its exceptions.
Ended == {"fail_row", "done"}
GoesOn(w) ==
  /\ KeepsMine(w) /\ KeepsJobs
  /\ pc[w] \notin Free \union Ended /\ pc'[w] \notin Free \union Ended
  /\ pc[w] \in Undecided => pc'[w] \in Undecided
  /\ pc'[w] \in Undecided => pc[w] \in Undecided \/ "raise" \in blame'[mine[w]]
  /\ pc'[w] \in PastDecision => pc[w] \in PastDecision /\ verdict'[w] = verdict[w]
  /\ pc[w] \in ToEvidence =>
       pc'[w] \in ToEvidence \/ (pc[w] = "complete" /\ verdict[w] # "matched")

Decides(w) ==
  /\ KeepsMine(w) /\ KeepsOthers(w)
  /\ pc[w] \in Undecided \ {"fail_task", "fail_read", "fail_write"} /\ pc'[w] \in PastDecision
  /\ job'[mine[w]].status = verdict'[w] /\ verdict'[w] \in Decided
  /\ IF pc[w] = "decide" THEN pc'[w] \in ToEvidence ELSE verdict'[w] # "matched"

Fails(w) ==
  /\ KeepsMine(w) /\ KeepsOthers(w)
  /\ pc[w] = "fail_write" /\ pc'[w] = "fail_row"
  /\ job'[mine[w]].status \in {"pending", "failed"}

\* It comes to the end of the asset, or dies.
Ends(w) ==
  /\ KeepsJobs /\ pc'[w] \in Free \union {"done"}
  /\ IF pc'[w] = "done" THEN KeepsMine(w) /\ pc[w] \notin Undecided ELSE mine'[w] = NoAsset
  /\ \/ "crash" \in blame'[mine[w]]
     \/ /\ pc[w] \notin Undecided
        /\ pc[w] \in ToEvidence =>
             \/ pc[w] = "complete" /\ verdict[w] # "matched"
             \/ matches'[mine[w]] > 0
  /\ pc[w] \in Free => pc'[w] \in Free

\* Nothing is forgotten of what befell an asset, nor a row of evidence.
Remembers ==
  \A a \in Assets :
    /\ blame[a] \subseteq blame'[a]
    /\ \/ matches'[a] = matches[a]
       \/ /\ matches'[a] = matches[a] + 1
          /\ \/ "commit" \in blame'[a]
             \/ \E w \in Workers : mine[w] = a /\ pc[w] = "match" /\ pc'[w] = "done" /\ KeepsJobs

Kind(w) ==
  IsFree(w) \/ GivesBack(w) \/ Claims(w) \/ GoesOn(w) \/ Decides(w) \/ Fails(w) \/ Ends(w)

(* The fault that befell some assets is recorded, and nothing forgotten.   *)
LEMMA BlameAdds ==
  ASSUME TypeOK, NEW as, NEW why, Blame(as, why)
  PROVE \A a \in Assets : blame[a] \subseteq blame'[a] /\ (a \in as => why \in blame'[a])
  BY DEF TypeOK, Blame

(* Where a worker is says what it has.                                     *)
LEMMA HasAsset ==
  ASSUME TypeOK, LocalsFit, NEW w \in Workers, pc[w] \notin Free
  PROVE mine[w] \in Assets /\ mine[w] # NoAsset
  BY PrototypeAssumption DEF TypeOK, LocalsFit

(* A rejection decides the job of its worker.                              *)
LEMMA RejectDecides ==
  ASSUME TypeOK, LocalsFit, NEW w \in Workers, pc[w] \in {"gate", "probe"},
         NEW decision \in Rejections, Reject(w, decision), UNCHANGED <<mine, blame, matches>>
  PROVE Others(w) /\ Remembers /\ Decides(w)
<1>1. mine[w] \in Assets
  BY HasAsset DEF Free
<1>2. decision \in Statuses /\ decision \in Decided /\ decision # "matched"
  BY DEF Statuses, Decided, Rejections
<1>3. /\ job'[mine[w]].status = decision
      /\ \A b \in Assets : b # mine[w] => job'[b] = job[b]
  BY <1>1, <1>2, StatusSet DEF Reject
<1>4. verdict'[w] = decision /\ pc'[w] = "reject_row"
      /\ \A v \in Workers \ {w} : pc'[v] = pc[v] /\ verdict'[v] = verdict[v]
  BY DEF Reject, Goto, TypeOK
<1>5. Others(w) /\ Remembers
  BY <1>4 DEF Others, Remembers
<1>6. Decides(w)
  BY <1>2, <1>3, <1>4 DEF Decides, KeepsMine, KeepsOthers, KeepsStatus, Undecided, PastDecision
<1> QED
  BY <1>5, <1>6

(* Every step of a worker is of one of the kinds.                          *)
LEMMA StepKinds ==
  ASSUME IInv, NEW w \in Workers, StepOf(w)
  PROVE Others(w) /\ Remembers /\ Kind(w)
<1> USE PrototypeAssumption
<1>1. /\ pc \in [Workers -> PCs] /\ mine \in [Workers -> Assets \union {NoAsset}]
      /\ verdict \in [Workers -> Decided \union {"pending"}]
      /\ blame \in [Assets -> SUBSET {"overlap", "raise", "commit", "crash", "cleared", "kept"}]
      /\ matches \in [Assets -> Nat] /\ job \in [Assets -> [status : Statuses, retries : Nat]]
      /\ (pc[w] \in Free <=> mine[w] = NoAsset)
  BY DEF IInv, TypeOK, LocalsFit
<1>2. ASSUME NEW resume \in BOOLEAN, Start(w, resume) PROVE Others(w) /\ Remembers /\ Kind(w)
  BY <1>1, <1>2 DEF Start, Goto, tables, history, Others, Remembers, Kind, IsFree, KeepsJobs,
     KeepsMine, KeepsStatus, Free, Undecided, Ended, PastDecision, AfterVerdict, AfterTaskDone,
     Policies, ToEvidence
<1>3. ASSUME NEW old \in SUBSET Assets, Scan(w, old) PROVE Others(w) /\ Remembers /\ Kind(w)
  BY <1>1, <1>3 DEF Scan, Goto, tables, history, Others, Remembers, Kind, IsFree, KeepsJobs,
     KeepsMine, KeepsStatus, Free, Undecided, Ended, PastDecision, AfterVerdict, AfterTaskDone,
     Policies, ToEvidence
<1>4. ASSUME Requeue(w) PROVE Others(w) /\ Remembers /\ Kind(w)
  BY <1>1, <1>4 DEF Requeue, Goto, Blame, Others, Remembers, Kind, GivesBack, KeepsJobs,
     KeepsMine, KeepsStatus, Free, Undecided, Ended, PastDecision, AfterVerdict, AfterTaskDone,
     Policies, ToEvidence
<1>5. ASSUME NEW b \in Assets, Claim(w, b) PROVE Others(w) /\ Remembers /\ Kind(w)
  BY <1>1, <1>5 DEF Claim, Goto, SetStatus, MayClaim, Claimable, Others, Remembers, Kind, Claims,
     KeepsJobs, KeepsMine, KeepsStatus, Free, Undecided, Ended, PastDecision, AfterVerdict,
     AfterTaskDone, Policies, ToEvidence
<1>6. ASSUME Stop(w) PROVE Others(w) /\ Remembers /\ Kind(w)
  BY <1>1, <1>6 DEF Stop, Goto, tables, history, Others, Remembers, Kind, IsFree, KeepsJobs,
     KeepsMine, KeepsStatus, Free, Undecided, Ended, PastDecision, AfterVerdict, AfterTaskDone,
     Policies, ToEvidence
<1>7. ASSUME StartTask(w) PROVE Others(w) /\ Remembers /\ Kind(w)
  BY <1>1, <1>7 DEF StartTask, Goto, history, Others, Remembers, Kind, GoesOn, KeepsJobs,
     KeepsMine, KeepsStatus, Free, Undecided, Ended, PastDecision, AfterVerdict, AfterTaskDone,
     Policies, ToEvidence
<1>8. ASSUME NEW media \in Media, Gate(w, media) PROVE Others(w) /\ Remembers /\ Kind(w)
  <2>1. CASE RejectsNonVideo(media)
    <3>1. Reject(w, "rejected_non_video") /\ pc[w] = "gate" /\ UNCHANGED <<mine, blame, matches>>
      BY <1>8, <2>1 DEF Gate, history
    <3>2. "rejected_non_video" \in Rejections
      BY DEF Rejections
    <3> QED
      BY <3>1, <3>2, RejectDecides DEF IInv, Kind
  <2>2. CASE ~RejectsNonVideo(media)
    <3>1. pc' = [pc EXCEPT ![w] = "download"] /\ pc[w] = "gate"
          /\ UNCHANGED <<job, mine, verdict, blame, matches>>
      BY <1>8, <2>2 DEF Gate, Goto, history
    <3>2. Others(w) /\ Remembers
      BY <1>1, <3>1 DEF Others, Remembers
    <3>3. GoesOn(w)
      BY <1>1, <3>1
         DEF GoesOn, KeepsJobs, KeepsMine, KeepsStatus, Free, Undecided, Ended, PastDecision,
         AfterVerdict, AfterTaskDone, Policies, ToEvidence
    <3> QED
      BY <3>2, <3>3 DEF Kind
  <2> QED
    BY <2>1, <2>2
<1>9. ASSUME NEW transfer \in Transfers, Download(w, transfer)
      PROVE Others(w) /\ Remembers /\ Kind(w)
  BY <1>1, <1>9 DEF Download, Goto, tables, history, Others, Remembers, Kind, GoesOn, KeepsJobs,
     KeepsMine, KeepsStatus, Free, Undecided, Ended, PastDecision, AfterVerdict, AfterTaskDone,
     Policies, ToEvidence
<1>10. ASSUME NEW duration \in Durations, Probe(w, duration) PROVE Others(w) /\ Remembers /\ Kind(w)
  <2>1. CASE TooShort(duration)
    <3>1. Reject(w, "rejected_too_short") /\ pc[w] = "probe" /\ UNCHANGED <<mine, blame, matches>>
      BY <1>10, <2>1 DEF Probe, history
    <3>2. "rejected_too_short" \in Rejections
      BY DEF Rejections
    <3> QED
      BY <3>1, <3>2, RejectDecides DEF IInv, Kind
  <2>2. CASE ~TooShort(duration)
    <3>1. pc' = [pc EXCEPT ![w] = "pipeline"] /\ pc[w] = "probe"
          /\ UNCHANGED <<job, mine, verdict, blame, matches>>
      BY <1>10, <2>2 DEF Probe, Goto, history
    <3>2. Others(w) /\ Remembers
      BY <1>1, <3>1 DEF Others, Remembers
    <3>3. GoesOn(w)
      BY <1>1, <3>1
         DEF GoesOn, KeepsJobs, KeepsMine, KeepsStatus, Free, Undecided, Ended, PastDecision,
         AfterVerdict, AfterTaskDone, Policies, ToEvidence
    <3> QED
      BY <3>2, <3>3 DEF Kind
  <2> QED
    BY <2>1, <2>2
<1>11. ASSUME RejectRow(w) PROVE Others(w) /\ Remembers /\ Kind(w)
  BY <1>1, <1>11 DEF RejectRow, Goto, local, history, Others, Remembers, Kind, GoesOn, KeepsJobs,
     KeepsMine, KeepsStatus, Free, Undecided, Ended, PastDecision, AfterVerdict, AfterTaskDone,
     Policies, ToEvidence
<1>12. ASSUME RejectTask(w) PROVE Others(w) /\ Remembers /\ Kind(w)
  BY <1>1, <1>12 DEF RejectTask, Goto, history, Others, Remembers, Kind, GoesOn, KeepsJobs,
     KeepsMine, KeepsStatus, Free, Undecided, Ended, PastDecision, AfterVerdict, AfterTaskDone,
     Policies, ToEvidence
<1>13. ASSUME NEW v \in Verdicts, Pipeline(w, v) PROVE Others(w) /\ Remembers /\ Kind(w)
  BY <1>1, <1>13 DEF Pipeline, Goto, tables, history, Others, Remembers, Kind, GoesOn, KeepsJobs,
     KeepsMine, KeepsStatus, Free, Undecided, Ended, PastDecision, AfterVerdict, AfterTaskDone,
     Policies, ToEvidence
<1>14. ASSUME Decide(w) PROVE Others(w) /\ Remembers /\ Kind(w)
  <2>1. mine[w] \in Assets /\ verdict[w] \in Decided /\ verdict[w] \in Statuses
    BY <1>14, HasAsset, VerdictSet DEF Decide, IInv, LocalsFit, Free, Statuses
  <2>2. /\ job'[mine[w]].status = verdict[w]
        /\ \A b \in Assets : b # mine[w] => job'[b] = job[b]
    BY <1>14, <2>1, StatusSet DEF Decide, IInv
  <2>3. /\ pc[w] = "decide" /\ pc'[w] \in {"boost", "run"}
        /\ \A v \in Workers \ {w} : pc'[v] = pc[v]
        /\ UNCHANGED <<mine, verdict, blame, matches>>
    BY <1>14, <1>1 DEF Decide, Goto, history
  <2>4. Others(w) /\ Remembers
    BY <2>3 DEF Others, Remembers
  <2>5. Decides(w)
    BY <2>1, <2>2, <2>3
       DEF Decides, KeepsMine, KeepsOthers, KeepsStatus, Undecided, PastDecision, AfterVerdict,
       ToEvidence
  <2> QED
    BY <2>4, <2>5 DEF Kind
<1>15. ASSUME Boost(w) PROVE Others(w) /\ Remembers /\ Kind(w)
  BY <1>1, <1>15 DEF Boost, Goto, history, Others, Remembers, Kind, GoesOn, KeepsJobs, KeepsMine,
     KeepsStatus, Free, Undecided, Ended, PastDecision, AfterVerdict, AfterTaskDone, Policies,
     ToEvidence
<1>16. ASSUME CreateRun(w) PROVE Others(w) /\ Remembers /\ Kind(w)
  BY <1>1, <1>16 DEF CreateRun, Goto, tables, history, Others, Remembers, Kind, GoesOn, KeepsJobs,
     KeepsMine, KeepsStatus, Free, Undecided, Ended, PastDecision, AfterVerdict, AfterTaskDone,
     Policies, ToEvidence
<1>17. ASSUME RecordRow(w) PROVE Others(w) /\ Remembers /\ Kind(w)
  BY <1>1, <1>17 DEF RecordRow, Goto, local, history, Others, Remembers, Kind, GoesOn, KeepsJobs,
     KeepsMine, KeepsStatus, Free, Undecided, Ended, PastDecision, AfterVerdict, AfterTaskDone,
     Policies, ToEvidence
<1>18. ASSUME CompleteTask(w) PROVE Others(w) /\ Remembers /\ Kind(w)
  <2>1. /\ pc[w] = "complete" /\ UNCHANGED <<job, mine, verdict, blame, matches>>
        /\ \A v \in Workers \ {w} : pc'[v] = pc[v]
        /\ \/ verdict[w] = "matched" /\ pc'[w] = "match"
           \/ verdict[w] # "matched" /\ pc'[w] \in {"done", "sweep_list"}
    BY <1>18, <1>1 DEF CompleteTask, Goto, AfterTask, history
  <2>2. Others(w) /\ Remembers
    BY <2>1 DEF Others, Remembers
  <2>3. CASE pc'[w] # "done"
    <3>1. GoesOn(w)
      BY <2>1, <2>3
         DEF GoesOn, KeepsJobs, KeepsMine, KeepsStatus, Free, Undecided, Ended, PastDecision,
         AfterVerdict, AfterTaskDone, ToEvidence
    <3> QED
      BY <2>2, <3>1 DEF Kind
  <2>4. CASE pc'[w] = "done"
    <3>1. Ends(w)
      BY <2>1, <2>4 DEF Ends, KeepsJobs, KeepsMine, KeepsStatus, Free, Undecided
    <3> QED
      BY <2>2, <3>1 DEF Kind
  <2> QED
    BY <2>3, <2>4
<1>19. ASSUME RecordMatch(w) PROVE Others(w) /\ Remembers /\ Kind(w)
  BY <1>1, <1>19 DEF RecordMatch, Goto, history, Others, Remembers, Kind, Ends, KeepsJobs,
     KeepsMine, KeepsStatus, Free, Undecided, Ended, PastDecision, AfterVerdict, AfterTaskDone,
     Policies, ToEvidence
<1>20. ASSUME List(w) PROVE Others(w) /\ Remembers /\ Kind(w)
  BY <1>1, <1>20 DEF List, Goto, tables, history, Others, Remembers, Kind, GoesOn, KeepsJobs,
     KeepsMine, KeepsStatus, Free, Undecided, Ended, PastDecision, AfterVerdict, AfterTaskDone,
     Policies, ToEvidence
<1>21. ASSUME Swept(w) PROVE Others(w) /\ Remembers /\ Kind(w)
  BY <1>1, <1>21 DEF Swept, Goto, tables, history, Others, Remembers, Kind, Ends, KeepsJobs,
     KeepsMine, KeepsStatus, Free, Undecided, Ended, PastDecision, AfterVerdict, AfterTaskDone,
     Policies, ToEvidence
<1>22. ASSUME Unlink(w) PROVE Others(w) /\ Remembers /\ Kind(w)
  BY <1>1, <1>22 DEF Unlink, Goto, Skip, tables, history, Others, Remembers, Kind, GoesOn,
     KeepsJobs, KeepsMine, KeepsStatus, Free, Undecided, Ended, PastDecision, AfterVerdict,
     AfterTaskDone, Policies, ToEvidence
<1>23. ASSUME UnlinkFails(w) PROVE Others(w) /\ Remembers /\ Kind(w)
  BY <1>1, <1>23 DEF UnlinkFails, Skip, Fault, Blame, tables, Others, Remembers, Kind, GoesOn,
     KeepsJobs, KeepsMine, KeepsStatus, Free, Undecided, Ended, PastDecision, AfterVerdict,
     AfterTaskDone, Policies, ToEvidence
<1>24. ASSUME MarkDeleted(w) PROVE Others(w) /\ Remembers /\ Kind(w)
  BY <1>1, <1>24 DEF MarkDeleted, Goto, Skip, history, Others, Remembers, Kind, GoesOn, KeepsJobs,
     KeepsMine, KeepsStatus, Free, Undecided, Ended, PastDecision, AfterVerdict, AfterTaskDone,
     Policies, ToEvidence
<1>25. ASSUME MarkFails(w) PROVE Others(w) /\ Remembers /\ Kind(w)
  BY <1>1, <1>25 DEF MarkFails, Goto, Skip, Fault, Blame, tables, local, Others, Remembers, Kind,
     GoesOn, KeepsJobs, KeepsMine, KeepsStatus, Free, Undecided, Ended, PastDecision,
     AfterVerdict, AfterTaskDone, Policies, ToEvidence
<1>26. ASSUME Raise(w) PROVE Others(w) /\ Remembers /\ Kind(w)
  <2>1. /\ pc[w] \in Raising /\ pc' = [pc EXCEPT ![w] = "fail_task"]
        /\ UNCHANGED <<job, mine, verdict, matches>>
        /\ Blame(IF pc[w] \in Undecided THEN {} ELSE {mine[w]}, "raise")
    BY <1>26 DEF Raise, Goto, tables
  <2>2. \A a \in Assets :
          /\ blame[a] \subseteq blame'[a]
          /\ pc[w] \notin Undecided /\ a = mine[w] => "raise" \in blame'[a]
    BY <2>1, BlameAdds DEF IInv
  <2>3. Others(w) /\ Remembers
    BY <1>1, <2>1, <2>2 DEF Others, Remembers
  <2>4. mine[w] \in Assets
    BY <2>1, HasAsset DEF IInv, Raising, Free
  <2>5. GoesOn(w)
    BY <1>1, <2>1, <2>2, <2>4
       DEF GoesOn, KeepsJobs, KeepsMine, KeepsStatus, Free, Undecided, Ended, Raising,
       PastDecision,
       AfterVerdict, AfterTaskDone, Policies, ToEvidence
  <2> QED
    BY <2>3, <2>5 DEF Kind
<1>27. ASSUME FailTask(w) PROVE Others(w) /\ Remembers /\ Kind(w)
  BY <1>1, <1>27 DEF FailTask, Goto, history, Others, Remembers, Kind, GoesOn, KeepsJobs,
     KeepsMine, KeepsStatus, Free, Undecided, Ended, PastDecision, AfterVerdict, AfterTaskDone,
     Policies, ToEvidence
<1>28. ASSUME FailRead(w) PROVE Others(w) /\ Remembers /\ Kind(w)
  BY <1>1, <1>28 DEF FailRead, Goto, tables, history, Others, Remembers, Kind, GoesOn, KeepsJobs,
     KeepsMine, KeepsStatus, Free, Undecided, Ended, PastDecision, AfterVerdict, AfterTaskDone,
     Policies, ToEvidence
<1>29. ASSUME FailWrite(w) PROVE Others(w) /\ Remembers /\ Kind(w)
  <2>1. PICK s \in {"pending", "failed"} :
          /\ job' = [job EXCEPT ![mine[w]] = [status |-> s, retries |-> seen[w] + 1]]
          /\ verdict' = [verdict EXCEPT ![w] = s]
    BY <1>29 DEF FailWrite, AfterFailure
  <2>2. pc[w] = "fail_write" /\ pc' = [pc EXCEPT ![w] = "fail_row"]
        /\ UNCHANGED <<mine, blame, matches>>
    BY <1>29 DEF FailWrite, Goto, history
  <2>3. mine[w] \in Assets
    BY <2>2, HasAsset DEF IInv, Free
  <2>4. Others(w) /\ Remembers
    BY <1>1, <2>1, <2>2 DEF Others, Remembers
  <2>5. Fails(w)
    BY <1>1, <2>1, <2>2, <2>3 DEF Fails, KeepsMine, KeepsOthers, KeepsStatus
  <2> QED
    BY <2>4, <2>5 DEF Kind
<1>30. ASSUME FailRow(w) PROVE Others(w) /\ Remembers /\ Kind(w)
  BY <1>1, <1>30 DEF FailRow, Goto, history, Others, Remembers, Kind, Ends, KeepsJobs, KeepsMine,
     KeepsStatus, Free, Undecided, Ended, PastDecision, AfterVerdict, AfterTaskDone, Policies,
     ToEvidence
<1>31. ASSUME Done(w) PROVE Others(w) /\ Remembers /\ Kind(w)
  BY <1>1, <1>31 DEF Done, Goto, tables, history, Others, Remembers, Kind, Ends, KeepsJobs,
     KeepsMine, KeepsStatus, Free, Undecided, Ended, PastDecision, AfterVerdict, AfterTaskDone,
     Policies, ToEvidence
<1>32. ASSUME NEW part \in BOOLEAN, Crash(w, part) PROVE Others(w) /\ Remembers /\ Kind(w)
  BY <1>1, <1>32 DEF Crash, Fault, Blame, tables, Others, Remembers, Kind, Ends, KeepsJobs,
     KeepsMine, KeepsStatus, Free, Undecided, Ended, PastDecision, AfterVerdict, AfterTaskDone,
     Policies, ToEvidence
<1>33. ASSUME ClearAssets(w) PROVE Others(w) /\ Remembers /\ Kind(w)
  BY <1>1, <1>33 DEF ClearAssets, Fault, Blame, local, Others, Remembers, Kind, IsFree, KeepsJobs,
     KeepsMine, KeepsStatus, Free, Undecided, Ended, PastDecision, AfterVerdict, AfterTaskDone,
     Policies, ToEvidence
<1>34. ASSUME MatchCommitFails(w) PROVE Others(w) /\ Remembers /\ Kind(w)
  <2>1. /\ pc[w] = "match" /\ pc' = [pc EXCEPT ![w] = "fail_task"]
        /\ matches' = [matches EXCEPT ![mine[w]] = @ + 1]
        /\ blame' = [blame EXCEPT ![mine[w]] = @ \union {"raise", "commit"}]
        /\ UNCHANGED <<job, mine, verdict>>
    BY <1>34 DEF MatchCommitFails, Goto
  <2>2. mine[w] \in Assets
    BY <2>1, HasAsset DEF IInv, Free
  <2>3. /\ blame'[mine[w]] = blame[mine[w]] \union {"raise", "commit"}
        /\ \A a \in Assets \ {mine[w]} : blame'[a] = blame[a] /\ matches'[a] = matches[a]
        /\ matches'[mine[w]] = matches[mine[w]] + 1
    BY <1>1, <2>1, <2>2
  <2>4. Others(w) /\ Remembers
    BY <1>1, <2>1, <2>2, <2>3 DEF Others, Remembers
  <2>5. GoesOn(w)
    BY <1>1, <2>1, <2>3
       DEF GoesOn, KeepsJobs, KeepsMine, KeepsStatus, Free, Undecided, Ended, PastDecision,
       AfterVerdict, AfterTaskDone, Policies, ToEvidence
  <2> QED
    BY <2>4, <2>5 DEF Kind
<1> QED
  BY <1>2, <1>3, <1>4, <1>5, <1>6, <1>7, <1>8, <1>9, <1>10, <1>11, <1>12, <1>13, <1>14, <1>15,
     <1>16, <1>17, <1>18, <1>19, <1>20, <1>21, <1>22, <1>23, <1>24, <1>25, <1>26, <1>27, <1>28,
     <1>29, <1>30, <1>31, <1>32, <1>33, <1>34 DEF StepOf, Work

(* Working on an asset stays exclusive.                                    *)
LEMMA SoleWorkerKeeps ==
  ASSUME IInv, NEW w \in Workers, Others(w), Remembers, Kind(w)
  PROVE SoleWorker'
<1>1. /\ NoAsset \notin Assets
      /\ \A v \in Workers :
           mine[v] \in Assets \union {NoAsset} /\ (pc[v] \in Free <=> mine[v] = NoAsset)
      /\ \A a \in Assets : matches[a] \in Nat
  BY PrototypeAssumption DEF IInv, TypeOK, LocalsFit
<1>2. CASE IsFree(w)
  BY <1>1, <1>2 DEF Others, Remembers, IsFree, KeepsJobs, KeepsMine, KeepsStatus, IInv,
     SoleWorker, NotPending, Working, Free, Held, Ended, Undecided, PastDecision, AfterVerdict,
     AfterTaskDone, Policies
<1>3. CASE GivesBack(w)
  BY <1>1, <1>3 DEF Others, Remembers, GivesBack, KeepsMine, KeepsStatus, IInv, SoleWorker,
     NotPending, Working, Free, Held, Ended, Undecided, PastDecision, AfterVerdict, AfterTaskDone,
     Policies
<1>4. CASE Claims(w)
  BY <1>1, <1>4 DEF Others, Remembers, Claims, KeepsMine, KeepsStatus, IInv, SoleWorker,
     NotPending, Working, Free, Held, Ended, Undecided, PastDecision, AfterVerdict, AfterTaskDone,
     Policies
<1>5. CASE GoesOn(w)
  BY <1>1, <1>5 DEF Others, Remembers, GoesOn, KeepsJobs, KeepsMine, KeepsStatus, IInv,
     SoleWorker, NotPending, Working, Free, Held, Ended, Undecided, PastDecision, AfterVerdict,
     AfterTaskDone, Policies
<1>6. CASE Decides(w)
  BY <1>1, <1>6 DEF Others, Remembers, Decides, KeepsOthers, KeepsMine, KeepsStatus, IInv,
     SoleWorker, NotPending, Working, Free, Held, Ended, Undecided, PastDecision, AfterVerdict,
     AfterTaskDone, Policies
<1>7. CASE Fails(w)
  BY <1>1, <1>7 DEF Others, Remembers, Fails, KeepsOthers, KeepsMine, KeepsStatus, IInv,
     SoleWorker, NotPending, Working, Free, Held, Ended, Undecided, PastDecision, AfterVerdict,
     AfterTaskDone, Policies
<1>8. CASE Ends(w)
  BY <1>1, <1>8 DEF Others, Remembers, Ends, KeepsJobs, KeepsMine, KeepsStatus, IInv, SoleWorker,
     NotPending, Working, Free, Held, Ended, Undecided, PastDecision, AfterVerdict, AfterTaskDone,
     Policies
<1> QED
  BY <1>2, <1>3, <1>4, <1>5, <1>6, <1>7, <1>8 DEF Kind

(* A job becomes pending under its worker only by an overlap.              *)
LEMMA NotPendingKeeps ==
  ASSUME IInv, NEW w \in Workers, Others(w), Remembers, Kind(w)
  PROVE NotPending'
<1>1. /\ NoAsset \notin Assets
      /\ \A v \in Workers :
           mine[v] \in Assets \union {NoAsset} /\ (pc[v] \in Free <=> mine[v] = NoAsset)
      /\ \A a \in Assets : matches[a] \in Nat
  BY PrototypeAssumption DEF IInv, TypeOK, LocalsFit
<1>2. CASE IsFree(w)
  BY <1>1, <1>2 DEF Others, Remembers, IsFree, KeepsJobs, KeepsMine, KeepsStatus, IInv,
     NotPending, SoleWorker, Working, Free, Held, Ended, Undecided, PastDecision, AfterVerdict,
     AfterTaskDone, Policies
<1>3. CASE GivesBack(w)
  BY <1>1, <1>3 DEF Others, Remembers, GivesBack, KeepsMine, KeepsStatus, IInv, NotPending,
     SoleWorker, Working, Free, Held, Ended, Undecided, PastDecision, AfterVerdict, AfterTaskDone,
     Policies
<1>4. CASE Claims(w)
  BY <1>1, <1>4 DEF Others, Remembers, Claims, KeepsMine, KeepsStatus, IInv, NotPending,
     SoleWorker, Working, Free, Held, Ended, Undecided, PastDecision, AfterVerdict, AfterTaskDone,
     Policies
<1>5. CASE GoesOn(w)
  BY <1>1, <1>5 DEF Others, Remembers, GoesOn, KeepsJobs, KeepsMine, KeepsStatus, IInv,
     NotPending, SoleWorker, Working, Free, Held, Ended, Undecided, PastDecision, AfterVerdict,
     AfterTaskDone, Policies
<1>6. CASE Decides(w)
  BY <1>1, <1>6, VerdictSet DEF Others, Remembers, Decides, KeepsOthers, KeepsMine, KeepsStatus,
     IInv, NotPending, SoleWorker, Working, Free, Held, Ended, Undecided, PastDecision,
     AfterVerdict, AfterTaskDone, Policies
<1>7. CASE Fails(w)
  BY <1>1, <1>7 DEF Others, Remembers, Fails, KeepsOthers, KeepsMine, KeepsStatus, IInv,
     NotPending, SoleWorker, Working, Free, Held, Ended, Undecided, PastDecision, AfterVerdict,
     AfterTaskDone, Policies
<1>8. CASE Ends(w)
  BY <1>1, <1>8 DEF Others, Remembers, Ends, KeepsJobs, KeepsMine, KeepsStatus, IInv, NotPending,
     SoleWorker, Working, Free, Held, Ended, Undecided, PastDecision, AfterVerdict, AfterTaskDone,
     Policies
<1> QED
  BY <1>2, <1>3, <1>4, <1>5, <1>6, <1>7, <1>8 DEF Kind

(* A job is decided under its owner only by an overlap.                    *)
LEMMA OwnersClaimedKeeps ==
  ASSUME IInv, NEW w \in Workers, Others(w), Remembers, Kind(w)
  PROVE OwnersClaimed'
<1>1. /\ NoAsset \notin Assets
      /\ \A v \in Workers :
           mine[v] \in Assets \union {NoAsset} /\ (pc[v] \in Free <=> mine[v] = NoAsset)
      /\ \A a \in Assets : matches[a] \in Nat
  BY PrototypeAssumption DEF IInv, TypeOK, LocalsFit
<1>2. CASE IsFree(w)
  BY <1>1, <1>2 DEF Others, Remembers, IsFree, KeepsJobs, KeepsMine, KeepsStatus, IInv,
     OwnersClaimed, SoleWorker, Working, Owns, Free, Held, Ended, Undecided, PastDecision,
     AfterVerdict, AfterTaskDone, Policies
<1>3. CASE GivesBack(w)
  BY <1>1, <1>3 DEF Others, Remembers, GivesBack, KeepsMine, KeepsStatus, IInv, OwnersClaimed,
     SoleWorker, Working, Owns, Free, Held, Ended, Undecided, PastDecision, AfterVerdict,
     AfterTaskDone, Policies
<1>4. CASE Claims(w)
  BY <1>1, <1>4 DEF Others, Remembers, Claims, KeepsMine, KeepsStatus, IInv, OwnersClaimed,
     SoleWorker, Working, Owns, Free, Held, Ended, Undecided, PastDecision, AfterVerdict,
     AfterTaskDone, Policies
<1>5. CASE GoesOn(w)
  BY <1>1, <1>5 DEF Others, Remembers, GoesOn, KeepsJobs, KeepsMine, KeepsStatus, IInv,
     OwnersClaimed, SoleWorker, Working, Owns, Free, Held, Ended, Undecided, PastDecision,
     AfterVerdict, AfterTaskDone, Policies
<1>6. CASE Decides(w)
  BY <1>1, <1>6 DEF Others, Remembers, Decides, KeepsOthers, KeepsMine, KeepsStatus, IInv,
     OwnersClaimed, SoleWorker, Working, Owns, Free, Held, Ended, Undecided, PastDecision,
     AfterVerdict, AfterTaskDone, Policies
<1>7. CASE Fails(w)
  BY <1>1, <1>7 DEF Others, Remembers, Fails, KeepsOthers, KeepsMine, KeepsStatus, IInv,
     OwnersClaimed, SoleWorker, Working, Owns, Free, Held, Ended, Undecided, PastDecision,
     AfterVerdict, AfterTaskDone, Policies
<1>8. CASE Ends(w)
  BY <1>1, <1>8 DEF Others, Remembers, Ends, KeepsJobs, KeepsMine, KeepsStatus, IInv,
     OwnersClaimed, SoleWorker, Working, Owns, Free, Held, Ended, Undecided, PastDecision,
     AfterVerdict, AfterTaskDone, Policies
<1> QED
  BY <1>2, <1>3, <1>4, <1>5, <1>6, <1>7, <1>8 DEF Kind

(* A decided job keeps the verdict of its worker.                          *)
LEMMA VerdictIsStatusKeeps ==
  ASSUME IInv, NEW w \in Workers, Others(w), Remembers, Kind(w)
  PROVE VerdictIsStatus'
<1>1. /\ NoAsset \notin Assets
      /\ \A v \in Workers :
           mine[v] \in Assets \union {NoAsset} /\ (pc[v] \in Free <=> mine[v] = NoAsset)
      /\ \A a \in Assets : matches[a] \in Nat
  BY PrototypeAssumption DEF IInv, TypeOK, LocalsFit
<1>2. CASE IsFree(w)
  BY <1>1, <1>2 DEF Others, Remembers, IsFree, KeepsJobs, KeepsMine, KeepsStatus, IInv,
     VerdictIsStatus, SoleWorker, NotPending, Working, Free, Held, Ended, Undecided, PastDecision,
     AfterVerdict, AfterTaskDone, Policies
<1>3. CASE GivesBack(w)
  BY <1>1, <1>3 DEF Others, Remembers, GivesBack, KeepsMine, KeepsStatus, IInv, VerdictIsStatus,
     SoleWorker, NotPending, Working, Free, Held, Ended, Undecided, PastDecision, AfterVerdict,
     AfterTaskDone, Policies
<1>4. CASE Claims(w)
  BY <1>1, <1>4, VerdictSet DEF Others, Remembers, Claims, KeepsMine, KeepsStatus, IInv,
     VerdictIsStatus, SoleWorker, NotPending, Working, Free, Held, Ended, Undecided, PastDecision,
     AfterVerdict, AfterTaskDone, Policies
<1>5. CASE GoesOn(w)
  BY <1>1, <1>5 DEF Others, Remembers, GoesOn, KeepsJobs, KeepsMine, KeepsStatus, IInv,
     VerdictIsStatus, SoleWorker, NotPending, Working, Free, Held, Ended, Undecided, PastDecision,
     AfterVerdict, AfterTaskDone, Policies
<1>6. CASE Decides(w)
  BY <1>1, <1>6 DEF Others, Remembers, Decides, KeepsOthers, KeepsMine, KeepsStatus, IInv,
     VerdictIsStatus, SoleWorker, NotPending, Working, Free, Held, Ended, Undecided, PastDecision,
     AfterVerdict, AfterTaskDone, Policies
<1>7. CASE Fails(w)
  BY <1>1, <1>7 DEF Others, Remembers, Fails, KeepsOthers, KeepsMine, KeepsStatus, IInv,
     VerdictIsStatus, SoleWorker, NotPending, Working, Free, Held, Ended, Undecided, PastDecision,
     AfterVerdict, AfterTaskDone, Policies
<1>8. CASE Ends(w)
  BY <1>1, <1>8 DEF Others, Remembers, Ends, KeepsJobs, KeepsMine, KeepsStatus, IInv,
     VerdictIsStatus, SoleWorker, NotPending, Working, Free, Held, Ended, Undecided, PastDecision,
     AfterVerdict, AfterTaskDone, Policies
<1> QED
  BY <1>2, <1>3, <1>4, <1>5, <1>6, <1>7, <1>8 DEF Kind

(* A job with evidence is left alone.                                      *)
LEMMA EvidenceOfMatchedKeeps ==
  ASSUME IInv, NEW w \in Workers, Others(w), Remembers, Kind(w)
  PROVE EvidenceOfMatched'
<1>1. /\ NoAsset \notin Assets
      /\ \A v \in Workers :
           mine[v] \in Assets \union {NoAsset} /\ (pc[v] \in Free <=> mine[v] = NoAsset)
      /\ \A a \in Assets : matches[a] \in Nat
  BY PrototypeAssumption DEF IInv, TypeOK, LocalsFit
<1>2. CASE IsFree(w)
  BY <1>1, <1>2 DEF Others, Remembers, IsFree, KeepsJobs, KeepsMine, KeepsStatus, IInv,
     EvidenceOfMatched, SoleWorker, NotPending, VerdictIsStatus, LocalsFit, Working, Free, Held,
     Ended, Undecided, PastDecision, AfterVerdict, AfterTaskDone, Policies
<1>3. CASE GivesBack(w)
  BY <1>1, <1>3 DEF Others, Remembers, GivesBack, KeepsMine, KeepsStatus, IInv, EvidenceOfMatched,
     SoleWorker, NotPending, VerdictIsStatus, LocalsFit, Working, Free, Held, Ended, Undecided,
     PastDecision, AfterVerdict, AfterTaskDone, Policies
<1>4. CASE Claims(w)
  BY <1>1, <1>4 DEF Others, Remembers, Claims, KeepsMine, KeepsStatus, IInv, EvidenceOfMatched,
     SoleWorker, NotPending, VerdictIsStatus, LocalsFit, Working, Free, Held, Ended, Undecided,
     PastDecision, AfterVerdict, AfterTaskDone, Policies
<1>5. CASE GoesOn(w)
  BY <1>1, <1>5 DEF Others, Remembers, GoesOn, KeepsJobs, KeepsMine, KeepsStatus, IInv,
     EvidenceOfMatched, SoleWorker, NotPending, VerdictIsStatus, LocalsFit, Working, Free, Held,
     Ended, Undecided, PastDecision, AfterVerdict, AfterTaskDone, Policies
<1>6. CASE Decides(w)
  BY <1>1, <1>6 DEF Others, Remembers, Decides, KeepsOthers, KeepsMine, KeepsStatus, IInv,
     EvidenceOfMatched, SoleWorker, NotPending, VerdictIsStatus, LocalsFit, Working, Free, Held,
     Ended, Undecided, PastDecision, AfterVerdict, AfterTaskDone, Policies
<1>7. CASE Fails(w)
  BY <1>1, <1>7 DEF Others, Remembers, Fails, KeepsOthers, KeepsMine, KeepsStatus, IInv,
     EvidenceOfMatched, SoleWorker, NotPending, VerdictIsStatus, LocalsFit, Working, Free, Held,
     Ended, Undecided, PastDecision, AfterVerdict, AfterTaskDone, Policies
<1>8. CASE Ends(w)
  BY <1>1, <1>8 DEF Others, Remembers, Ends, KeepsJobs, KeepsMine, KeepsStatus, IInv,
     EvidenceOfMatched, SoleWorker, NotPending, VerdictIsStatus, LocalsFit, Working, Free, Held,
     Ended, Undecided, PastDecision, AfterVerdict, AfterTaskDone, Policies
<1> QED
  BY <1>2, <1>3, <1>4, <1>5, <1>6, <1>7, <1>8 DEF Kind

(* A match gets its evidence unless its worker dies.                       *)
LEMMA MatchedHasEvidenceKeeps ==
  ASSUME IInv, NEW w \in Workers, Others(w), Remembers, Kind(w)
  PROVE MatchedHasEvidence'
<1>1. /\ NoAsset \notin Assets
      /\ \A v \in Workers :
           mine[v] \in Assets \union {NoAsset} /\ (pc[v] \in Free <=> mine[v] = NoAsset)
      /\ \A a \in Assets : matches[a] \in Nat
  BY PrototypeAssumption DEF IInv, TypeOK, LocalsFit
<1>2. CASE IsFree(w)
  BY <1>1, <1>2 DEF Others, Remembers, IsFree, KeepsJobs, KeepsMine, KeepsStatus, IInv,
     MatchedHasEvidence, SoleWorker, Working, VerdictIsStatus, Free, Held, Ended, Undecided,
     PastDecision, AfterVerdict, AfterTaskDone, Policies, ToEvidence
<1>3. CASE GivesBack(w)
  BY <1>1, <1>3 DEF Others, Remembers, GivesBack, KeepsMine, KeepsStatus, IInv,
     MatchedHasEvidence, SoleWorker, Working, VerdictIsStatus, Free, Held, Ended, Undecided,
     PastDecision, AfterVerdict, AfterTaskDone, Policies, ToEvidence
<1>4. CASE Claims(w)
  BY <1>1, <1>4 DEF Others, Remembers, Claims, KeepsMine, KeepsStatus, IInv, MatchedHasEvidence,
     SoleWorker, Working, VerdictIsStatus, Free, Held, Ended, Undecided, PastDecision,
     AfterVerdict, AfterTaskDone, Policies, ToEvidence
<1>5. CASE GoesOn(w)
  BY <1>1, <1>5 DEF Others, Remembers, GoesOn, KeepsJobs, KeepsMine, KeepsStatus, IInv,
     MatchedHasEvidence, SoleWorker, Working, VerdictIsStatus, Free, Held, Ended, Undecided,
     PastDecision, AfterVerdict, AfterTaskDone, Policies, ToEvidence
<1>6. CASE Decides(w)
  BY <1>1, <1>6 DEF Others, Remembers, Decides, KeepsOthers, KeepsMine, KeepsStatus, IInv,
     MatchedHasEvidence, SoleWorker, Working, VerdictIsStatus, Free, Held, Ended, Undecided,
     PastDecision, AfterVerdict, AfterTaskDone, Policies, ToEvidence
<1>7. CASE Fails(w)
  BY <1>1, <1>7 DEF Others, Remembers, Fails, KeepsOthers, KeepsMine, KeepsStatus, IInv,
     MatchedHasEvidence, SoleWorker, Working, VerdictIsStatus, Free, Held, Ended, Undecided,
     PastDecision, AfterVerdict, AfterTaskDone, Policies, ToEvidence
<1>8. CASE Ends(w)
  BY <1>1, <1>8 DEF Others, Remembers, Ends, KeepsJobs, KeepsMine, KeepsStatus, IInv,
     MatchedHasEvidence, SoleWorker, Working, VerdictIsStatus, Free, Held, Ended, Undecided,
     PastDecision, AfterVerdict, AfterTaskDone, Policies, ToEvidence
<1> QED
  BY <1>2, <1>3, <1>4, <1>5, <1>6, <1>7, <1>8 DEF Kind

---------------------------------------------------------------------------
(* What a step does to the rows, the lists and the files.                  *)

Recording == {"row", "reject_row"}

\* A row keeps its asset and path. A download's takes the verdict of the asset's
\* worker, and is marked by the policy that has come to it or by a clearing.
RowSteps(w) ==
  /\ rows' \in Seq(Rows) /\ DOMAIN rows \subseteq DOMAIN rows'
  /\ \A i \in DOMAIN rows :
       /\ rows'[i].asset = rows[i].asset /\ rows'[i].path = rows[i].path
       /\ \/ rows'[i].decision = rows[i].decision
          \/ rows[i].path = "none"
          \/ /\ pc[w] \in Recording /\ mine[w] = rows[i].asset /\ rows'[i].decision = verdict[w]
             /\ mine'[w] = mine[w] /\ verdict'[w] = verdict[w] /\ pc'[w] \in PastDecision
       /\ \/ rows'[i].deleted = rows[i].deleted
          \/ pc[w] \in Marks /\ i = Oldest(w) /\ files' = files
          \/ "cleared" \in blame'[rows[i].asset]
  /\ \A i \in DOMAIN rows' \ DOMAIN rows :
       /\ rows'[i].asset = mine[w] /\ ~rows'[i].deleted /\ files' = files
       /\ \/ rows'[i].path = "none"
          \/ /\ pc[w] \in Recording /\ rows'[i].decision = verdict[w]
             /\ mine'[w] = mine[w] /\ verdict'[w] = verdict[w] /\ pc'[w] \in PastDecision

\* A list is read at once, and then only gets shorter.
ListSteps(w) ==
  /\ todo' \in [Workers -> SUBSET DOMAIN rows]
  /\ \A v \in Workers :
       \/ todo'[v] \subseteq todo[v]
       \/ /\ v = w /\ rows' = rows
          /\ \A i \in todo'[v] : rows[i].decision \in NonMatching

\* A file comes by a download of its asset, and goes by one, by the policy that
\* has its row on its list, or by a clearing.
FileSteps(w) ==
  /\ files' \subseteq Assets
  /\ \A a \in files' \ files : mine[w] = a /\ pc[w] = "download"
  /\ \A a \in files \ files' :
       \/ mine[w] = a /\ pc[w] = "download"
       \/ "cleared" \in blame'[a]
       \/ \E i \in todo[w] : rows[i].asset = a /\ rows[i].path = "local"
  /\ pc'[w] \in {"probe", "pipeline", "decide"} =>
       \/ pc[w] \in {"probe", "pipeline"} /\ files' = files /\ mine'[w] = mine[w]
       \/ pc[w] = "download" /\ mine'[w] = mine[w] /\ mine[w] \in files'
  /\ pc[w] = "decide" => files' = files \/ pc'[w] = "off"

\* The row a policy marks is the one whose file it has just removed.
MarkSteps(w) ==
  /\ \A v \in Workers \ {w} : todo'[v] = todo[v]
  /\ pc'[w] \in Marks =>
       /\ todo'[w] = todo[w] /\ rows' = rows
       /\ \/ pc[w] \in Marks /\ files' = files
          \/ NextRow(w).path = "local" => NextRow(w).asset \notin files'

(* The rows change as their comment says.                                  *)
LEMMA RowsStep ==
  ASSUME IInv, NEW w \in Workers, StepOf(w)
  PROVE RowSteps(w)
<1> USE PrototypeAssumption
<1>1. /\ rows \in Seq(Rows) /\ pc \in [Workers -> PCs]
      /\ mine \in [Workers -> Assets \union {NoAsset}]
      /\ verdict \in [Workers -> Decided \union {"pending"}] /\ files \subseteq Assets
      /\ todo \in [Workers -> SUBSET DOMAIN rows] /\ (pc[w] \in Marks => todo[w] # {})
      /\ (pc[w] = "reject_row" => verdict[w] \in Rejections)
      /\ (pc[w] = "fail_row" => verdict[w] \in Decided \union {"pending"})
  BY DEF IInv, TypeOK, LocalsFit, Rows
<1>2. ASSUME RejectRow(w) PROVE RowSteps(w)
  <2> DEFINE path == IF verdict[w] = "rejected_non_video" THEN "none" ELSE "local"
  <2>1. rows' = Upsert(mine[w], path, verdict[w]) /\ mine[w] \in Assets
    BY <1>2, HasAsset DEF RejectRow, IInv, Free
  <2>2. verdict[w] \in Statuses \ {"claimed"} /\ path \in Paths
    BY <1>2, <1>1 DEF RejectRow, Statuses, Decided, Rejections, Verdicts, FinalStatus, Paths
  <2>3. /\ rows' \in Seq(Rows) /\ DOMAIN rows \subseteq DOMAIN rows'
        /\ \A i \in DOMAIN rows : Updated(rows'[i], rows[i], mine[w], path, verdict[w])
        /\ \A i \in DOMAIN rows' \ DOMAIN rows : rows'[i] = Row(mine[w], path, verdict[w])
    BY <1>1, <2>1, <2>2, UpsertRows
  <2>4. /\ pc[w] \in Recording /\ pc'[w] \in PastDecision
        /\ UNCHANGED <<mine, verdict, files>>
    BY <1>2, <1>1 DEF RejectRow, Goto, Recording, PastDecision, AfterVerdict
  <2>5. path \in {"none", "local"}
    OBVIOUS
  <2> QED
    BY <2>3, <2>4, <2>5 DEF RowSteps, Updated, Row
<1>3. ASSUME RecordRow(w) PROVE RowSteps(w)
  <2>1. rows' = Upsert(mine[w], "local", verdict[w]) /\ mine[w] \in Assets
    BY <1>3, HasAsset DEF RecordRow, IInv, Free
  <2>2. verdict[w] \in Statuses \ {"claimed"} /\ "local" \in Paths
    BY <1>3, <1>1 DEF RecordRow, Statuses, Decided, Rejections, Verdicts, FinalStatus, Paths
  <2>3. /\ rows' \in Seq(Rows) /\ DOMAIN rows \subseteq DOMAIN rows'
        /\ \A i \in DOMAIN rows : Updated(rows'[i], rows[i], mine[w], "local", verdict[w])
        /\ \A i \in DOMAIN rows' \ DOMAIN rows : rows'[i] = Row(mine[w], "local", verdict[w])
    BY <1>1, <2>1, <2>2, UpsertRows
  <2>4. /\ pc[w] \in Recording /\ pc'[w] \in PastDecision
        /\ UNCHANGED <<mine, verdict, files>>
    BY <1>3, <1>1 DEF RecordRow, Goto, Recording, PastDecision, AfterVerdict
  <2> QED
    BY <2>3, <2>4 DEF RowSteps, Updated, Row
<1>4. ASSUME MarkDeleted(w) PROVE RowSteps(w)
  <2>1. rows' = [rows EXCEPT ![Oldest(w)].deleted = TRUE] /\ pc[w] \in Marks /\ files' = files
    BY <1>4 DEF MarkDeleted, Marks
  <2>2. Oldest(w) \in DOMAIN rows
    BY <1>1, <2>1, OldestListed, RowNumbers DEF Oldest
  <2>3. rows[Oldest(w)] \in Rows
    BY <1>1, <2>2
  <2>4. [rows[Oldest(w)] EXCEPT !.deleted = TRUE] \in Rows
    BY <2>3 DEF Rows
  <2>5. rows' \in Seq(Rows) /\ DOMAIN rows' = DOMAIN rows
    BY <1>1, <2>1, <2>2, <2>4
  <2>6. /\ \A i \in DOMAIN rows \ {Oldest(w)} : rows'[i] = rows[i]
        /\ rows'[Oldest(w)] = [rows[Oldest(w)] EXCEPT !.deleted = TRUE]
    BY <1>1, <2>1, <2>2
  <2> QED
    BY <2>1, <2>3, <2>5, <2>6 DEF RowSteps, Rows
<1>5. ASSUME FailRow(w) PROVE RowSteps(w)
  <2>1. rows' = Upsert(mine[w], "none", verdict[w]) /\ mine[w] \in Assets
    BY <1>5, HasAsset DEF FailRow, IInv, Free
  <2>2. verdict[w] \in Statuses \ {"claimed"} /\ "none" \in Paths
    BY <1>5, <1>1 DEF FailRow, Statuses, Decided, Rejections, Verdicts, FinalStatus, Paths
  <2>3. /\ rows' \in Seq(Rows) /\ DOMAIN rows \subseteq DOMAIN rows'
        /\ \A i \in DOMAIN rows : Updated(rows'[i], rows[i], mine[w], "none", verdict[w])
        /\ \A i \in DOMAIN rows' \ DOMAIN rows : rows'[i] = Row(mine[w], "none", verdict[w])
    BY <1>1, <2>1, <2>2, UpsertRows
  <2>4. files' = files
    BY <1>5 DEF FailRow
  <2> QED
    BY <2>3, <2>4 DEF RowSteps, Updated, Row
<1>6. ASSUME ClearAssets(w) PROVE RowSteps(w)
  <2>1. rows' = [i \in DOMAIN rows |-> IF rows[i].path = "local" /\ rows[i].asset \in files
                                        THEN [rows[i] EXCEPT !.deleted = TRUE] ELSE rows[i]]
    BY <1>6 DEF ClearAssets
  <2>2. \A i \in DOMAIN rows : rows[i] \in Rows
    BY <1>1
  <2>3. \A a \in files : "cleared" \in blame'[a]
    BY <1>6, BlameAdds DEF ClearAssets, IInv, TypeOK
  <2>4. \A i \in DOMAIN rows : rows'[i] \in Rows
    BY <2>1, <2>2 DEF Rows
  <2>5. rows' \in Seq(Rows) /\ DOMAIN rows' = DOMAIN rows
    BY <1>1, <2>1, <2>4, SameLength
  <2>6. \A i \in DOMAIN rows :
          /\ rows'[i].asset = rows[i].asset /\ rows'[i].path = rows[i].path
          /\ rows'[i].decision = rows[i].decision
          /\ rows'[i].deleted = rows[i].deleted \/ rows[i].asset \in files
    BY <2>1, <2>2 DEF Rows
  <2> QED
    BY <2>3, <2>5, <2>6 DEF RowSteps
<1>7. ASSUME \/ (\E resume \in BOOLEAN : Start(w, resume))
            \/ (\E old \in SUBSET Assets : Scan(w, old)) \/ Requeue(w)
            \/ (\E b \in Assets : Claim(w, b)) \/ Stop(w) \/ StartTask(w)
            \/ (\E media \in Media : Gate(w, media))
            \/ (\E transfer \in Transfers : Download(w, transfer))
            \/ (\E duration \in Durations : Probe(w, duration))
     PROVE RowSteps(w)
  <2>1. UNCHANGED rows
    BY <1>1, <1>7 DEF Start, Scan, Requeue, Claim, Stop, StartTask, Gate, Download, Probe, Goto,
       Blame, SetStatus, MayClaim, Claimable, Reject, tables, history
  <2> QED
    BY <1>1, <2>1 DEF RowSteps
<1>8. ASSUME \/ RejectTask(w) \/ (\E v \in Verdicts : Pipeline(w, v)) \/ Decide(w)
            \/ Boost(w) \/ CreateRun(w) \/ CompleteTask(w) \/ RecordMatch(w)
            \/ MatchCommitFails(w) \/ List(w) \/ Swept(w)
     PROVE RowSteps(w)
  <2>1. UNCHANGED rows
    BY <1>1, <1>8 DEF RejectTask, Pipeline, Decide, Boost, CreateRun, CompleteTask, RecordMatch,
       MatchCommitFails, Fault, List, Swept, Goto, SetStatus, AfterTask, history, tables
  <2> QED
    BY <1>1, <2>1 DEF RowSteps
<1>9. ASSUME \/ Unlink(w) \/ UnlinkFails(w) \/ MarkFails(w) \/ Raise(w) \/ FailTask(w)
            \/ FailRead(w) \/ FailWrite(w) \/ Done(w)
            \/ (\E part \in BOOLEAN : Crash(w, part))
     PROVE RowSteps(w)
  <2>1. UNCHANGED rows
    BY <1>1, <1>9 DEF Unlink, UnlinkFails, MarkFails, Raise, FailTask, FailRead, FailWrite, Done,
       Crash, Goto, Skip, Fault, Blame, AfterFailure, tables, history, local
  <2> QED
    BY <1>1, <2>1 DEF RowSteps
<1> QED
  BY <1>2, <1>3, <1>4, <1>5, <1>6, <1>7, <1>8, <1>9 DEF StepOf, Work


(* The lists change as their comment says.                                 *)
LEMMA ListsStep ==
  ASSUME IInv, NEW w \in Workers, StepOf(w)
  PROVE ListSteps(w)
<1> USE PrototypeAssumption
<1>1. /\ rows \in Seq(Rows) /\ pc \in [Workers -> PCs]
      /\ mine \in [Workers -> Assets \union {NoAsset}]
      /\ verdict \in [Workers -> Decided \union {"pending"}] /\ files \subseteq Assets
      /\ todo \in [Workers -> SUBSET DOMAIN rows] /\ (pc[w] \in Marks => todo[w] # {})
      /\ (pc[w] = "reject_row" => verdict[w] \in Rejections)
      /\ (pc[w] = "fail_row" => verdict[w] \in Decided \union {"pending"})
  BY DEF IInv, TypeOK, LocalsFit, Rows
<1>2. ASSUME List(w) PROVE ListSteps(w)
  <2>1. \/ todo' = [todo EXCEPT ![w] = Listed(NonMatching)]
        \/ todo' = [todo EXCEPT ![w] = Listed(Rejections)]
    BY <1>2 DEF List
  <2>2. rows' = rows /\ Rejections \subseteq NonMatching
    BY <1>2 DEF List, tables, NonMatching
  <2> QED
    BY <1>1, <2>1, <2>2 DEF ListSteps, Listed
<1>3. ASSUME Swept(w) PROVE ListSteps(w)
  BY <1>1, <1>3 DEF Swept, Goto, tables, history, ListSteps
<1>4. ASSUME Unlink(w) PROVE ListSteps(w)
  BY <1>1, <1>4 DEF Unlink, Goto, Skip, tables, history, ListSteps
<1>5. ASSUME UnlinkFails(w) PROVE ListSteps(w)
  BY <1>1, <1>5 DEF UnlinkFails, Skip, Fault, Blame, tables, ListSteps
<1>6. ASSUME MarkDeleted(w) PROVE ListSteps(w)
  BY <1>1, <1>6 DEF MarkDeleted, Goto, Skip, history, ListSteps
<1>7. ASSUME MarkFails(w) PROVE ListSteps(w)
  BY <1>1, <1>7 DEF MarkFails, Goto, Skip, Fault, Blame, tables, local, ListSteps
<1>8. ASSUME NEW part \in BOOLEAN, Crash(w, part) PROVE ListSteps(w)
  BY <1>1, <1>8 DEF Crash, Fault, Blame, tables, ListSteps
<1>9. ASSUME \/ (\E resume \in BOOLEAN : Start(w, resume))
            \/ (\E old \in SUBSET Assets : Scan(w, old)) \/ Requeue(w)
            \/ (\E b \in Assets : Claim(w, b)) \/ Stop(w) \/ StartTask(w)
            \/ (\E media \in Media : Gate(w, media))
            \/ (\E transfer \in Transfers : Download(w, transfer))
            \/ (\E duration \in Durations : Probe(w, duration))
     PROVE ListSteps(w)
  <2>1. UNCHANGED todo
    BY <1>1, <1>9 DEF Start, Scan, Requeue, Claim, Stop, StartTask, Gate, Download, Probe, Goto,
       Blame, SetStatus, MayClaim, Claimable, Reject, tables, history
  <2> QED
    BY <1>1, <2>1 DEF ListSteps
<1>10. ASSUME \/ RejectRow(w) \/ RejectTask(w) \/ (\E v \in Verdicts : Pipeline(w, v))
            \/ Decide(w) \/ Boost(w) \/ CreateRun(w) \/ RecordRow(w) \/ CompleteTask(w)
            \/ RecordMatch(w) \/ MatchCommitFails(w)
     PROVE ListSteps(w)
  <2>1. UNCHANGED todo
    BY <1>1, <1>10 DEF RejectRow, RejectTask, Pipeline, Decide, Boost, CreateRun, RecordRow,
       CompleteTask, RecordMatch, MatchCommitFails, Fault, Goto, SetStatus, AfterTask, local,
       history, tables
  <2> QED
    BY <1>1, <2>1 DEF ListSteps
<1>11. ASSUME \/ Raise(w) \/ FailTask(w) \/ FailRead(w) \/ FailWrite(w) \/ FailRow(w)
            \/ Done(w) \/ ClearAssets(w)
     PROVE ListSteps(w)
  <2>1. UNCHANGED todo
    BY <1>1, <1>11 DEF Raise, FailTask, FailRead, FailWrite, FailRow, Done, ClearAssets, Goto,
       Fault, Blame, AfterFailure, tables, history, local
  <2> QED
    BY <1>1, <2>1 DEF ListSteps
<1> QED
  BY <1>2, <1>3, <1>4, <1>5, <1>6, <1>7, <1>8, <1>9, <1>10, <1>11 DEF StepOf, Work


(* The files change as their comment says.                                 *)
LEMMA FilesStep ==
  ASSUME IInv, NEW w \in Workers, StepOf(w)
  PROVE FileSteps(w)
<1> USE PrototypeAssumption
<1>1. /\ rows \in Seq(Rows) /\ pc \in [Workers -> PCs]
      /\ mine \in [Workers -> Assets \union {NoAsset}]
      /\ verdict \in [Workers -> Decided \union {"pending"}] /\ files \subseteq Assets
      /\ todo \in [Workers -> SUBSET DOMAIN rows] /\ (pc[w] \in Marks => todo[w] # {})
      /\ (pc[w] = "reject_row" => verdict[w] \in Rejections)
      /\ (pc[w] = "fail_row" => verdict[w] \in Decided \union {"pending"})
  BY DEF IInv, TypeOK, LocalsFit, Rows
<1>2. ASSUME NEW transfer \in Transfers, Download(w, transfer) PROVE FileSteps(w)
  <2>1. /\ pc[w] = "download" /\ mine[w] \in Assets /\ mine' = mine
        /\ files' = IF Fetched(transfer) THEN files \union {mine[w]}
                    ELSE IF Discarded(transfer) THEN files \ {mine[w]} ELSE files
        /\ pc'[w] = IF Fetched(transfer) THEN "probe" ELSE "fail_task"
    BY <1>1, <1>2, HasAsset DEF Download, Goto, IInv, Free
  <2>2. /\ files' \subseteq Assets
        /\ \A a \in files' \ files : mine[w] = a
        /\ \A a \in files \ files' : mine[w] = a
        /\ pc'[w] = "probe" => mine[w] \in files'
        /\ pc'[w] \in {"probe", "fail_task"}
    BY <1>1, <2>1
  <2> QED
    BY <2>1, <2>2 DEF FileSteps
<1>3. ASSUME NEW duration \in Durations, Probe(w, duration) PROVE FileSteps(w)
  BY <1>1, <1>3 DEF Probe, Goto, Reject, SetStatus, FileSteps
<1>4. ASSUME NEW v \in Verdicts, Pipeline(w, v) PROVE FileSteps(w)
  BY <1>1, <1>4 DEF Pipeline, Goto, FileSteps
<1>5. ASSUME Decide(w) PROVE FileSteps(w)
  BY <1>1, <1>5 DEF Decide, Goto, SetStatus, FileSteps
<1>6. ASSUME Unlink(w) PROVE FileSteps(w)
  <2>1. /\ pc[w] \in {"sweep", "enforce"} /\ todo[w] # {}
        /\ files' = files \/ (OnDisk(w) /\ files' = files \ {NextRow(w).asset})
        /\ pc'[w] \in {"sweep", "enforce", "sweep_mark", "enforce_mark"}
    BY <1>1, <1>6 DEF Unlink, Goto
  <2>2. Oldest(w) \in todo[w]
    BY <1>1, <2>1, OldestListed, RowNumbers DEF Oldest
  <2> QED
    BY <1>1, <2>1, <2>2 DEF FileSteps, OnDisk, NextRow
<1>7. ASSUME NEW part \in BOOLEAN, Crash(w, part) PROVE FileSteps(w)
  <2>1. /\ files' = files \/ (pc[w] = "download" /\ files' = files \union {mine[w]})
        /\ pc'[w] = "off"
    BY <1>1, <1>7 DEF Crash
  <2>2. pc[w] = "download" => mine[w] \in Assets
    BY HasAsset DEF IInv, Free
  <2> QED
    BY <1>1, <2>1, <2>2 DEF FileSteps
<1>8. ASSUME ClearAssets(w) PROVE FileSteps(w)
  BY <1>1, <1>8 DEF ClearAssets, Fault, Blame, local, FileSteps, Marks, Policies
<1>9. ASSUME \/ (\E resume \in BOOLEAN : Start(w, resume))
            \/ (\E old \in SUBSET Assets : Scan(w, old)) \/ Requeue(w)
            \/ (\E b \in Assets : Claim(w, b)) \/ Stop(w) \/ StartTask(w)
            \/ (\E media \in Media : Gate(w, media)) \/ RejectRow(w) \/ RejectTask(w)
     PROVE FileSteps(w)
  <2>1. UNCHANGED files /\ pc'[w] \notin {"probe", "pipeline", "decide"}
    BY <1>1, <1>9 DEF Start, Scan, Requeue, Claim, Stop, StartTask, Gate, RejectRow, RejectTask,
       Goto, Blame, SetStatus, MayClaim, Claimable, Reject, tables, history, local, Raising
  <2> QED
    BY <1>1, <2>1 DEF FileSteps
<1>10. ASSUME \/ Boost(w) \/ CreateRun(w) \/ RecordRow(w) \/ CompleteTask(w)
            \/ RecordMatch(w) \/ MatchCommitFails(w) \/ List(w) \/ Swept(w) \/ UnlinkFails(w)
            \/ MarkDeleted(w)
     PROVE FileSteps(w)
  <2>1. UNCHANGED files /\ pc'[w] \notin {"probe", "pipeline", "decide"}
    BY <1>1, <1>10 DEF Boost, CreateRun, RecordRow, CompleteTask, RecordMatch, MatchCommitFails,
       Fault, List, Swept,
       UnlinkFails, MarkDeleted, Goto, AfterTask, Skip, Fault, Blame, history, tables, local,
       Raising
  <2> QED
    BY <1>1, <2>1 DEF FileSteps
<1>11. ASSUME \/ MarkFails(w) \/ Raise(w) \/ FailTask(w) \/ FailRead(w) \/ FailWrite(w)
            \/ FailRow(w) \/ Done(w)
     PROVE FileSteps(w)
  <2>1. UNCHANGED files /\ pc'[w] \notin {"probe", "pipeline", "decide"}
    BY <1>1, <1>11 DEF MarkFails, Raise, FailTask, FailRead, FailWrite, FailRow, Done, Goto, Skip,
       Fault, Blame, AfterFailure, tables, local, history, Raising
  <2> QED
    BY <1>1, <2>1 DEF FileSteps
<1> QED
  BY <1>2, <1>3, <1>4, <1>5, <1>6, <1>7, <1>8, <1>9, <1>10, <1>11 DEF StepOf, Work


(* The marks follow the files.                                             *)
LEMMA MarksStep ==
  ASSUME IInv, NEW w \in Workers, StepOf(w)
  PROVE MarkSteps(w)
<1> USE PrototypeAssumption
<1>1. /\ rows \in Seq(Rows) /\ pc \in [Workers -> PCs]
      /\ mine \in [Workers -> Assets \union {NoAsset}]
      /\ verdict \in [Workers -> Decided \union {"pending"}] /\ files \subseteq Assets
      /\ todo \in [Workers -> SUBSET DOMAIN rows] /\ (pc[w] \in Marks => todo[w] # {})
      /\ (pc[w] = "reject_row" => verdict[w] \in Rejections)
      /\ (pc[w] = "fail_row" => verdict[w] \in Decided \union {"pending"})
  BY DEF IInv, TypeOK, LocalsFit, Rows
<1>2. ASSUME List(w) PROVE MarkSteps(w)
  BY <1>1, <1>2 DEF List, Goto, tables, history, MarkSteps, Marks
<1>3. ASSUME Swept(w) PROVE MarkSteps(w)
  BY <1>1, <1>3 DEF Swept, Goto, tables, history, MarkSteps, Marks
<1>4. ASSUME Unlink(w) PROVE MarkSteps(w)
  <2>1. CASE PassedBy(w)
    BY <1>1, <1>4, <2>1 DEF Unlink, Skip, MarkSteps, Marks
  <2>2. CASE ~PassedBy(w)
    <3>1. todo' = todo /\ rows' = rows
      BY <1>4, <2>2 DEF Unlink, tables
    <3>2. files' = IF OnDisk(w) THEN files \ {NextRow(w).asset} ELSE files
      BY <1>4, <2>2 DEF Unlink
    <3> QED
      BY <3>1, <3>2 DEF MarkSteps, OnDisk
  <2> QED
    BY <2>1, <2>2
<1>5. ASSUME UnlinkFails(w) PROVE MarkSteps(w)
  BY <1>1, <1>5 DEF UnlinkFails, Skip, Fault, Blame, tables, MarkSteps, Marks
<1>6. ASSUME MarkDeleted(w) PROVE MarkSteps(w)
  BY <1>1, <1>6 DEF MarkDeleted, Goto, Skip, history, MarkSteps, Marks
<1>7. ASSUME MarkFails(w) PROVE MarkSteps(w)
  BY <1>1, <1>7 DEF MarkFails, Goto, Skip, Fault, Blame, tables, local, MarkSteps, Marks
<1>8. ASSUME NEW part \in BOOLEAN, Crash(w, part) PROVE MarkSteps(w)
  BY <1>1, <1>8 DEF Crash, Fault, Blame, tables, MarkSteps, Marks
<1>9. ASSUME \/ (\E resume \in BOOLEAN : Start(w, resume))
            \/ (\E old \in SUBSET Assets : Scan(w, old)) \/ Requeue(w)
            \/ (\E b \in Assets : Claim(w, b)) \/ Stop(w) \/ StartTask(w)
            \/ (\E media \in Media : Gate(w, media))
            \/ (\E transfer \in Transfers : Download(w, transfer))
            \/ (\E duration \in Durations : Probe(w, duration))
     PROVE MarkSteps(w)
  <2>1. UNCHANGED todo /\ pc'[w] \notin Marks
    BY <1>1, <1>9 DEF Start, Scan, Requeue, Claim, Stop, StartTask, Gate, Download, Probe, Goto,
       Blame, SetStatus, MayClaim, Claimable, Reject, tables, history, Marks, Raising
  <2> QED
    BY <1>1, <2>1 DEF MarkSteps
<1>10. ASSUME \/ RejectRow(w) \/ RejectTask(w) \/ (\E v \in Verdicts : Pipeline(w, v))
            \/ Decide(w) \/ Boost(w) \/ CreateRun(w) \/ RecordRow(w) \/ CompleteTask(w)
            \/ RecordMatch(w) \/ MatchCommitFails(w)
     PROVE MarkSteps(w)
  <2>1. UNCHANGED todo /\ pc'[w] \notin Marks
    BY <1>1, <1>10 DEF RejectRow, RejectTask, Pipeline, Decide, Boost, CreateRun, RecordRow,
       CompleteTask, RecordMatch, MatchCommitFails, Fault, Goto, SetStatus, AfterTask, local,
       history, tables, Marks,
       Raising
  <2> QED
    BY <1>1, <2>1 DEF MarkSteps
<1>11. ASSUME \/ Raise(w) \/ FailTask(w) \/ FailRead(w) \/ FailWrite(w) \/ FailRow(w)
            \/ Done(w) \/ ClearAssets(w)
     PROVE MarkSteps(w)
  <2>1. UNCHANGED todo /\ pc'[w] \notin Marks
    BY <1>1, <1>11 DEF Raise, FailTask, FailRead, FailWrite, FailRow, Done, ClearAssets, Goto,
       Fault, Blame, AfterFailure, tables, history, local, Marks, Raising
  <2> QED
    BY <1>1, <2>1 DEF MarkSteps
<1> QED
  BY <1>2, <1>3, <1>4, <1>5, <1>6, <1>7, <1>8, <1>9, <1>10, <1>11 DEF StepOf, Work


---------------------------------------------------------------------------
(* The parts of the invariant about rows, lists and files.                 *)

(* A decision changes only as DecisionStands allows.                       *)
LEMMA DecidedStays ==
  ASSUME IInv, NEW w \in Workers, Others(w), Remembers, Kind(w),
         NEW a \in Assets, job[a].status \in Decided
  PROVE job'[a].status = job[a].status \/ blame'[a] \intersect Twice # {}
<1>1. job[a].status # "claimed" /\ job[a].status # "pending"
  BY VerdictSet
<1>2. blame[a] \subseteq blame'[a]
  BY DEF Remembers
<1>3. CASE KeepsJobs
  BY <1>3 DEF KeepsJobs, KeepsStatus
<1>4. CASE GivesBack(w)
  BY <1>1, <1>4 DEF GivesBack, KeepsStatus, Twice
<1>5. CASE Claims(w)
  BY <1>1, <1>5 DEF Claims, KeepsStatus
<1>6. CASE Decides(w) \/ Fails(w)
  <2>1. CASE mine[w] = a
    <3>1. Owns(w, a)
      BY <1>6, <2>1 DEF Decides, Fails, Owns, Undecided
    <3> QED
      BY <1>1, <1>2, <3>1 DEF IInv, OwnersClaimed, Twice
  <2>2. CASE mine[w] # a
    BY <1>6, <2>2 DEF Decides, Fails, KeepsOthers, KeepsStatus
  <2> QED
    BY <2>1, <2>2
<1> QED
  BY <1>3, <1>4, <1>5, <1>6 DEF Kind, IsFree, GoesOn, Ends

(* A row is of an asset.                                                   *)
LEMMA RowHasAsset ==
  ASSUME NEW r, r \in Seq(Rows), NEW i \in DOMAIN r
  PROVE r[i].asset \in Assets /\ r[i].path \in {"none", "local"}
<1>1. r[i] \in Rows
  OBVIOUS
<1> QED
  BY <1>1 DEF Rows, Paths

(* The rows have their type.                                               *)
LEMMA RowsAreTyped == IInv => rows \in Seq(Rows)
  BY DEF IInv, TypeOK, Rows

(* Who has a job before its decision has not the one of a row.             *)
LEMMA OwnerHasNoRow ==
  ASSUME IInv, NEW w \in Workers, NEW i \in DOMAIN rows, rows[i].path = "local",
         Owns(w, rows[i].asset)
  PROVE blame[rows[i].asset] \intersect Twice # {}
<1>1. rows[i].asset \in Assets
  BY RowsAreTyped, RowHasAsset
<1>2. "claimed" \notin Decided
  BY VerdictSet
<1> QED
  BY <1>1, <1>2 DEF IInv, RowsFollowJobs, OwnersClaimed, Twice

(* A row is written after the decision it names, by the worker of the job. *)
LEMMA RowsFollowJobsKeeps ==
  ASSUME IInv, NEW w \in Workers, Others(w), Remembers, Kind(w), RowSteps(w),
         VerdictIsStatus', LocalsFit'
  PROVE RowsFollowJobs'
<1> SUFFICES ASSUME NEW i \in DOMAIN rows', rows'[i].path = "local"
             PROVE \/ /\ job'[rows'[i].asset].status = rows'[i].decision
                      /\ rows'[i].decision \in Decided
                   \/ blame'[rows'[i].asset] \intersect Twice # {}
  BY DEF RowsFollowJobs
<1>1. rows'[i].asset \in Assets /\ (i \in DOMAIN rows => rows[i].asset \in Assets)
  BY RowsAreTyped, RowHasAsset DEF RowSteps
<1>2. CASE pc[w] \in Recording /\ mine'[w] = rows'[i].asset /\ rows'[i].decision = verdict'[w]
             /\ pc'[w] \in PastDecision
  BY <1>1, <1>2 DEF VerdictIsStatus, LocalsFit, Twice
<1>3. CASE i \in DOMAIN rows /\ rows'[i].decision = rows[i].decision
  <2>1. rows'[i].asset = rows[i].asset /\ rows[i].path = "local"
    BY <1>3 DEF RowSteps
  <2>2. blame[rows[i].asset] \subseteq blame'[rows[i].asset]
    BY <1>1, <1>3 DEF Remembers
  <2> QED
    BY <1>1, <1>3, <2>1, <2>2, DecidedStays DEF IInv, RowsFollowJobs
<1> QED
  BY <1>1, <1>2, <1>3 DEF RowSteps

(* The decision of a listed row changes only by an overlap or an exception. *)
LEMMA ListsFollowRowsKeeps ==
  ASSUME IInv, NEW w \in Workers, Others(w), Remembers, Kind(w), RowSteps(w), ListSteps(w),
         RowsFollowJobs'
  PROVE ListsFollowRows'
<1> SUFFICES ASSUME NEW v \in Workers, NEW i \in todo'[v], rows'[i].path = "local"
             PROVE \/ rows'[i].decision \in NonMatching
                   \/ blame'[rows'[i].asset] \intersect Twice # {}
  BY DEF ListsFollowRows, NonMatching
<1>1. CASE rows' = rows /\ i \in DOMAIN rows /\ rows[i].decision \in NonMatching
  BY <1>1
<1>2. CASE i \in todo[v]
  <2>1. /\ i \in DOMAIN rows /\ i \in DOMAIN rows' /\ rows[i].asset \in Assets
        /\ rows'[i].asset = rows[i].asset /\ rows[i].path = "local"
    BY <1>2, RowsAreTyped, RowHasAsset DEF IInv, TypeOK, RowSteps
  <2>2. blame[rows[i].asset] \subseteq blame'[rows[i].asset]
    BY <2>1 DEF Remembers
  <2>3. ASSUME blame'[rows[i].asset] \intersect Twice = {}
        PROVE rows'[i].decision = rows[i].decision
    <3>1. blame[rows[i].asset] \intersect Twice = {}
      BY <2>2, <2>3
    <3>2. job[rows[i].asset].status = rows[i].decision /\ rows[i].decision \in Decided
      BY <2>1, <3>1 DEF IInv, RowsFollowJobs
    <3>3. job'[rows[i].asset].status = rows'[i].decision
      BY <2>1, <2>3 DEF RowsFollowJobs
    <3> QED
      BY <2>1, <2>3, <3>2, <3>3, DecidedStays
  <2> QED
    BY <1>2, <2>1, <2>2, <2>3 DEF IInv, ListsFollowRows
<1> QED
  BY <1>1, <1>2 DEF ListSteps

(* Why a file is removed.                                                  *)
LEMMA Removed ==
  ASSUME IInv, NEW w \in Workers, Remembers, FileSteps(w), NEW a \in files, a \notin files',
         blame'[a] \intersect Loose = {}
  PROVE /\ blame[a] \intersect Twice = {}
        /\ \/ mine[w] = a /\ pc[w] = "download" /\ Owns(w, a) /\ job[a].status = "claimed"
           \/ job[a].status \in NonMatching
<1>1. a \in Assets /\ blame[a] \subseteq blame'[a] /\ blame[a] \intersect Twice = {}
  BY DEF IInv, TypeOK, Remembers, Loose, Twice
<1>2. CASE mine[w] = a /\ pc[w] = "download"
  BY <1>1, <1>2 DEF IInv, OwnersClaimed, Owns, Undecided, Twice
<1>3. CASE \E i \in todo[w] : rows[i].asset = a /\ rows[i].path = "local"
  <2>1. PICK i \in todo[w] : rows[i].asset = a /\ rows[i].path = "local"
    BY <1>3
  <2>2. i \in DOMAIN rows
    BY DEF IInv, TypeOK
  <2> QED
    BY <1>1, <2>1, <2>2 DEF IInv, ListsFollowRows, RowsFollowJobs
<1>4. "cleared" \notin blame'[a]
  BY DEF Loose
<1> QED
  BY <1>1, <1>2, <1>3, <1>4 DEF FileSteps

(* No step of another worker removes the file of a job before its verdict. *)
LEMMA FetchedOnDiskKeeps ==
  ASSUME IInv, NEW w \in Workers, Others(w), Remembers, FileSteps(w)
  PROVE FetchedOnDisk'
<1> SUFFICES ASSUME NEW v \in Workers, NEW a \in Assets, mine'[v] = a,
                    pc'[v] \in {"probe", "pipeline", "decide"}, blame'[a] \intersect Loose = {}
             PROVE a \in files'
  BY DEF FetchedOnDisk, Loose
<1>1. blame[a] \subseteq blame'[a]
  BY DEF Remembers
<1>2. CASE v = w /\ mine[w] = a /\ a \in files'
  BY <1>2
<1>3. CASE v = w /\ pc[w] \in {"probe", "pipeline"} /\ files' = files /\ mine[w] = a
  BY <1>1, <1>3 DEF IInv, FetchedOnDisk
<1>4. CASE v # w
  <2>1. mine[v] = a /\ pc[v] \in {"probe", "pipeline", "decide"}
    BY <1>4 DEF Others
  <2>2. a \in files
    BY <1>1, <2>1 DEF IInv, FetchedOnDisk
  <2>3. Owns(v, a) /\ Working(v, a)
    BY <2>1 DEF Owns, Working, Undecided
  <2>4. ASSUME a \notin files' PROVE FALSE
    <3>1. job[a].status = "claimed"
      BY <1>1, <2>3 DEF IInv, OwnersClaimed, Loose
    <3>2. "claimed" \notin NonMatching
      BY DEF NonMatching, Rejections
    <3>3. mine[w] = a /\ pc[w] = "download"
      BY <2>2, <2>4, <3>1, <3>2, Removed
    <3>4. Working(w, a)
      BY <3>3 DEF Working
    <3> QED
      BY <1>1, <1>4, <2>3, <3>4 DEF IInv, SoleWorker, Loose
  <2> QED
    BY <2>4
<1> QED
  BY <1>2, <1>3, <1>4 DEF FileSteps

(* No policy has the row of a matched asset on its list.                   *)
LEMMA MatchedOnDiskKeeps ==
  ASSUME IInv, NEW w \in Workers, Others(w), Remembers, Kind(w), FileSteps(w)
  PROVE MatchedOnDisk'
<1> SUFFICES ASSUME NEW a \in Assets, job'[a].status = "matched", blame'[a] \intersect Loose = {}
             PROVE a \in files'
  BY DEF MatchedOnDisk, Loose
<1>1. blame[a] \subseteq blame'[a] /\ blame[a] \intersect Loose = {}
  BY DEF Remembers
<1>2. CASE job[a].status = "matched"
  <2>1. a \in files
    BY <1>1, <1>2 DEF IInv, MatchedOnDisk
  <2>2. "matched" \notin NonMatching
    BY DEF NonMatching, Rejections
  <2> QED
    BY <1>2, <2>1, <2>2, Removed
<1>3. CASE job[a].status # "matched"
  <2>1. CASE Decides(w)
    <3>1. mine[w] = a /\ verdict'[w] = "matched" /\ pc[w] = "decide" /\ pc'[w] # "off"
      BY <1>3, <2>1
         DEF Decides, KeepsOthers, KeepsStatus, PastDecision, AfterVerdict, AfterTaskDone,
         Policies
    <3>2. a \in files /\ files' = files
      BY <1>1, <3>1 DEF IInv, FetchedOnDisk, FileSteps
    <3> QED
      BY <3>2
  <2>2. ~Decides(w) => FALSE
    BY <1>3 DEF Kind, IsFree, GivesBack, Claims, GoesOn, Fails, Ends, KeepsJobs, KeepsOthers,
                KeepsStatus
  <2> QED
    BY <2>1, <2>2
<1> QED
  BY <1>2, <1>3

(* No file comes back for a row.                                           *)
LEMMA StaysGone ==
  ASSUME IInv, NEW w \in Workers, Remembers, FileSteps(w),
         NEW i \in DOMAIN rows, rows[i].path = "local", rows[i].asset \notin files,
         blame'[rows[i].asset] \intersect Loose = {}
  PROVE rows[i].asset \notin files'
<1>1. rows[i].asset \in Assets
  BY RowsAreTyped, RowHasAsset
<1>2. blame[rows[i].asset] \intersect Twice = {}
  BY <1>1 DEF Remembers, Twice, Loose
<1>3. ~Owns(w, rows[i].asset)
  BY <1>2, OwnerHasNoRow
<1> QED
  BY <1>3 DEF FileSteps, Owns, Undecided

(* A row is marked after its file is gone, and the file does not come back. *)
LEMMA DeletedGoneKeeps ==
  ASSUME IInv, NEW w \in Workers, Remembers, RowSteps(w), FileSteps(w)
  PROVE DeletedGone'
<1> SUFFICES ASSUME NEW i \in DOMAIN rows', rows'[i].path = "local", rows'[i].deleted,
                    blame'[rows'[i].asset] \intersect Loose = {}
             PROVE rows'[i].asset \notin files'
  BY DEF DeletedGone, Loose
<1>1. /\ i \in DOMAIN rows /\ rows'[i].asset = rows[i].asset /\ rows[i].path = "local"
      /\ rows[i].asset \in Assets
  BY RowsAreTyped, RowHasAsset DEF RowSteps
<1>2. blame[rows[i].asset] \intersect Loose = {} /\ "cleared" \notin blame'[rows[i].asset]
  BY <1>1 DEF Remembers, Loose
<1>3. rows[i].asset \notin files
  <2>1. CASE rows[i].deleted
    BY <1>1, <1>2, <2>1 DEF IInv, DeletedGone
  <2>2. CASE pc[w] \in Marks /\ i = Oldest(w)
    BY <1>1, <1>2, <2>2 DEF IInv, MarkedGone, NextRow
  <2> QED
    BY <1>1, <1>2, <2>1, <2>2 DEF RowSteps
<1> QED
  BY <1>1, <1>3, StaysGone

(* The file of the row to be marked does not come back before it is.       *)
LEMMA MarkedGoneKeeps ==
  ASSUME IInv, NEW w \in Workers, Others(w), Remembers, RowSteps(w), FileSteps(w), MarkSteps(w)
  PROVE MarkedGone'
<1> SUFFICES ASSUME NEW v \in Workers, pc'[v] \in Marks, rows'[Oldest(v)'].path = "local",
                    blame'[rows'[Oldest(v)'].asset] \intersect Loose = {}
             PROVE rows'[Oldest(v)'].asset \notin files'
  BY DEF MarkedGone, Marks, Loose, NextRow
<1>1. CASE v = w /\ rows' = rows /\ todo'[w] = todo[w]
             /\ (NextRow(w).path = "local" => NextRow(w).asset \notin files')
  BY <1>1 DEF NextRow, Oldest
<1>2. CASE pc[v] \in Marks /\ todo'[v] = todo[v]
  <2>1. Oldest(v)' = Oldest(v) /\ Oldest(v) \in DOMAIN rows
    <3>1. todo[v] # {} /\ todo[v] \subseteq DOMAIN rows /\ DOMAIN rows \subseteq Nat
      BY <1>2, RowNumbers DEF IInv, LocalsFit, TypeOK, Rows
    <3>2. Oldest(v) \in todo[v]
      BY <3>1, OldestListed DEF Oldest
    <3> QED
      BY <1>2, <3>1, <3>2 DEF Oldest
  <2>2. /\ rows'[Oldest(v)].asset = rows[Oldest(v)].asset /\ rows[Oldest(v)].path = "local"
        /\ rows[Oldest(v)].asset \in Assets
    BY <2>1, RowsAreTyped, RowHasAsset DEF RowSteps
  <2>3. blame[rows[Oldest(v)].asset] \intersect Loose = {}
    BY <2>1, <2>2 DEF Remembers
  <2>4. rows[Oldest(v)].asset \notin files
    BY <1>2, <2>2, <2>3 DEF IInv, MarkedGone, NextRow
  <2> QED
    BY <2>1, <2>2, <2>4, StaysGone
<1> QED
  BY <1>1, <1>2 DEF MarkSteps, Others

---------------------------------------------------------------------------
(* Types, and what a worker remembers.                                     *)

Fits(w) ==
  /\ pc[w] \in Free <=> mine[w] = NoAsset
  /\ pc[w] \notin Policies => todo[w] = {}
  /\ pc[w] \in Marks => todo[w] # {}
  /\ pc[w] \in {"decide"} \union AfterVerdict => verdict[w] \in Verdicts
  /\ pc[w] = "match" => verdict[w] = "matched"
  /\ pc[w] \in {"reject_row", "reject_task"} => verdict[w] \in Rejections
  /\ pc[w] \in PastDecision => verdict[w] \in Decided

\* surplus is at least what is left of the list.
Covers(w) ==
  /\ surplus' \in [Workers -> Nat]
  /\ \A v \in Workers : Cardinality(todo'[v]) <= surplus'[v]

TypedTables ==
  /\ job \in [Assets -> [status : Statuses, retries : Nat]]
  /\ boosted \subseteq Assets /\ task \in [Assets -> {"none", "in_progress", "completed", "failed"}]
  /\ matches \in [Assets -> Nat]
TypedPlaces ==
  /\ pc \in [Workers -> PCs] /\ mine \in [Workers -> Assets \union {NoAsset}]
  /\ verdict \in [Workers -> Decided \union {"pending"}] /\ seen \in [Workers -> Nat]
TypedHistory ==
  /\ stale \in [Workers -> SUBSET Assets]
  /\ claims \in 0 .. MaxClaims /\ faults \in 0 .. MaxFaults
  /\ blame \in [Assets -> SUBSET {"overlap", "raise", "commit", "crash", "cleared", "kept"}]

(* The tables keep their types.                                            *)
LEMMA TablesTyped ==
  ASSUME IInv, NEW w \in Workers, StepOf(w)
  PROVE TypedTables'
<1> USE PrototypeAssumption
<1>1. job \in [Assets -> [status : Statuses, retries : Nat]] /\ boosted \subseteq Assets
      /\ task \in [Assets -> {"none", "in_progress", "completed", "failed"}]
      /\ matches \in [Assets -> Nat] /\ mine \in [Workers -> Assets \union {NoAsset}]
      /\ seen \in [Workers -> Nat]
  BY DEF IInv, TypeOK
<1>2. ASSUME Requeue(w) PROVE TypedTables'
  <2>1. UNCHANGED <<boosted, task, matches>>
    BY <1>2 DEF Requeue
  <2>2. job' \in [Assets -> [status : Statuses, retries : Nat]]
    <3>1. ASSUME NEW a \in Assets
          PROVE [job[a] EXCEPT !.status = "pending"] \in [status : Statuses, retries : Nat]
      <4>1. job[a] \in [status : Statuses, retries : Nat] /\ "pending" \in Statuses
        BY <1>1 DEF Statuses
      <4> QED
        BY <4>1
    <3>2. job' = [a \in Assets |-> IF a \in stale[w] THEN [job[a] EXCEPT !.status = "pending"]
                                                     ELSE job[a]]
      BY <1>2 DEF Requeue
    <3>3. \A a \in Assets : job[a] \in [status : Statuses, retries : Nat]
      BY <1>1
    <3> QED
      BY <3>1, <3>2, <3>3
  <2> QED
    BY <1>1, <2>1, <2>2 DEF TypedTables
<1>3. ASSUME NEW b \in Assets, Claim(w, b) PROVE TypedTables'
  <2>1. UNCHANGED <<boosted, task, matches>>
    BY <1>3 DEF Claim
  <2>2. job' \in [Assets -> [status : Statuses, retries : Nat]]
    BY <1>3, StatusSet DEF Claim, IInv, Statuses
  <2> QED
    BY <1>1, <2>1, <2>2 DEF TypedTables
<1>4. ASSUME StartTask(w) PROVE TypedTables'
  BY <1>1, <1>4 DEF StartTask, Goto, history, TypedTables
<1>5. ASSUME NEW media \in Media, Gate(w, media) PROVE TypedTables'
  <2>1. UNCHANGED <<boosted, task, matches>>
    BY <1>5 DEF Gate
  <2>2. job' \in [Assets -> [status : Statuses, retries : Nat]]
    <3>1. CASE RejectsNonVideo(media)
      <4>1. "rejected_non_video" \in Statuses /\ mine[w] \in Assets
        BY <1>5, HasAsset DEF IInv, Free, Gate, Statuses, Decided, Rejections
      <4> QED
        BY <1>5, <3>1, <4>1, StatusSet DEF Gate, Reject, IInv
    <3>2. CASE ~RejectsNonVideo(media)
      BY <1>1, <1>5, <3>2 DEF Gate
    <3> QED
      BY <3>1, <3>2
  <2> QED
    BY <1>1, <2>1, <2>2 DEF TypedTables
<1>6. ASSUME NEW duration \in Durations, Probe(w, duration) PROVE TypedTables'
  <2>1. UNCHANGED <<boosted, task, matches>>
    BY <1>6 DEF Probe
  <2>2. job' \in [Assets -> [status : Statuses, retries : Nat]]
    <3>1. CASE TooShort(duration)
      <4>1. "rejected_too_short" \in Statuses /\ mine[w] \in Assets
        BY <1>6, HasAsset DEF IInv, Free, Probe, Statuses, Decided, Rejections
      <4> QED
        BY <1>6, <3>1, <4>1, StatusSet DEF Probe, Reject, IInv
    <3>2. CASE ~TooShort(duration)
      BY <1>1, <1>6, <3>2 DEF Probe
    <3> QED
      BY <3>1, <3>2
  <2> QED
    BY <1>1, <2>1, <2>2 DEF TypedTables
<1>7. ASSUME RejectTask(w) PROVE TypedTables'
  BY <1>1, <1>7 DEF RejectTask, Goto, history, TypedTables
<1>8. ASSUME Decide(w) PROVE TypedTables'
  <2>1. UNCHANGED <<boosted, task, matches>>
    BY <1>8 DEF Decide
  <2>2. job' \in [Assets -> [status : Statuses, retries : Nat]]
    <3>1. mine[w] \in Assets /\ verdict[w] \in Statuses
      BY <1>8, HasAsset DEF Decide, IInv, LocalsFit, Free, Statuses, Decided
    <3> QED
      BY <1>8, <3>1, StatusSet DEF Decide, IInv
  <2> QED
    BY <1>1, <2>1, <2>2 DEF TypedTables
<1>9. ASSUME Boost(w) PROVE TypedTables'
  BY <1>1, <1>9 DEF Boost, Goto, history, TypedTables
<1>10. ASSUME CompleteTask(w) PROVE TypedTables'
  BY <1>1, <1>10 DEF CompleteTask, Goto, AfterTask, history, TypedTables
<1>11. ASSUME RecordMatch(w) \/ MatchCommitFails(w) PROVE TypedTables'
  <2>1. /\ matches' = [matches EXCEPT ![mine[w]] = @ + 1] /\ mine[w] \in Assets
        /\ UNCHANGED <<job, boosted, task>>
    BY <1>11, HasAsset DEF RecordMatch, MatchCommitFails, IInv, Free
  <2>2. matches' \in [Assets -> Nat]
    BY <1>1, <2>1
  <2> QED
    BY <1>1, <2>1, <2>2 DEF TypedTables
<1>12. ASSUME FailTask(w) PROVE TypedTables'
  BY <1>1, <1>12 DEF FailTask, Goto, history, TypedTables
<1>13. ASSUME FailWrite(w) PROVE TypedTables'
  <2>1. UNCHANGED <<boosted, task, matches>>
    BY <1>13 DEF FailWrite
  <2>2. job' \in [Assets -> [status : Statuses, retries : Nat]]
    <3>1. PICK s \in {"pending", "failed"} :
            job' = [job EXCEPT ![mine[w]] = [status |-> s, retries |-> seen[w] + 1]]
      BY <1>13 DEF FailWrite, AfterFailure
    <3>2. s \in Statuses
      BY VerdictSet DEF Statuses
    <3>3. [status |-> s, retries |-> seen[w] + 1] \in [status : Statuses, retries : Nat]
      BY <1>1, <3>2
    <3> QED
      BY <1>1, <3>1, <3>3
  <2> QED
    BY <1>1, <2>1, <2>2 DEF TypedTables
<1>14. ASSUME \/ (\E resume \in BOOLEAN : Start(w, resume))
            \/ (\E old \in SUBSET Assets : Scan(w, old)) \/ Stop(w)
            \/ (\E transfer \in Transfers : Download(w, transfer)) \/ RejectRow(w)
            \/ (\E v \in Verdicts : Pipeline(w, v)) \/ CreateRun(w) \/ RecordRow(w)
            \/ List(w)
     PROVE TypedTables'
  <2>1. UNCHANGED <<job, boosted, task, matches>>
    BY <1>14 DEF Start, Scan, Stop, Download, RejectRow, Pipeline, CreateRun, RecordRow, List,
       Goto, tables, history, local
  <2> QED
    BY <1>1, <2>1 DEF TypedTables
<1>15. ASSUME \/ Swept(w) \/ Unlink(w) \/ UnlinkFails(w) \/ MarkDeleted(w)
            \/ MarkFails(w) \/ Raise(w) \/ FailRead(w) \/ FailRow(w) \/ Done(w)
     PROVE TypedTables'
  <2>1. UNCHANGED <<job, boosted, task, matches>>
    BY <1>15 DEF Swept, Unlink, UnlinkFails, MarkDeleted, MarkFails, Raise, FailRead, FailRow,
       Done, Goto, Skip, Fault, Blame, tables, history, local
  <2> QED
    BY <1>1, <2>1 DEF TypedTables
<1>16. ASSUME \/ (\E part \in BOOLEAN : Crash(w, part)) \/ ClearAssets(w)
     PROVE TypedTables'
  <2>1. UNCHANGED <<job, boosted, task, matches>>
    BY <1>16 DEF Crash, ClearAssets, Fault, Blame, tables, local
  <2> QED
    BY <1>1, <2>1 DEF TypedTables
<1> QED
  BY <1>2, <1>3, <1>4, <1>5, <1>6, <1>7, <1>8, <1>9, <1>10, <1>11, <1>12, <1>13, <1>14, <1>15,
     <1>16 DEF StepOf, Work


(* Places and verdicts keep their types.                                   *)
LEMMA PlacesTyped ==
  ASSUME IInv, NEW w \in Workers, StepOf(w)
  PROVE TypedPlaces'
<1> USE PrototypeAssumption
<1>1. pc \in [Workers -> PCs] /\ mine \in [Workers -> Assets \union {NoAsset}]
      /\ verdict \in [Workers -> Decided \union {"pending"}] /\ seen \in [Workers -> Nat]
      /\ job \in [Assets -> [status : Statuses, retries : Nat]]
  BY DEF IInv, TypeOK
<1>2. ASSUME NEW b \in Assets, Claim(w, b) PROVE TypedPlaces'
  BY <1>1, <1>2 DEF Claim, Goto, SetStatus, MayClaim, Claimable, TypedPlaces, PCs, Undecided,
     Raising
<1>3. ASSUME NEW media \in Media, Gate(w, media) PROVE TypedPlaces'
  BY <1>1, <1>3 DEF Gate, Goto, Reject, history, TypedPlaces, PCs, Undecided, Raising, Decided,
     Rejections
<1>4. ASSUME NEW duration \in Durations, Probe(w, duration) PROVE TypedPlaces'
  BY <1>1, <1>4 DEF Probe, Goto, Reject, history, TypedPlaces, PCs, Undecided, Raising, Decided,
     Rejections
<1>5. ASSUME NEW v \in Verdicts, Pipeline(w, v) PROVE TypedPlaces'
  BY <1>1, <1>5 DEF Pipeline, Goto, tables, history, TypedPlaces, PCs, Undecided, Raising, Decided
<1>6. ASSUME FailRead(w) PROVE TypedPlaces'
  <2>1. mine[w] \in Assets
    BY <1>6, HasAsset DEF FailRead, IInv, Free
  <2>2. job[mine[w]].retries \in Nat
    BY <1>1, <2>1
  <2> QED
    BY <1>1, <1>6, <2>2 DEF FailRead, Goto, tables, history, TypedPlaces, PCs, Undecided, Raising
<1>7. ASSUME FailWrite(w) PROVE TypedPlaces'
  BY <1>1, <1>7, VerdictSet DEF FailWrite, Goto, AfterFailure, history, TypedPlaces, PCs,
     Undecided, Raising
<1>8. ASSUME FailRow(w) PROVE TypedPlaces'
  BY <1>1, <1>8, VerdictSet DEF FailRow, Goto, history, TypedPlaces, PCs, Undecided, Raising
<1>9. ASSUME NEW part \in BOOLEAN, Crash(w, part) PROVE TypedPlaces'
  BY <1>1, <1>9, VerdictSet DEF Crash, tables, TypedPlaces, PCs, Undecided, Raising
<1>10. ASSUME \/ (\E resume \in BOOLEAN : Start(w, resume))
            \/ (\E old \in SUBSET Assets : Scan(w, old)) \/ Requeue(w) \/ Stop(w)
     PROVE TypedPlaces'
  BY <1>1, <1>10 DEF Start, Scan, Requeue, Stop, Goto, Blame, tables, history, TypedPlaces, PCs,
     Undecided, Raising
<1>11. ASSUME \/ StartTask(w) \/ (\E transfer \in Transfers : Download(w, transfer))
            \/ RejectRow(w) \/ RejectTask(w)
     PROVE TypedPlaces'
  BY <1>1, <1>11 DEF StartTask, Download, RejectRow, RejectTask, Goto, history, tables, local,
     TypedPlaces, PCs, Undecided, Raising
<1>12. ASSUME \/ Decide(w) \/ Boost(w) \/ CreateRun(w) \/ RecordRow(w)
     PROVE TypedPlaces'
  BY <1>1, <1>12 DEF Decide, Boost, CreateRun, RecordRow, Goto, SetStatus, history, tables, local,
     TypedPlaces, PCs, Undecided, Raising
<1>13. ASSUME \/ CompleteTask(w) \/ RecordMatch(w) \/ MatchCommitFails(w) \/ List(w) \/ Swept(w)
     PROVE TypedPlaces'
  BY <1>1, <1>13 DEF CompleteTask, RecordMatch, MatchCommitFails, Fault, List, Swept, Goto,
     AfterTask, history, tables,
     TypedPlaces, PCs, Undecided, Raising
<1>14. ASSUME \/ Unlink(w) \/ MarkDeleted(w) \/ MarkFails(w) \/ Raise(w)
     PROVE TypedPlaces'
  BY <1>1, <1>14 DEF Unlink, MarkDeleted, MarkFails, Raise, Goto, Skip, Fault, Blame, tables,
     history, local, TypedPlaces, PCs, Undecided, Raising
<1>15. ASSUME \/ FailTask(w) \/ Done(w)
     PROVE TypedPlaces'
  BY <1>1, <1>15 DEF FailTask, Done, Goto, history, tables, TypedPlaces, PCs, Undecided, Raising
<1>16. ASSUME \/ UnlinkFails(w) \/ ClearAssets(w)
     PROVE TypedPlaces'
  <2>1. UNCHANGED <<pc, mine, verdict, seen>>
    BY <1>16 DEF UnlinkFails, ClearAssets, Skip, Fault, Blame, tables, local
  <2> QED
    BY <1>1, <2>1 DEF TypedPlaces, PCs, Undecided, Raising
<1> QED
  BY <1>2, <1>3, <1>4, <1>5, <1>6, <1>7, <1>8, <1>9, <1>10, <1>11, <1>12, <1>13, <1>14, <1>15,
     <1>16 DEF StepOf, Work


(* The history keeps its types.                                            *)
LEMMA HistoryTyped ==
  ASSUME IInv, NEW w \in Workers, StepOf(w)
  PROVE TypedHistory'
<1>1. stale \in [Workers -> SUBSET Assets]
      /\ claims \in 0 .. MaxClaims /\ faults \in 0 .. MaxFaults
      /\ blame \in [Assets -> SUBSET {"overlap", "raise", "commit", "crash", "cleared", "kept"}]
      /\ MaxClaims \in Nat /\ MaxFaults \in Nat
  BY PrototypeAssumption DEF IInv, TypeOK
<1>2. ASSUME NEW old \in SUBSET Assets, Scan(w, old) PROVE TypedHistory'
  BY <1>1, <1>2 DEF Scan, Goto, tables, history, TypedHistory
<1>3. ASSUME Requeue(w) PROVE TypedHistory'
  BY <1>1, <1>3 DEF Requeue, Goto, Blame, TypedHistory
<1>4. ASSUME NEW b \in Assets, Claim(w, b) PROVE TypedHistory'
  BY <1>1, <1>4 DEF Claim, Goto, SetStatus, MayClaim, Claimable, TypedHistory
<1>5. ASSUME UnlinkFails(w) PROVE TypedHistory'
  BY <1>1, <1>5 DEF UnlinkFails, Skip, Fault, Blame, tables, TypedHistory
<1>6. ASSUME MarkFails(w) PROVE TypedHistory'
  BY <1>1, <1>6 DEF MarkFails, Goto, Skip, Fault, Blame, tables, local, TypedHistory
<1>7. ASSUME Raise(w) PROVE TypedHistory'
  BY <1>1, <1>7 DEF Raise, Goto, Fault, Blame, tables, TypedHistory
<1>8. ASSUME NEW part \in BOOLEAN, Crash(w, part) PROVE TypedHistory'
  BY <1>1, <1>8 DEF Crash, Fault, Blame, tables, TypedHistory
<1>9. ASSUME ClearAssets(w) PROVE TypedHistory'
  BY <1>1, <1>9 DEF ClearAssets, Fault, Blame, local, TypedHistory
<1>10. ASSUME \/ (\E resume \in BOOLEAN : Start(w, resume)) \/ Stop(w) \/ StartTask(w)
            \/ (\E media \in Media : Gate(w, media))
            \/ (\E transfer \in Transfers : Download(w, transfer))
            \/ (\E duration \in Durations : Probe(w, duration)) \/ RejectRow(w)
            \/ RejectTask(w) \/ (\E v \in Verdicts : Pipeline(w, v))
     PROVE TypedHistory'
  <2>1. UNCHANGED <<stale, claims, faults, blame>>
    BY <1>10 DEF Start, Stop, StartTask, Gate, Download, Probe, RejectRow, RejectTask, Pipeline,
       Goto, Reject, SetStatus, tables, history, local
  <2> QED
    BY <1>1, <2>1 DEF TypedHistory
<1>11. ASSUME \/ Decide(w) \/ Boost(w) \/ CreateRun(w) \/ RecordRow(w) \/ CompleteTask(w)
            \/ RecordMatch(w) \/ List(w) \/ Swept(w) \/ Unlink(w)
     PROVE TypedHistory'
  <2>1. UNCHANGED <<stale, claims, faults, blame>>
    BY <1>11 DEF Decide, Boost, CreateRun, RecordRow, CompleteTask, RecordMatch, List, Swept,
       Unlink, Goto, SetStatus, AfterTask, Skip, history, tables, local
  <2> QED
    BY <1>1, <2>1 DEF TypedHistory
<1>12. ASSUME \/ MarkDeleted(w) \/ FailTask(w) \/ FailRead(w) \/ FailWrite(w)
            \/ FailRow(w) \/ Done(w)
     PROVE TypedHistory'
  <2>1. UNCHANGED <<stale, claims, faults, blame>>
    BY <1>12 DEF MarkDeleted, FailTask, FailRead, FailWrite, FailRow, Done, Goto, Skip,
       AfterFailure, history, tables
  <2> QED
    BY <1>1, <2>1 DEF TypedHistory
<1>13. ASSUME MatchCommitFails(w) PROVE TypedHistory'
  <2>1. UNCHANGED <<stale, claims>> /\ faults' \in 0 .. MaxFaults
    BY <1>1, <1>13 DEF MatchCommitFails, Fault
  <2>2. blame' = [blame EXCEPT ![mine[w]] = @ \union {"raise", "commit"}] /\ mine[w] \in Assets
    BY <1>13, HasAsset DEF MatchCommitFails, IInv, Free
  <2>3. blame[mine[w]] \union {"raise", "commit"}
          \in SUBSET {"overlap", "raise", "commit", "crash", "cleared", "kept"}
    BY <1>1, <2>2
  <2> QED
    BY <1>1, <2>1, <2>2, <2>3 DEF TypedHistory
<1> QED
  BY <1>2, <1>3, <1>4, <1>5, <1>6, <1>7, <1>8, <1>9, <1>10, <1>11, <1>12, <1>13 DEF StepOf, Work


(* What a worker remembers fits where it is.                               *)
LEMMA FitsStep ==
  ASSUME IInv, NEW w \in Workers, StepOf(w)
  PROVE Fits(w)'
<1> USE PrototypeAssumption
<1>1. /\ NoAsset \notin Assets
      /\ pc \in [Workers -> PCs] /\ mine \in [Workers -> Assets \union {NoAsset}]
      /\ verdict \in [Workers -> Decided \union {"pending"}]
      /\ todo \in [Workers -> SUBSET DOMAIN rows]
      /\ Fits(w)
  BY PrototypeAssumption DEF IInv, TypeOK, LocalsFit, Fits
<1>2. ASSUME NEW media \in Media, Gate(w, media) PROVE Fits(w)'
  BY <1>1, <1>2 DEF Gate, Goto, Reject, history, Rejections, Decided, Fits, Free, Policies,
     Marks, AfterVerdict, AfterTaskDone, PastDecision
<1>3. ASSUME NEW duration \in Durations, Probe(w, duration) PROVE Fits(w)'
  BY <1>1, <1>3 DEF Probe, Goto, Reject, history, Rejections, Decided, Fits, Free, Policies,
     Marks, AfterVerdict, AfterTaskDone, PastDecision
<1>4. ASSUME NEW v \in Verdicts, Pipeline(w, v) PROVE Fits(w)'
  BY <1>1, <1>4, VerdictSet DEF Pipeline, Goto, tables, history, Fits, Free, Policies, Marks,
     AfterVerdict, AfterTaskDone, PastDecision
<1>5. ASSUME Decide(w) PROVE Fits(w)'
  BY <1>1, <1>5, VerdictSet DEF Decide, Goto, history, Fits, Free, Policies, Marks, AfterVerdict,
     AfterTaskDone, PastDecision
<1>6. ASSUME CompleteTask(w) PROVE Fits(w)'
  BY <1>1, <1>6, VerdictSet DEF CompleteTask, Goto, AfterTask, history, Fits, Free, Policies,
     Marks, AfterVerdict, AfterTaskDone, PastDecision
<1>7. ASSUME List(w) PROVE Fits(w)'
  BY <1>1, <1>7 DEF List, Goto, tables, history, Fits, Free, Policies, Marks, AfterVerdict,
     AfterTaskDone, PastDecision
<1>8. ASSUME Swept(w) PROVE Fits(w)'
  BY <1>1, <1>8 DEF Swept, Goto, tables, history, Fits, Free, Policies, Marks, AfterVerdict,
     AfterTaskDone, PastDecision
<1>9. ASSUME Unlink(w) PROVE Fits(w)'
  BY <1>1, <1>9 DEF Unlink, Goto, Skip, tables, history, Fits, Free, Policies, Marks,
     AfterVerdict, AfterTaskDone, PastDecision
<1>10. ASSUME UnlinkFails(w) PROVE Fits(w)'
  BY <1>1, <1>10 DEF UnlinkFails, Skip, Fault, Blame, tables, Fits, Free, Policies, Marks,
     AfterVerdict, AfterTaskDone, PastDecision
<1>11. ASSUME MarkDeleted(w) PROVE Fits(w)'
  BY <1>1, <1>11 DEF MarkDeleted, Goto, Skip, history, Fits, Free, Policies, Marks, AfterVerdict,
     AfterTaskDone, PastDecision
<1>12. ASSUME MarkFails(w) PROVE Fits(w)'
  BY <1>1, <1>12 DEF MarkFails, Goto, Skip, Fault, Blame, tables, local, Fits, Free, Policies,
     Marks, AfterVerdict, AfterTaskDone, PastDecision
<1>13. ASSUME Raise(w) PROVE Fits(w)'
  BY <1>1, <1>13 DEF Raise, Goto, Raising, tables, history, Fits, Free, Policies, Marks,
     AfterVerdict, AfterTaskDone, PastDecision
<1>14. ASSUME NEW part \in BOOLEAN, Crash(w, part) PROVE Fits(w)'
  BY <1>1, <1>14 DEF Crash, Fault, Blame, tables, Fits, Free, Policies, Marks, AfterVerdict,
     AfterTaskDone, PastDecision
<1>15. ASSUME \/ (\E resume \in BOOLEAN : Start(w, resume))
            \/ (\E old \in SUBSET Assets : Scan(w, old)) \/ Requeue(w)
            \/ (\E b \in Assets : Claim(w, b))
     PROVE Fits(w)'
  BY <1>1, <1>15 DEF Start, Scan, Requeue, Claim, Goto, Blame, SetStatus, MayClaim, Claimable,
     tables, history, Fits, Free, Policies, Marks, AfterVerdict, AfterTaskDone, PastDecision
<1>16. ASSUME \/ Stop(w) \/ StartTask(w)
            \/ (\E transfer \in Transfers : Download(w, transfer)) \/ RejectRow(w)
     PROVE Fits(w)'
  BY <1>1, <1>16 DEF Stop, StartTask, Download, RejectRow, Goto, tables, history, local, Fits,
     Free, Policies, Marks, AfterVerdict, AfterTaskDone, PastDecision
<1>17. ASSUME \/ RejectTask(w) \/ Boost(w) \/ CreateRun(w) \/ RecordRow(w)
     PROVE Fits(w)'
  BY <1>1, <1>17 DEF RejectTask, Boost, CreateRun, RecordRow, Goto, history, tables, local, Fits,
     Free, Policies, Marks, AfterVerdict, AfterTaskDone, PastDecision
<1>18. ASSUME \/ RecordMatch(w) \/ MatchCommitFails(w) \/ FailTask(w) \/ FailRead(w) \/ FailWrite(w)
     PROVE Fits(w)'
  BY <1>1, <1>18 DEF RecordMatch, MatchCommitFails, Fault, FailTask, FailRead, FailWrite, Goto,
     AfterFailure, history,
     tables, Fits, Free, Policies, Marks, AfterVerdict, AfterTaskDone, PastDecision
<1>19. ASSUME \/ FailRow(w) \/ Done(w)
     PROVE Fits(w)'
  BY <1>1, <1>19 DEF FailRow, Done, Goto, history, tables, Fits, Free, Policies, Marks,
     AfterVerdict, AfterTaskDone, PastDecision
<1>20. ASSUME \/ ClearAssets(w)
     PROVE Fits(w)'
  <2>1. UNCHANGED <<pc, mine, verdict, todo>>
    BY <1>20 DEF ClearAssets, Fault, Blame, local
  <2> QED
    BY <1>1, <2>1 DEF Fits, Free, Policies, Marks, AfterVerdict, AfterTaskDone, PastDecision
<1> QED
  BY <1>2, <1>3, <1>4, <1>5, <1>6, <1>7, <1>8, <1>9, <1>10, <1>11, <1>12, <1>13, <1>14, <1>15,
     <1>16, <1>17, <1>18, <1>19, <1>20 DEF StepOf, Work


(* What is left of a list.                                                 *)
LEMMA ListCards ==
  ASSUME IInv, NEW v \in Workers
  PROVE /\ Cardinality(todo[v]) \in Nat
        /\ todo[v] # {} =>
             /\ Oldest(v) \in todo[v] /\ Oldest(v) \in DOMAIN rows
             /\ Cardinality(todo[v] \ {Oldest(v)}) = Cardinality(todo[v]) - 1
             /\ surplus[v] - 1 \in Nat
<1>1. /\ IsFiniteSet(todo[v]) /\ Cardinality(todo[v]) \in Nat
      /\ todo[v] \subseteq Nat /\ todo[v] \subseteq DOMAIN rows
  BY RowsAreTyped, RowNumbers DEF IInv, TypeOK
<1>2. surplus[v] \in Nat /\ Cardinality(todo[v]) <= surplus[v]
  BY DEF IInv, TypeOK, LocalsFit
<1>3. ASSUME todo[v] # {}
      PROVE /\ Oldest(v) \in todo[v]
            /\ Cardinality(todo[v] \ {Oldest(v)}) = Cardinality(todo[v]) - 1
            /\ Cardinality(todo[v]) # 0
  <2>1. Oldest(v) \in todo[v]
    BY <1>1, <1>3, OldestListed DEF Oldest
  <2>2. Cardinality(todo[v] \ {Oldest(v)}) = Cardinality(todo[v]) - 1
    BY <1>1, <2>1, FS_RemoveElement
  <2> QED
    BY <1>1, <1>3, <2>1, <2>2, FS_EmptySet
<1> QED
  BY <1>1, <1>2, <1>3

(* The surplus covers what is left of a list.                              *)
LEMMA SurplusCovers ==
  ASSUME IInv, NEW w \in Workers, StepOf(w)
  PROVE Covers(w)
<1> USE PrototypeAssumption
<1>1. /\ todo \in [Workers -> SUBSET DOMAIN rows] /\ surplus \in [Workers -> Nat]
      /\ \A v \in Workers : Cardinality(todo[v]) <= surplus[v]
  BY DEF IInv, TypeOK, LocalsFit
<1>2. ASSUME List(w) PROVE Covers(w)
  <2>1. PICK ids \in SUBSET DOMAIN rows :
          todo' = [todo EXCEPT ![w] = ids] /\ surplus' = [surplus EXCEPT ![w] = Cardinality(ids)]
    BY <1>2 DEF List, Listed
  <2>2. Cardinality(ids) \in Nat
    BY RowsAreTyped, RowNumbers
  <2> QED
    BY <1>1, <2>1, <2>2 DEF Covers
<1>3. ASSUME Swept(w) PROVE Covers(w)
  <2>1. todo' = [todo EXCEPT ![w] = {}] /\ surplus' = [surplus EXCEPT ![w] = 0]
    BY <1>3 DEF Swept
  <2>2. Cardinality({}) = 0
    BY FS_EmptySet
  <2> QED
    BY <1>1, <2>1, <2>2 DEF Covers
<1>4. ASSUME Unlink(w) PROVE Covers(w)
  <2>1. surplus' = surplus /\ todo[w] # {}
    BY <1>4 DEF Unlink
  <2>2. CASE todo' = todo
    BY <1>1, <2>1, <2>2 DEF Covers
  <2>3. CASE todo' = [todo EXCEPT ![w] = @ \ {Oldest(w)}]
    <3>1. /\ Cardinality(todo[w] \ {Oldest(w)}) = Cardinality(todo[w]) - 1
          /\ Cardinality(todo[w]) \in Nat /\ surplus[w] \in Nat
      BY <1>1, <2>1, ListCards
    <3>2. Cardinality(todo'[w]) <= surplus'[w]
      BY <1>1, <2>1, <2>3, <3>1
    <3>3. \A v \in Workers \ {w} : todo'[v] = todo[v]
      BY <1>1, <2>3
    <3> QED
      BY <1>1, <2>1, <3>2, <3>3 DEF Covers
  <2> QED
    BY <1>4, <2>2, <2>3 DEF Unlink, Skip
<1>5. ASSUME UnlinkFails(w) PROVE Covers(w)
  <2>1. /\ todo' = [todo EXCEPT ![w] = @ \ {Oldest(w)}] /\ surplus' = surplus
    BY <1>5 DEF UnlinkFails, Skip
  <2>2. todo[w] # {}
    BY <1>5 DEF UnlinkFails
  <2>3. /\ Cardinality(todo[w] \ {Oldest(w)}) = Cardinality(todo[w]) - 1 /\ surplus[w] - 1 \in Nat
        /\ Cardinality(todo[w]) \in Nat /\ surplus[w] \in Nat
    BY <1>1, <2>2, ListCards
  <2>4. /\ surplus'[w] \in Nat /\ Cardinality(todo'[w]) <= surplus'[w]
    BY <1>1, <2>1, <2>3
  <2>5. \A v \in Workers \ {w} : todo'[v] = todo[v] /\ surplus'[v] = surplus[v]
    BY <1>1, <2>1
  <2> QED
    BY <1>1, <2>1, <2>4, <2>5 DEF Covers
<1>6. ASSUME MarkDeleted(w) PROVE Covers(w)
  <2>1. /\ todo' = [todo EXCEPT ![w] = @ \ {Oldest(w)}] /\ surplus' = [surplus EXCEPT ![w] = @ - 1]
    BY <1>6 DEF MarkDeleted, Skip
  <2>2. todo[w] # {}
    BY <1>6 DEF MarkDeleted, IInv, LocalsFit, Marks
  <2>3. /\ Cardinality(todo[w] \ {Oldest(w)}) = Cardinality(todo[w]) - 1 /\ surplus[w] - 1 \in Nat
        /\ Cardinality(todo[w]) \in Nat /\ surplus[w] \in Nat
    BY <1>1, <2>2, ListCards
  <2>4. /\ surplus'[w] \in Nat /\ Cardinality(todo'[w]) <= surplus'[w]
    BY <1>1, <2>1, <2>3
  <2>5. \A v \in Workers \ {w} : todo'[v] = todo[v] /\ surplus'[v] = surplus[v]
    BY <1>1, <2>1
  <2> QED
    BY <1>1, <2>1, <2>4, <2>5 DEF Covers
<1>7. ASSUME MarkFails(w) PROVE Covers(w)
  <2>1. CASE NextRow(w).path = "local"
    <3>1. /\ todo' = [todo EXCEPT ![w] = @ \ {Oldest(w)}] /\ surplus' = surplus
          /\ todo[w] # {}
      BY <1>7, <2>1 DEF MarkFails, Skip, IInv, LocalsFit, Marks
    <3>2. /\ Cardinality(todo[w] \ {Oldest(w)}) = Cardinality(todo[w]) - 1
          /\ Cardinality(todo[w]) \in Nat /\ surplus[w] \in Nat
      BY <1>1, <3>1, ListCards
    <3>3. Cardinality(todo'[w]) <= surplus'[w]
      BY <1>1, <3>1, <3>2
    <3>4. \A v \in Workers \ {w} : todo'[v] = todo[v]
      BY <1>1, <3>1
    <3> QED
      BY <1>1, <3>1, <3>3, <3>4 DEF Covers
  <2>2. CASE NextRow(w).path # "local"
    <3>1. todo' = [todo EXCEPT ![w] = {}] /\ surplus' = [surplus EXCEPT ![w] = 0]
      BY <1>7, <2>2 DEF MarkFails
    <3>2. Cardinality({}) = 0
      BY FS_EmptySet
    <3> QED
      BY <1>1, <3>1, <3>2 DEF Covers
  <2> QED
    BY <2>1, <2>2
<1>8. ASSUME NEW part \in BOOLEAN, Crash(w, part) PROVE Covers(w)
  <2>1. todo' = [todo EXCEPT ![w] = {}] /\ surplus' = [surplus EXCEPT ![w] = 0]
    BY <1>8 DEF Crash
  <2>2. Cardinality({}) = 0
    BY FS_EmptySet
  <2> QED
    BY <1>1, <2>1, <2>2 DEF Covers
<1>9. ASSUME \/ (\E resume \in BOOLEAN : Start(w, resume))
            \/ (\E old \in SUBSET Assets : Scan(w, old)) \/ Requeue(w)
            \/ (\E b \in Assets : Claim(w, b)) \/ Stop(w) \/ StartTask(w)
            \/ (\E media \in Media : Gate(w, media))
            \/ (\E transfer \in Transfers : Download(w, transfer))
            \/ (\E duration \in Durations : Probe(w, duration))
     PROVE Covers(w)
  <2>1. UNCHANGED <<todo, surplus>>
    BY <1>9 DEF Start, Scan, Requeue, Claim, Stop, StartTask, Gate, Download, Probe, Goto, Blame,
       SetStatus, MayClaim, Claimable, Reject, tables, history
  <2> QED
    BY <1>1, <2>1 DEF Covers
<1>10. ASSUME \/ RejectRow(w) \/ RejectTask(w) \/ (\E v \in Verdicts : Pipeline(w, v))
            \/ Decide(w) \/ Boost(w) \/ CreateRun(w) \/ RecordRow(w) \/ CompleteTask(w)
            \/ RecordMatch(w) \/ MatchCommitFails(w)
     PROVE Covers(w)
  <2>1. UNCHANGED <<todo, surplus>>
    BY <1>10 DEF RejectRow, RejectTask, Pipeline, Decide, Boost, CreateRun, RecordRow,
       CompleteTask, RecordMatch, MatchCommitFails, Fault, Goto, SetStatus, AfterTask, local,
       history, tables
  <2> QED
    BY <1>1, <2>1 DEF Covers
<1>11. ASSUME \/ Raise(w) \/ FailTask(w) \/ FailRead(w) \/ FailWrite(w) \/ FailRow(w)
            \/ Done(w) \/ ClearAssets(w)
     PROVE Covers(w)
  <2>1. UNCHANGED <<todo, surplus>>
    BY <1>11 DEF Raise, FailTask, FailRead, FailWrite, FailRow, Done, ClearAssets, Goto, Fault,
       Blame, AfterFailure, tables, history, local
  <2> QED
    BY <1>1, <2>1 DEF Covers
<1> QED
  BY <1>2, <1>3, <1>4, <1>5, <1>6, <1>7, <1>8, <1>9, <1>10, <1>11 DEF StepOf, Work


---------------------------------------------------------------------------
(* The task of an asset.                                                   *)

\* What a step of a worker does to the task of its asset, by where it goes.
TaskSteps(w) ==
  /\ \A a \in Assets : task'[a] # task[a] => mine[w] = a /\ pc[w] \notin Free \union Ended
  /\ \A a \in Assets :
       task'[a] = "completed" =>
         task[a] = "completed" \/ (mine[w] = a /\ pc[w] \in PastDecision /\ job' = job)
  /\ \A a \in Assets :
       \/ job'[a].retries = job[a].retries
       \/ mine[w] = a /\ pc[w] = "fail_write" /\ job'[a].retries > 0
  /\ pc'[w] \in InProgress =>
       /\ mine'[w] = mine[w]
       /\ (pc[w] \in InProgress /\ task' = task) \/ task'[mine[w]] = "in_progress"
  /\ pc'[w] \in AfterTaskDone =>
       /\ mine'[w] = mine[w]
       /\ (pc[w] \in AfterTaskDone /\ task' = task) \/ task'[mine[w]] = "completed"
  /\ pc'[w] \in {"fail_read", "fail_write"} =>
       /\ mine'[w] = mine[w]
       /\ (pc[w] = "fail_read" /\ task' = task) \/ task'[mine[w]] \in {"none", "failed"}
  /\ pc'[w] = "fail_row" => pc[w] = "fail_write" /\ task' = task /\ job'[mine[w]].retries > 0
  /\ pc'[w] = "done" /\ pc[w] # "fail_row" =>
       /\ pc[w] \in PastDecision
       /\ (pc[w] \in AfterTaskDone /\ task' = task) \/ task'[mine[w]] = "completed"
  /\ pc'[w] \in Free /\ pc[w] \notin Free \union Ended => "crash" \in blame'[mine[w]]

(* Setting a status keeps the count of failures.                           *)
LEMMA RetriesKept ==
  ASSUME IInv, NEW a \in Assets \union {NoAsset}, NEW s,
         job' = job \/ job' = SetStatus(a, s)
  PROVE \A b \in Assets : job'[b].retries = job[b].retries
<1>1. \A b \in Assets : job[b] \in [status : Statuses, retries : Nat]
  BY DEF IInv, TypeOK
<1>2. job \in [Assets -> [status : Statuses, retries : Nat]]
  BY DEF IInv, TypeOK
<1> QED
  BY <1>1, <1>2 DEF SetStatus

(* The task changes as its comment says.                                   *)
LEMMA TasksStep ==
  ASSUME IInv, NEW w \in Workers, StepOf(w)
  PROVE TaskSteps(w)
<1> USE PrototypeAssumption
<1>1. /\ pc \in [Workers -> PCs] /\ mine[w] \in Assets \union {NoAsset}
      /\ (pc[w] \in Free <=> mine[w] = NoAsset) /\ NoAsset \notin Assets
      /\ task \in [Assets -> {"none", "in_progress", "completed", "failed"}]
  BY PrototypeAssumption DEF IInv, TypeOK, LocalsFit
<1>2. ASSUME Requeue(w) PROVE TaskSteps(w)
  <2>1. \A a \in Assets : job'[a].retries = job[a].retries
    <3>1. \A a \in Assets : job[a] \in [status : Statuses, retries : Nat]
      BY DEF IInv, TypeOK
    <3> QED
      BY <1>2, <3>1 DEF Requeue
  <2> QED
    BY <1>1, <1>2, <2>1 DEF Requeue, Goto, TaskSteps, Free, Ended, InProgress, AfterTaskDone,
       PastDecision, AfterVerdict, Policies
<1>3. ASSUME NEW b \in Assets, Claim(w, b) PROVE TaskSteps(w)
  <2>1. /\ job' = SetStatus(b, "claimed")
        /\ UNCHANGED <<task>>
    BY <1>3 DEF Claim
  <2>2. \A a \in Assets : job'[a].retries = job[a].retries
    BY <1>1, <2>1, RetriesKept
  <2> QED
    BY <1>1, <1>3, <2>1, <2>2 DEF Claim, Goto, TaskSteps, Free, Ended, InProgress, AfterTaskDone,
       PastDecision, AfterVerdict, Policies
<1>4. ASSUME StartTask(w) PROVE TaskSteps(w)
  BY <1>1, <1>4 DEF StartTask, Goto, history, TaskSteps, Free, Ended, InProgress, AfterTaskDone,
     PastDecision, AfterVerdict, Policies
<1>5. ASSUME NEW media \in Media, Gate(w, media) PROVE TaskSteps(w)
  <2>1. /\ job' = job \/ job' = SetStatus(mine[w], "rejected_non_video")
        /\ UNCHANGED <<task, mine>>
    BY <1>5 DEF Gate, Reject
  <2>2. \A a \in Assets : job'[a].retries = job[a].retries
    BY <1>1, <2>1, RetriesKept
  <2> QED
    BY <1>1, <1>5, <2>1, <2>2 DEF Gate, Goto, Reject, TaskSteps, Free, Ended, InProgress,
       AfterTaskDone, PastDecision, AfterVerdict, Policies
<1>6. ASSUME NEW duration \in Durations, Probe(w, duration) PROVE TaskSteps(w)
  <2>1. /\ job' = job \/ job' = SetStatus(mine[w], "rejected_too_short")
        /\ UNCHANGED <<task, mine>>
    BY <1>6 DEF Probe, Reject
  <2>2. \A a \in Assets : job'[a].retries = job[a].retries
    BY <1>1, <2>1, RetriesKept
  <2> QED
    BY <1>1, <1>6, <2>1, <2>2 DEF Probe, Goto, Reject, TaskSteps, Free, Ended, InProgress,
       AfterTaskDone, PastDecision, AfterVerdict, Policies
<1>7. ASSUME RejectTask(w) PROVE TaskSteps(w)
  BY <1>1, <1>7 DEF RejectTask, Goto, history, TaskSteps, Free, Ended, InProgress, AfterTaskDone,
     PastDecision, AfterVerdict, Policies
<1>8. ASSUME Decide(w) PROVE TaskSteps(w)
  <2>1. /\ job' = SetStatus(mine[w], verdict[w])
        /\ UNCHANGED <<task, mine>>
    BY <1>8 DEF Decide
  <2>2. \A a \in Assets : job'[a].retries = job[a].retries
    BY <1>1, <2>1, RetriesKept
  <2> QED
    BY <1>1, <1>8, <2>1, <2>2 DEF Decide, Goto, TaskSteps, Free, Ended, InProgress, AfterTaskDone,
       PastDecision, AfterVerdict, Policies
<1>9. ASSUME CompleteTask(w) PROVE TaskSteps(w)
  BY <1>1, <1>9 DEF CompleteTask, Goto, AfterTask, history, TaskSteps, Free, Ended, InProgress,
     AfterTaskDone, PastDecision, AfterVerdict, Policies
<1>10. ASSUME MarkFails(w) PROVE TaskSteps(w)
  BY <1>1, <1>10 DEF MarkFails, Goto, Skip, Fault, Blame, tables, local, TaskSteps, Free, Ended,
     InProgress, AfterTaskDone, PastDecision, AfterVerdict, Policies
<1>11. ASSUME Raise(w) PROVE TaskSteps(w)
  BY <1>1, <1>11 DEF Raise, Goto, Raising, Fault, Blame, tables, TaskSteps, Free, Ended,
     InProgress,
     AfterTaskDone, PastDecision, AfterVerdict, Policies
<1>12. ASSUME FailTask(w) PROVE TaskSteps(w)
  BY <1>1, <1>12 DEF FailTask, Goto, history, TaskSteps, Free, Ended, InProgress, AfterTaskDone,
     PastDecision, AfterVerdict, Policies
<1>13. ASSUME FailWrite(w) PROVE TaskSteps(w)
  <2>1. /\ pc[w] = "fail_write" /\ mine[w] \in Assets /\ mine' = mine /\ task' = task
        /\ pc' = [pc EXCEPT ![w] = "fail_row"]
    BY <1>1, <1>13 DEF FailWrite, Goto, Free
  <2>2. PICK s \in {"pending", "failed"} :
          job' = [job EXCEPT ![mine[w]] = [status |-> s, retries |-> seen[w] + 1]]
    BY <1>13 DEF FailWrite, AfterFailure
  <2>3. seen[w] + 1 > 0 /\ DOMAIN job = Assets
    BY DEF IInv, TypeOK
  <2>4. /\ job'[mine[w]].retries > 0
        /\ \A a \in Assets \ {mine[w]} : job'[a] = job[a]
    BY <2>1, <2>2, <2>3
  <2> QED
    BY <1>1, <2>1, <2>4 DEF TaskSteps, Free, Ended, InProgress, AfterTaskDone, PastDecision,
       AfterVerdict, Policies
<1>14. ASSUME NEW part \in BOOLEAN, Crash(w, part) PROVE TaskSteps(w)
  <2>1. /\ UNCHANGED <<task, job>> /\ pc' = [pc EXCEPT ![w] = "off"]
        /\ Blame({mine[w]} \ {NoAsset}, "crash")
    BY <1>14 DEF Crash, tables
  <2>2. mine[w] \in Assets => "crash" \in blame'[mine[w]]
    BY <1>1, <2>1, BlameAdds DEF IInv
  <2> QED
    BY <1>1, <2>1, <2>2 DEF TaskSteps, Free, Ended, InProgress, AfterTaskDone, PastDecision,
       AfterVerdict, Policies
<1>15. ASSUME \/ (\E resume \in BOOLEAN : Start(w, resume))
            \/ (\E old \in SUBSET Assets : Scan(w, old)) \/ Stop(w)
            \/ (\E transfer \in Transfers : Download(w, transfer))
     PROVE TaskSteps(w)
  BY <1>1, <1>15 DEF Start, Scan, Stop, Download, Goto, tables, history, TaskSteps, Free, Ended,
     InProgress, AfterTaskDone, PastDecision, AfterVerdict, Policies
<1>16. ASSUME \/ RejectRow(w) \/ (\E v \in Verdicts : Pipeline(w, v)) \/ Boost(w)
            \/ CreateRun(w)
     PROVE TaskSteps(w)
  BY <1>1, <1>16 DEF RejectRow, Pipeline, Boost, CreateRun, Goto, local, history, tables,
     TaskSteps, Free, Ended, InProgress, AfterTaskDone, PastDecision, AfterVerdict, Policies
<1>17. ASSUME \/ RecordRow(w) \/ RecordMatch(w) \/ MatchCommitFails(w) \/ List(w) \/ Swept(w)
     PROVE TaskSteps(w)
  BY <1>1, <1>17 DEF RecordRow, RecordMatch, MatchCommitFails, Fault, List, Swept, Goto, local,
     history, tables, TaskSteps,
     Free, Ended, InProgress, AfterTaskDone, PastDecision, AfterVerdict, Policies
<1>18. ASSUME \/ Unlink(w) \/ UnlinkFails(w) \/ MarkDeleted(w) \/ FailRead(w)
     PROVE TaskSteps(w)
  BY <1>1, <1>18 DEF Unlink, UnlinkFails, MarkDeleted, FailRead, Goto, Skip, Fault, Blame, tables,
     history, TaskSteps, Free, Ended, InProgress, AfterTaskDone, PastDecision, AfterVerdict,
     Policies
<1>19. ASSUME \/ FailRow(w) \/ Done(w) \/ ClearAssets(w)
     PROVE TaskSteps(w)
  BY <1>1, <1>19 DEF FailRow, Done, ClearAssets, Goto, Fault, Blame, history, tables, local,
     TaskSteps, Free, Ended, InProgress, AfterTaskDone, PastDecision, AfterVerdict, Policies
<1> QED
  BY <1>2, <1>3, <1>4, <1>5, <1>6, <1>7, <1>8, <1>9, <1>10, <1>11, <1>12, <1>13, <1>14, <1>15,
     <1>16, <1>17, <1>18, <1>19 DEF StepOf, Work

(* Only its own worker changes the task of an asset.                       *)
LEMMA TaskOfWorkerKeeps ==
  ASSUME IInv, NEW w \in Workers, Others(w), Remembers, TaskSteps(w)
  PROVE TaskOfWorker'
<1> SUFFICES ASSUME NEW v \in Workers, NEW a \in Assets, Working(v, a)', "overlap" \notin blame'[a]
             PROVE /\ pc'[v] \in InProgress => task'[a] = "in_progress"
                   /\ pc'[v] \in AfterTaskDone => task'[a] = "completed"
                   /\ pc'[v] \in {"fail_read", "fail_write"} => task'[a] \in {"none", "failed"}
  BY DEF TaskOfWorker, InProgress, AfterTaskDone, AfterVerdict, Policies
<1>1. blame[a] \subseteq blame'[a] /\ "overlap" \notin blame[a]
  BY DEF Remembers
<1>2. CASE v # w
  <2>1. Working(v, a) /\ pc'[v] = pc[v]
    BY <1>2 DEF Others, Working
  <2>2. task'[a] = task[a]
    BY <1>1, <1>2, <2>1 DEF TaskSteps, IInv, SoleWorker, Working, Ended
  <2> QED
    BY <1>1, <2>1, <2>2 DEF IInv, TaskOfWorker
<1>3. CASE v = w
  <2>1. pc'[w] \notin {"fail_row", "done"} /\ mine'[w] = a
    BY <1>3 DEF Working
  <2>2. ASSUME pc[w] \notin {"fail_row", "done"}, mine[w] = a
        PROVE Working(w, a)
    BY <2>2 DEF Working
  <2>3. CASE pc'[w] \in InProgress
    <3>1. pc'[w] \notin AfterTaskDone \union {"fail_read", "fail_write"}
      BY <2>3 DEF InProgress, AfterTaskDone, AfterVerdict, Policies
    <3>2. pc[w] \in InProgress => pc[w] \notin {"fail_row", "done"}
      BY DEF InProgress, AfterVerdict
    <3> QED
      BY <1>1, <1>3, <2>1, <2>2, <2>3, <3>1, <3>2 DEF TaskSteps, IInv, TaskOfWorker
  <2>4. CASE pc'[w] \in AfterTaskDone
    <3>1. pc'[w] \notin InProgress \union {"fail_read", "fail_write"}
      BY <2>4 DEF InProgress, AfterTaskDone, AfterVerdict, Policies
    <3>2. pc[w] \in AfterTaskDone => pc[w] \notin {"fail_row", "done"}
      BY DEF AfterTaskDone, Policies
    <3> QED
      BY <1>1, <1>3, <2>1, <2>2, <2>4, <3>1, <3>2 DEF TaskSteps, IInv, TaskOfWorker
  <2>5. CASE pc'[w] \in {"fail_read", "fail_write"}
    <3>1. pc'[w] \notin InProgress \union AfterTaskDone
      BY <2>5 DEF InProgress, AfterTaskDone, AfterVerdict, Policies
    <3> QED
      BY <1>1, <1>3, <2>1, <2>2, <2>5, <3>1 DEF TaskSteps, IInv, TaskOfWorker
  <2> QED
    BY <1>3, <2>3, <2>4, <2>5
<1> QED
  BY <1>2, <1>3

(* A worker leaves its asset with a task that fits the job.                *)
LEMMA TaskOfIdleKeeps ==
  ASSUME IInv, NEW w \in Workers, Others(w), Remembers, Kind(w), TaskSteps(w)
  PROVE TaskOfIdle'
<1> SUFFICES ASSUME NEW a \in Assets, blame'[a] \intersect {"overlap", "crash"} = {},
                    \A v \in Workers : ~Working(v, a)'
             PROVE \/ /\ task'[a] = "none"
                      /\ job'[a].status = "pending" \/ job'[a].retries > 0
                   \/ task'[a] = "completed"
                   \/ /\ task'[a] = "failed" /\ job'[a].status \in {"pending", "failed"}
                      /\ job'[a].retries > 0
  BY DEF TaskOfIdle
<1>1. blame[a] \subseteq blame'[a] /\ blame[a] \intersect {"overlap", "crash"} = {}
  BY DEF Remembers
<1>2. \A v \in Workers \ {w} : ~Working(v, a)
  BY DEF Others, Working
<1>3. CASE ~Working(w, a)
  <2>1. task'[a] = task[a] /\ job'[a].retries = job[a].retries
    BY <1>3 DEF TaskSteps, Working, Ended
  <2>2. job'[a].status = job[a].status \/ job'[a].status = "pending"
    <3>1. CASE KeepsJobs
      BY <3>1 DEF KeepsJobs, KeepsStatus
    <3>2. CASE GivesBack(w)
      BY <3>2 DEF GivesBack, KeepsStatus
    <3>3. CASE Claims(w)
      BY <3>3 DEF Claims, KeepsStatus, Working
    <3>4. CASE Decides(w) \/ Fails(w)
      BY <1>3, <3>4 DEF Decides, Fails, KeepsOthers, KeepsStatus, Working, Undecided
    <3> QED
      BY <3>1, <3>2, <3>3, <3>4 DEF Kind, IsFree, GoesOn, Ends
  <2> QED
    BY <1>1, <1>2, <1>3, <2>1, <2>2 DEF IInv, TaskOfIdle
<1>4. CASE Working(w, a)
  <2>1. mine[w] = a /\ pc[w] \notin Free \union Ended
    BY <1>4, PrototypeAssumption DEF Working, Ended, IInv, LocalsFit
  <2>2. CASE pc'[w] = "fail_row"
    <3>1. pc[w] = "fail_write" /\ task'[a] = task[a] /\ job'[a].retries > 0
      BY <2>1, <2>2 DEF TaskSteps
    <3>2. task[a] \in {"none", "failed"}
      BY <1>1, <1>4, <3>1 DEF IInv, TaskOfWorker
    <3>3. job'[a].status \in {"pending", "failed"}
      BY <2>1, <2>2, <3>1
         DEF Kind, IsFree, GivesBack, Claims, GoesOn, Decides, Fails, Ends, Free, Ended,
         PastDecision,
         AfterVerdict, AfterTaskDone, Policies
    <3> QED
      BY <3>1, <3>2, <3>3
  <2>3. CASE pc'[w] = "done"
    BY <1>1, <1>4, <2>1, <2>3 DEF TaskSteps, Ended, IInv, TaskOfWorker
  <2>4. CASE pc'[w] \notin Ended
    <3>1. mine'[w] # a
      BY <2>4 DEF Working, Ended
    <3>2. pc'[w] \in Free
      BY <2>1, <3>1
         DEF Kind, IsFree, GivesBack, Claims, GoesOn, Decides, Fails, Ends, KeepsMine, Free
    <3> QED
      BY <2>1, <3>2 DEF TaskSteps
  <2> QED
    BY <2>2, <2>3, <2>4 DEF Ended
<1> QED
  BY <1>3, <1>4

(* A job is decided before its task is completed, and its task is failed   *)
(* before its decision goes.                                               *)
LEMMA TaskDecidedKeeps ==
  ASSUME IInv, NEW w \in Workers, Others(w), Remembers, Kind(w), TaskSteps(w)
  PROVE TaskDecided'
<1> SUFFICES ASSUME NEW a \in Assets, "overlap" \notin blame'[a], task'[a] = "completed"
             PROVE job'[a].status \in Decided
  BY DEF TaskDecided
<1>1. "overlap" \notin blame[a]
  BY DEF Remembers
<1>2. CASE task[a] = "completed"
  <2>1. job[a].status \in Decided
    BY <1>1, <1>2 DEF IInv, TaskDecided
  <2>2. CASE KeepsJobs
    BY <2>1, <2>2 DEF KeepsJobs, KeepsStatus
  <2>3. CASE GivesBack(w)
    BY <2>1, <2>3, VerdictSet DEF GivesBack, KeepsStatus
  <2>4. CASE Claims(w)
    BY <2>1, <2>4, VerdictSet DEF Claims, KeepsStatus
  <2>5. CASE Decides(w)
    BY <2>1, <2>5 DEF Decides, KeepsOthers, KeepsStatus
  <2>6. CASE Fails(w)
    <3>1. mine[w] # a
      BY <1>1, <1>2, <2>6 DEF Fails, IInv, TaskOfWorker, Working, InProgress, AfterVerdict,
         AfterTaskDone, Policies
    <3> QED
      BY <2>1, <2>6, <3>1 DEF Fails, KeepsOthers, KeepsStatus
  <2> QED
    BY <2>2, <2>3, <2>4, <2>5, <2>6 DEF Kind, IsFree, GoesOn, Ends
<1>3. CASE task[a] # "completed"
  <2>1. mine[w] = a /\ pc[w] \in PastDecision /\ job' = job
    BY <1>3 DEF TaskSteps
  <2>2. job[a].status = verdict[w] /\ verdict[w] \in Decided
    BY <1>1, <2>1 DEF IInv, VerdictIsStatus, LocalsFit
  <2> QED
    BY <2>1, <2>2
<1> QED
  BY <1>2, <1>3

---------------------------------------------------------------------------
(* The limit on the rejected downloads.                                    *)

Enforces == {"enforce", "enforce_mark"}

Sweeps(w) ==
  /\ pc[w] = "enforce" /\ pc'[w] = "done"
  /\ todo[w] = {} \/ surplus[w] <= MaxRejected
  /\ UNCHANGED <<rows, files, blame, mine>>
ListsRejected(w) ==
  /\ pc[w] = "enforce_list" /\ pc'[w] = "enforce"
  /\ todo'[w] = Listed(Rejections)
  /\ UNCHANGED <<rows, files, blame, mine>>

\* A worker that rejects goes on until its policy has done with the list, or else
\* is to blame; a row leaves its list with its file gone.
RetainSteps(w) ==
  /\ pc[w] = "reject_row" => rows' = rows \/ (pc'[w] = "reject_task" /\ mine'[w] = mine[w])
  /\ pc'[w] \in Enforces => pc[w] \in Enforces \/ ListsRejected(w)
  /\ pc[w] \in Rejecting =>
       \/ pc'[w] \in Rejecting /\ mine'[w] = mine[w]
       \/ blame'[mine[w]] # {}
       \/ Sweeps(w)
  /\ pc[w] \in Enforces /\ pc'[w] \in Enforces =>
       \/ todo'[w] = todo[w]
       \/ /\ todo[w] # {} /\ todo'[w] = todo[w] \ {Oldest(w)}
          /\ \/ NextRow(w).path = "none"
             \/ pc[w] = "enforce_mark" /\ files' = files
             \/ blame'[NextRow(w).asset] # {}

(* The steps of a rejection are those its comment says.                    *)
LEMMA RetainStep ==
  ASSUME IInv, NEW w \in Workers, StepOf(w)
  PROVE RetainSteps(w)
<1> USE PrototypeAssumption
<1>1. /\ pc \in [Workers -> PCs] /\ todo \in [Workers -> SUBSET DOMAIN rows]
      /\ (pc[w] \in Marks => todo[w] # {}) /\ verdict[w] \in Decided \union {"pending"}
  BY DEF IInv, TypeOK, LocalsFit
<1>2. ASSUME List(w) PROVE RetainSteps(w)
  <2>1. /\ pc[w] \in {"sweep_list", "enforce_list"}
        /\ UNCHANGED <<rows, files, blame, mine>>
        /\ \/ pc[w] = "sweep_list" /\ pc'[w] = "sweep"
           \/ pc[w] = "enforce_list" /\ pc'[w] = "enforce" /\ todo'[w] = Listed(Rejections)
    BY <1>1, <1>2 DEF List, Goto, tables, history
  <2> QED
    BY <2>1 DEF RetainSteps, Enforces, Rejecting, ListsRejected
<1>3. ASSUME Swept(w) PROVE RetainSteps(w)
  <2>1. /\ pc[w] \in {"sweep", "enforce"} /\ pc'[w] = "done"
        /\ todo[w] = {} \/ (pc[w] = "enforce" /\ surplus[w] <= MaxRejected)
        /\ UNCHANGED <<rows, files, blame, mine>>
    BY <1>1, <1>3 DEF Swept, Goto, Enough, tables, history
  <2> QED
    BY <2>1 DEF RetainSteps, Enforces, Rejecting, Sweeps
<1>4. ASSUME Unlink(w) PROVE RetainSteps(w)
  <2>1. /\ pc[w] \in {"sweep", "enforce"} /\ todo[w] # {} /\ UNCHANGED <<rows, mine>>
        /\ \/ /\ PassedBy(w) /\ pc' = pc /\ todo' = [todo EXCEPT ![w] = @ \ {Oldest(w)}]
           \/ /\ todo' = todo
              /\ pc' = [pc EXCEPT ![w] = IF pc[w] = "sweep" THEN "sweep_mark" ELSE "enforce_mark"]
    BY <1>4 DEF Unlink, Skip, Goto, tables
  <2> QED
    BY <1>1, <2>1 DEF PassedBy, RetainSteps, Enforces, Rejecting, Sweeps, ListsRejected, Marks
<1>5. ASSUME UnlinkFails(w) PROVE RetainSteps(w)
  <2>1. /\ pc' = pc /\ mine' = mine /\ todo[w] # {} /\ pc[w] \in {"sweep", "enforce"}
        /\ todo' = [todo EXCEPT ![w] = @ \ {Oldest(w)}] /\ Blame({NextRow(w).asset}, "kept")
    BY <1>5 DEF UnlinkFails, Skip
  <2>2. NextRow(w).asset \in Assets
    BY <2>1, ListCards, RowsAreTyped, RowHasAsset DEF NextRow
  <2>3. blame'[NextRow(w).asset] # {}
    BY <2>1, <2>2, BlameAdds DEF IInv
  <2> QED
    BY <1>1, <2>1, <2>3 DEF RetainSteps, Enforces, Rejecting, Sweeps, ListsRejected, Marks
<1>6. ASSUME MarkFails(w) PROVE RetainSteps(w)
  <2>1. CASE NextRow(w).path = "local"
    BY <1>1, <1>6, <2>1 DEF MarkFails, Goto, Skip, RetainSteps, Enforces, Rejecting, Sweeps,
       ListsRejected, Marks
  <2>2. CASE NextRow(w).path # "local"
    <3>1. /\ pc[w] \in Marks /\ pc' = [pc EXCEPT ![w] = "fail_task"]
          /\ Blame({mine[w]}, "raise")
      BY <1>6, <2>2 DEF MarkFails, Goto, Marks
    <3>2. mine[w] \in Assets
      BY <3>1, HasAsset DEF IInv, Free, Marks
    <3>3. blame'[mine[w]] # {}
      BY <3>1, <3>2, BlameAdds DEF IInv
    <3> QED
      BY <1>1, <3>1, <3>3 DEF RetainSteps, Enforces, Rejecting, Sweeps, ListsRejected, Marks
  <2> QED
    BY <2>1, <2>2
<1>7. ASSUME Raise(w) PROVE RetainSteps(w)
  <2>1. /\ pc[w] \in Raising /\ pc' = [pc EXCEPT ![w] = "fail_task"] /\ rows' = rows
        /\ Blame(IF pc[w] \in Undecided THEN {} ELSE {mine[w]}, "raise")
    BY <1>7 DEF Raise, Goto, tables
  <2>2. pc[w] \in Rejecting => pc[w] \notin Undecided /\ mine[w] \in Assets
    BY HasAsset DEF Rejecting, Undecided, IInv, Free
  <2>3. pc[w] \in Rejecting => blame'[mine[w]] # {}
    BY <2>1, <2>2, BlameAdds DEF IInv
  <2>4. pc'[w] = "fail_task" /\ "fail_task" \notin Enforces
    BY <1>1, <2>1 DEF Enforces
  <2> QED
    BY <2>1, <2>3, <2>4 DEF RetainSteps
<1>8. ASSUME NEW part \in BOOLEAN, Crash(w, part) PROVE RetainSteps(w)
  <2>1. pc'[w] = "off" /\ rows' = rows /\ Blame({mine[w]} \ {NoAsset}, "crash")
    BY <1>1, <1>8 DEF Crash, tables
  <2>2. pc[w] \in Rejecting => mine[w] \in Assets /\ mine[w] # NoAsset
    BY HasAsset DEF Rejecting, IInv, Free
  <2>3. pc[w] \in Rejecting => blame'[mine[w]] # {}
    BY <2>1, <2>2, BlameAdds DEF IInv
  <2>4. pc'[w] \notin Enforces
    BY <2>1 DEF Enforces
  <2> QED
    BY <2>1, <2>3, <2>4 DEF RetainSteps
<1>9. ASSUME \/ (\E resume \in BOOLEAN : Start(w, resume))
            \/ (\E old \in SUBSET Assets : Scan(w, old)) \/ Requeue(w)
            \/ (\E b \in Assets : Claim(w, b)) \/ Stop(w)
     PROVE RetainSteps(w)
  BY <1>1, <1>9 DEF Start, Scan, Requeue, Claim, Stop, Goto, Blame, SetStatus, MayClaim,
     Claimable, tables, history, RetainSteps, Enforces, Rejecting, Sweeps, ListsRejected, Marks
<1>10. ASSUME \/ StartTask(w) \/ (\E media \in Media : Gate(w, media))
            \/ (\E transfer \in Transfers : Download(w, transfer))
            \/ (\E duration \in Durations : Probe(w, duration)) \/ RejectRow(w)
     PROVE RetainSteps(w)
  BY <1>1, <1>10 DEF StartTask, Gate, Download, Probe, RejectRow, Goto, Reject, SetStatus,
     history, tables, local, RetainSteps, Enforces, Rejecting, Sweeps, ListsRejected, Marks
<1>11. ASSUME \/ RejectTask(w) \/ (\E v \in Verdicts : Pipeline(w, v)) \/ Decide(w)
            \/ Boost(w) \/ CreateRun(w)
     PROVE RetainSteps(w)
  BY <1>1, <1>11 DEF RejectTask, Pipeline, Decide, Boost, CreateRun, Goto, SetStatus, history,
     tables, RetainSteps, Enforces, Rejecting, Sweeps, ListsRejected, Marks
<1>12. ASSUME \/ RecordRow(w) \/ CompleteTask(w) \/ RecordMatch(w)
            \/ MatchCommitFails(w) \/ MarkDeleted(w) \/ FailTask(w)
     PROVE RetainSteps(w)
  BY <1>1, <1>12 DEF RecordRow, CompleteTask, RecordMatch, MatchCommitFails, Fault, MarkDeleted,
     FailTask, Goto, AfterTask, Skip, local, history, RetainSteps, Enforces, Rejecting, Sweeps,
     ListsRejected, Marks
<1>13. ASSUME \/ FailRead(w) \/ FailWrite(w) \/ FailRow(w) \/ Done(w) \/ ClearAssets(w)
     PROVE RetainSteps(w)
  BY <1>1, <1>13 DEF FailRead, FailWrite, FailRow, Done, ClearAssets, Goto, AfterFailure, Fault,
     Blame, tables, history, local, RetainSteps, Enforces, Rejecting, Sweeps, ListsRejected, Marks
<1> QED
  BY <1>2, <1>3, <1>4, <1>5, <1>6, <1>7, <1>8, <1>9, <1>10, <1>11, <1>12, <1>13 DEF StepOf, Work


(* Rows have no more assets than there are rows.                           *)
LEMMA AssetsOfRows ==
  ASSUME rows \in Seq(Rows), NEW T \in SUBSET DOMAIN rows
  PROVE /\ IsFiniteSet({rows[i].asset : i \in T})
        /\ Cardinality({rows[i].asset : i \in T}) <= Cardinality(T)
<1> DEFINE f == [i \in T |-> rows[i].asset]
<1>1. f \in Surjection(T, {rows[i].asset : i \in T})
  BY DEF Surjection
<1>2. IsFiniteSet(T)
  BY RowNumbers
<1> QED
  BY <1>1, <1>2, FS_Surjection

(* What counts is finite.                                                  *)
LEMMA CountedFinite ==
  ASSUME rows \in Seq(Rows), NEW S
  PROVE /\ IsFiniteSet(Counted(S))
        /\ \A X \in SUBSET Counted(S) :
             IsFiniteSet(X) /\ Cardinality(X) \in Nat /\ Cardinality(X) <= Cardinality(Counted(S))
<1>1. Counted(S) \subseteq {rows[i].asset : i \in DOMAIN rows}
  BY DEF Counted, Spotless, RejectedOnDisk
<1>2. IsFiniteSet(Counted(S))
  BY <1>1, AssetsOfRows, FS_Subset
<1> QED
  BY <1>2, FS_Subset, FS_CardinalityType

(* What was listed last is no more than its surplus.                       *)
LEMMA OnListBounded ==
  ASSUME IInv, NEW w \in Workers, NEW X \in SUBSET OnList(w),
         todo[w] = {} \/ surplus[w] <= MaxRejected
  PROVE Cardinality(X) <= MaxRejected
<1> DEFINE T == {j \in todo[w] : rows[j].path = "local"}
<1>1. rows \in Seq(Rows) /\ todo[w] \in SUBSET DOMAIN rows
  BY RowsAreTyped DEF IInv, TypeOK
<1>2. /\ IsFiniteSet(OnList(w)) /\ Cardinality(OnList(w)) <= Cardinality(T)
      /\ Cardinality(OnList(w)) \in Nat
  BY <1>1, AssetsOfRows, FS_CardinalityType DEF OnList
<1>3. /\ Cardinality(X) <= Cardinality(OnList(w)) /\ Cardinality(X) \in Nat
  BY <1>2, FS_Subset, FS_CardinalityType
<1>4. /\ Cardinality(T) \in Nat /\ Cardinality(todo[w]) \in Nat
      /\ Cardinality(T) <= Cardinality(todo[w])
  BY <1>1, RowNumbers, FS_Subset
<1>5. Cardinality(todo[w]) <= surplus[w] /\ surplus[w] \in Nat /\ MaxRejected \in Nat
  BY PrototypeAssumption DEF IInv, TypeOK, LocalsFit
<1>6. todo[w] = {} => Cardinality(todo[w]) = 0
  BY FS_EmptySet
<1> HIDE DEF T
<1> QED
  BY <1>2, <1>3, <1>4, <1>5, <1>6

(* Only a worker that rejects it adds to what counts.                      *)
LEMMA SpotlessGrows ==
  ASSUME IInv, NEW w \in Workers, Remembers, RowSteps(w), FileSteps(w), RetainSteps(w),
         NEW a \in Spotless'
  PROVE a \in Spotless \/ (mine'[w] = a /\ pc'[w] = "reject_task")
<1>1. PICK i \in DOMAIN rows' :
        rows'[i].asset = a /\ rows'[i].path = "local" /\ rows'[i].decision \in Rejections
  BY DEF Spotless, RejectedOnDisk
<1>2. a \in files' /\ blame'[a] = {} /\ a \in Assets
  BY DEF Spotless, RejectedOnDisk, FileSteps
<1>3. blame[a] = {}
  BY <1>2 DEF Remembers
<1>4. CASE pc[w] \in Recording /\ mine[w] = a /\ rows'[i].decision = verdict[w] /\ rows' # rows
  <2>1. pc[w] # "row"
    <3>1. pc[w] = "row" => verdict[w] \in Verdicts
      BY DEF IInv, LocalsFit, AfterVerdict
    <3> QED
      BY <1>1, <1>4, <3>1, VerdictSet DEF Rejections
  <2> QED
    BY <1>4, <2>1 DEF RetainSteps, Recording
<1>5. CASE i \in DOMAIN rows /\ rows'[i].decision = rows[i].decision
  <2>1. rows[i].asset = a /\ rows[i].path = "local"
    BY <1>1, <1>5 DEF RowSteps
  <2>2. a \in files
    <3>1. ~Owns(w, a)
      BY <1>3, <1>5, <2>1, OwnerHasNoRow
    <3> QED
      BY <1>2, <3>1 DEF FileSteps, Owns, Undecided
  <2> QED
    BY <1>1, <1>3, <1>5, <2>1, <2>2 DEF Spotless, RejectedOnDisk
<1>6. i \notin DOMAIN rows => rows' # rows
  OBVIOUS
<1> QED
  BY <1>1, <1>4, <1>5, <1>6 DEF RowSteps

(* A list read now has everything that counts.                             *)
LEMMA ListedAll ==
  ASSUME IInv, NEW w \in Workers, ListsRejected(w), NEW S
  PROVE Counted(S)' \subseteq OnList(w)'
<1> SUFFICES ASSUME NEW a \in Counted(S)' PROVE a \in OnList(w)'
  OBVIOUS
<1>1. /\ rows' = rows /\ files' = files /\ blame' = blame
      /\ todo'[w] = {i \in DOMAIN rows : rows[i].decision \in Rejections /\ ~rows[i].deleted}
  BY DEF ListsRejected, Listed
<1>2. PICK i \in DOMAIN rows :
        /\ rows[i].asset = a /\ rows[i].path = "local" /\ rows[i].decision \in Rejections
        /\ a \in files /\ blame[a] = {}
  BY <1>1 DEF Counted, Spotless, RejectedOnDisk
<1>3. ~rows[i].deleted
  BY <1>2 DEF IInv, DeletedGone
<1>4. i \in todo'[w]
  BY <1>1, <1>2, <1>3
<1> QED
  BY <1>1, <1>2, <1>4 DEF OnList

(* What counts and is on a list stays on it.                               *)
LEMMA StaysListed ==
  ASSUME IInv, NEW w \in Workers, Others(w), Remembers, RowSteps(w), MarkSteps(w), RetainSteps(w),
         NEW v \in Workers, v # w \/ (pc[w] \in Enforces /\ pc'[w] \in Enforces),
         NEW a \in OnList(v), a \in Spotless'
  PROVE a \in OnList(v)'
<1>1. PICK i \in todo[v] : rows[i].path = "local" /\ rows[i].asset = a
  BY DEF OnList
<1>2. i \in DOMAIN rows
  BY DEF IInv, TypeOK
<1>3. rows'[i].path = "local" /\ rows'[i].asset = a
  BY <1>1, <1>2 DEF RowSteps
<1>4. a \in files' /\ blame'[a] = {} /\ blame[a] = {}
  BY RowsAreTyped, RowHasAsset, <1>1, <1>2 DEF Spotless, RejectedOnDisk, Remembers
<1>5. i \in todo'[v]
  <2>1. CASE v # w
    BY <2>1 DEF MarkSteps
  <2>2. CASE v = w
    <3>1. CASE todo'[w] = todo[w]
      BY <2>2, <3>1
    <3>2. CASE todo'[w] = todo[w] \ {Oldest(w)} /\ i # Oldest(w)
      BY <2>2, <3>2
    <3>3. CASE i = Oldest(w)
      <4>1. NextRow(w).path = "local" /\ NextRow(w).asset = a
        BY <1>1, <3>3 DEF NextRow
      <4>2. pc[w] = "enforce_mark" => a \notin files
        BY <1>4, <4>1 DEF IInv, MarkedGone, Marks
      <4> QED
        BY <1>4, <2>2, <3>1, <4>1, <4>2 DEF RetainSteps
    <3> QED
      BY <2>2, <3>1, <3>2, <3>3 DEF RetainSteps
  <2> QED
    BY <2>1, <2>2
<1> QED
  BY <1>3, <1>5 DEF OnList

(* Whoever has listed last answers for all that counts.                    *)
LEMMA LastListBoundsKeeps ==
  ASSUME IInv, NEW w \in Workers, Others(w), Remembers, RowSteps(w), FileSteps(w), MarkSteps(w),
         RetainSteps(w)
  PROVE LastListBounds'
<1> SUFFICES ASSUME NEW S \in SUBSET Enforcing'
             PROVE \/ Cardinality(Counted(S)') <= MaxRejected
                   \/ \E v \in S : Counted(S)' \subseteq OnList(v)'
  BY DEF LastListBounds
<1>1. \A v \in S : v \in Workers /\ pc'[v] \in Enforces
  BY DEF Enforcing, Enforces
<1>2. \A v \in S \ {w} : v \in Enforcing
  BY <1>1 DEF Others, Enforcing, Enforces
<1>3. CASE w \in S /\ ListsRejected(w)
  BY <1>3, ListedAll
<1>4. CASE ~(w \in S /\ ListsRejected(w))
  <2> DEFINE R == IF Sweeps(w) THEN S \union {w} ELSE S
  <2>1. R \in SUBSET Enforcing
    BY <1>1, <1>2, <1>4 DEF RetainSteps, Sweeps, Enforcing, Enforces
  <2>2. Counted(S)' \subseteq Counted(R)
    <3> SUFFICES ASSUME NEW a \in Counted(S)' PROVE a \in Counted(R)
      OBVIOUS
    <3>1. /\ a \in Spotless' /\ blame'[a] = {}
          /\ \A v \in Workers : pc'[v] \in Rejecting /\ v \notin S => mine'[v] # a
      BY DEF Counted, Spotless, Rejecting
    <3>2. a \in Spotless
      <4>1. "reject_task" \in Rejecting /\ "reject_task" \notin Enforces
        BY DEF Rejecting, Enforces
      <4> QED
        BY <1>1, <3>1, <4>1, SpotlessGrows
    <3>3. ASSUME NEW v \in Workers, pc[v] \in Rejecting, v \notin R PROVE mine[v] # a
      <4>1. CASE v # w
        BY <3>1, <3>3, <4>1 DEF Others
      <4>2. CASE v = w
        BY <3>1, <3>3, <4>2 DEF RetainSteps
      <4> QED
        BY <4>1, <4>2
    <3> QED
      BY <3>2, <3>3 DEF Counted
  <2>3. CASE Cardinality(Counted(R)) <= MaxRejected
    <3>1. /\ Cardinality(Counted(S)') \in Nat /\ Cardinality(Counted(S)') <= Cardinality(Counted(R))
          /\ Cardinality(Counted(R)) \in Nat
      BY <2>2, RowsAreTyped, CountedFinite
    <3>2. MaxRejected \in Nat
      BY PrototypeAssumption
    <3> QED
      BY <2>3, <3>1, <3>2
  <2>4. ASSUME NEW v \in R, Counted(R) \subseteq OnList(v)
        PROVE \/ Cardinality(Counted(S)') <= MaxRejected
              \/ \E u \in S : Counted(S)' \subseteq OnList(u)'
    <3>1. CASE v \notin S
      <4>1. v = w /\ Sweeps(w)
        BY <2>4, <3>1
      <4> QED
        BY <2>2, <2>4, <4>1, OnListBounded DEF Sweeps
    <3>2. CASE v \in S
      <4>1. v \in Workers /\ (v = w => pc[w] \in Enforces /\ pc'[w] \in Enforces)
        BY <1>1, <1>4, <3>2 DEF RetainSteps
      <4>2. \A a \in Counted(S)' : a \in Spotless'
        BY DEF Counted
      <4>3. Counted(S)' \subseteq OnList(v)'
        <5> SUFFICES ASSUME NEW a \in Counted(S)' PROVE a \in OnList(v)'
          OBVIOUS
        <5>1. a \in OnList(v) /\ a \in Spotless'
          BY <2>2, <2>4, <4>2
        <5> QED
          BY <4>1, <5>1, StaysListed
      <4> QED
        BY <3>2, <4>3
    <3> QED
      BY <3>1, <3>2
  <2> QED
    BY <2>1, <2>3, <2>4 DEF IInv, LastListBounds
<1> QED
  BY <1>3, <1>4

---------------------------------------------------------------------------
(* The invariant holds at first ...                                        *)
LEMMA InitHolds == Init => IInv
<1> SUFFICES ASSUME Init PROVE IInv
  OBVIOUS
<1> USE PrototypeAssumption
<1>1. /\ rows = <<>> /\ DOMAIN rows = {} /\ files = {}
      /\ \A w \in Workers :
           pc[w] = "off" /\ mine[w] = NoAsset /\ todo[w] = {} /\ surplus[w] = 0
      /\ \A a \in Assets :
           /\ job[a] = [status |-> "pending", retries |-> 0]
           /\ matches[a] = 0 /\ task[a] = "none"
  BY DEF Init
<1>2. TypeOK
  <2>1. job \in [Assets -> [status : Statuses, retries : Nat]]
    <3>1. [status |-> "pending", retries |-> 0] \in [status : Statuses, retries : Nat]
      BY DEF Statuses
    <3> QED
      BY <3>1 DEF Init
  <2>2. /\ boosted \subseteq Assets
        /\ task \in [Assets -> {"none", "in_progress", "completed", "failed"}]
        /\ matches \in [Assets -> Nat] /\ files \subseteq Assets
        /\ blame \in [Assets -> SUBSET {"overlap", "raise", "commit", "crash", "cleared", "kept"}]
    BY DEF Init
  <2>3. rows \in Seq([asset : Assets, path : Paths, decision : Statuses \ {"claimed"},
                      deleted : BOOLEAN])
    BY <1>1
  <2>4. /\ pc \in [Workers -> PCs] /\ mine \in [Workers -> Assets \union {NoAsset}]
        /\ verdict \in [Workers -> Decided \union {"pending"}] /\ seen \in [Workers -> Nat]
    BY VerdictSet DEF Init, PCs
  <2>5. /\ stale \in [Workers -> SUBSET Assets] /\ todo \in [Workers -> SUBSET DOMAIN rows]
        /\ surplus \in [Workers -> Nat]
    BY DEF Init
  <2>6. claims \in 0 .. MaxClaims /\ faults \in 0 .. MaxFaults
    BY DEF Init
  <2> QED
    BY <2>1, <2>2, <2>3, <2>4, <2>5, <2>6 DEF TypeOK
<1>3. LocalsFit
  <2> SUFFICES ASSUME NEW w \in Workers PROVE Fits(w) /\ Cardinality(todo[w]) <= surplus[w]
    BY DEF LocalsFit, Fits
  <2>1. Cardinality({}) = 0
    BY FS_EmptySet
  <2>2. pc[w] = "off" /\ mine[w] = NoAsset /\ todo[w] = {} /\ surplus[w] = 0
    BY <1>1
  <2>3. "off" \in Free /\ "off" \notin Policies /\ "off" \notin Marks
    BY DEF Free, Policies, Marks
  <2>4. "off" \notin {"decide"} \union AfterVerdict /\ "off" \notin PastDecision
    BY DEF AfterVerdict, PastDecision, AfterTaskDone, Policies
  <2>5. Cardinality(todo[w]) <= surplus[w]
    BY <2>1, <2>2
  <2> QED
    BY <2>2, <2>3, <2>4, <2>5 DEF Fits
<1>4. \A w \in Workers, a \in Assets : ~Working(w, a) /\ ~Owns(w, a)
  BY <1>1 DEF Working, Owns
<1>5. SoleWorker /\ NotPending /\ OwnersClaimed
  BY <1>4 DEF SoleWorker, NotPending, OwnersClaimed
<1>6. VerdictIsStatus /\ EvidenceOfMatched /\ MatchedHasEvidence
  BY <1>1 DEF VerdictIsStatus, EvidenceOfMatched, MatchedHasEvidence
<1>7. RowsFollowJobs /\ ListsFollowRows /\ DeletedGone
  BY <1>1 DEF RowsFollowJobs, ListsFollowRows, DeletedGone
<1>8. FetchedOnDisk /\ MatchedOnDisk /\ MarkedGone
  BY <1>1 DEF FetchedOnDisk, MatchedOnDisk, MarkedGone, Marks
<1>9. TaskOfIdle /\ TaskDecided
  BY <1>1 DEF TaskOfIdle, TaskDecided
<1>10. TaskOfWorker
  BY <1>4 DEF TaskOfWorker
<1>11. LastListBounds
  <2>1. \A S : Counted(S) = {}
    BY <1>1 DEF Counted, Spotless, RejectedOnDisk
  <2>2. Cardinality({}) = 0 /\ MaxRejected \in Nat
    BY FS_EmptySet
  <2> QED
    BY <2>1, <2>2 DEF LastListBounds
<1> QED
  BY <1>2, <1>3, <1>5, <1>6, <1>7, <1>8, <1>9, <1>10, <1>11 DEF IInv

(* ... and as long as nothing happens ...                                  *)
LEMMA StutterKeeps == IInv /\ UNCHANGED vars => IInv'
<1> SUFFICES ASSUME IInv, UNCHANGED vars PROVE IInv'
  OBVIOUS
<1>1. UNCHANGED <<job, boosted, task, rows, matches, files, pc, mine, verdict, seen, stale, todo,
                  surplus, claims, faults, blame>>
  BY DEF vars, tables, local, history
<1>2. TypeOK' /\ LocalsFit'
  BY <1>1 DEF IInv, TypeOK, LocalsFit
<1>3. SoleWorker' /\ NotPending' /\ OwnersClaimed' /\ VerdictIsStatus'
  BY <1>1 DEF IInv, SoleWorker, NotPending, OwnersClaimed, VerdictIsStatus, Working, Owns
<1>4. EvidenceOfMatched' /\ MatchedHasEvidence'
  BY <1>1 DEF IInv, EvidenceOfMatched, MatchedHasEvidence, Working
<1>5. RowsFollowJobs' /\ ListsFollowRows'
  BY <1>1 DEF IInv, RowsFollowJobs, ListsFollowRows
<1>6. FetchedOnDisk' /\ MatchedOnDisk' /\ DeletedGone' /\ MarkedGone'
  BY <1>1 DEF IInv, FetchedOnDisk, MatchedOnDisk, DeletedGone, MarkedGone, NextRow, Oldest
<1>7. TaskOfWorker' /\ TaskOfIdle' /\ TaskDecided'
  BY <1>1 DEF IInv, TaskOfWorker, TaskOfIdle, TaskDecided, Working
<1>8. LastListBounds'
  <2>1. RejectedOnDisk' = RejectedOnDisk
    BY <1>1 DEF RejectedOnDisk
  <2>2. Spotless' = Spotless
    BY <1>1, <2>1 DEF Spotless
  <2>3. \A S : Counted(S)' = Counted(S)
    BY <1>1, <2>2 DEF Counted
  <2>4. Enforcing' = Enforcing
    BY <1>1 DEF Enforcing
  <2>5. \A w : OnList(w)' = OnList(w)
    BY <1>1 DEF OnList
  <2> QED
    BY <2>3, <2>4, <2>5 DEF IInv, LastListBounds
<1> QED
  BY <1>2, <1>3, <1>4, <1>5, <1>6, <1>7, <1>8 DEF IInv

(* ... and every step of a worker keeps it.                                *)
LEMMA StepKeeps ==
  ASSUME IInv, NEW w \in Workers, StepOf(w)
  PROVE IInv'
<1>1. Others(w) /\ Remembers /\ Kind(w)
  BY StepKinds
<1>2. RowSteps(w) /\ ListSteps(w) /\ FileSteps(w) /\ MarkSteps(w) /\ TaskSteps(w) /\ RetainSteps(w)
  BY RowsStep, ListsStep, FilesStep, MarksStep, TasksStep, RetainStep
<1>3. TypedTables' /\ TypedPlaces' /\ TypedHistory' /\ Covers(w) /\ Fits(w)'
  BY TablesTyped, PlacesTyped, HistoryTyped, SurplusCovers, FitsStep
<1>4. TypeOK'
  BY <1>2, <1>3
     DEF TypeOK, TypedTables, TypedPlaces, TypedHistory, Covers, RowSteps, ListSteps, FileSteps,
     Rows
<1>5. LocalsFit'
  <2>1. \A v \in Workers \ {w} : Fits(v)'
    BY <1>1, <1>2 DEF IInv, LocalsFit, Fits, Others, MarkSteps
  <2> QED
    BY <1>3, <2>1 DEF LocalsFit, Fits, Covers
<1>6. SoleWorker' /\ NotPending' /\ OwnersClaimed' /\ VerdictIsStatus'
  BY <1>1, SoleWorkerKeeps, NotPendingKeeps, OwnersClaimedKeeps, VerdictIsStatusKeeps
<1>7. EvidenceOfMatched' /\ MatchedHasEvidence'
  BY <1>1, EvidenceOfMatchedKeeps, MatchedHasEvidenceKeeps
<1>8. RowsFollowJobs'
  BY <1>1, <1>2, <1>5, <1>6, RowsFollowJobsKeeps
<1>9. ListsFollowRows'
  BY <1>1, <1>2, <1>8, ListsFollowRowsKeeps
<1>10. FetchedOnDisk' /\ MatchedOnDisk' /\ DeletedGone' /\ MarkedGone'
  BY <1>1, <1>2, FetchedOnDiskKeeps, MatchedOnDiskKeeps, DeletedGoneKeeps, MarkedGoneKeeps
<1>11. TaskOfWorker' /\ TaskOfIdle' /\ TaskDecided'
  BY <1>1, <1>2, TaskOfWorkerKeeps, TaskOfIdleKeeps, TaskDecidedKeeps
<1>12. LastListBounds'
  BY <1>1, <1>2, LastListBoundsKeeps
<1> QED
  BY <1>4, <1>5, <1>6, <1>7, <1>8, <1>9, <1>10, <1>11, <1>12 DEF IInv

(* The invariant holds of every behaviour.                                 *)
THEOREM InvariantHolds == Spec => []IInv
<1>1. Init => IInv
  BY InitHolds
<1>2. IInv /\ [Next]_vars => IInv'
  <2>1. ASSUME IInv, NEW w \in Workers, StepOf(w) PROVE IInv'
    BY <2>1, StepKeeps
  <2>2. Next => \E w \in Workers : StepOf(w)
    BY DEF Next, StepOf
  <2> QED
    BY <2>1, <2>2, StutterKeeps
<1> QED
  BY <1>1, <1>2, PTL DEF Spec

---------------------------------------------------------------------------
(* Every variable of the prototype keeps its type, whatever the workers    *)
(* and the faults.                                                         *)
THEOREM TypeCorrect == Spec => []TypeOK
<1>1. IInv => TypeOK
  BY DEF IInv
<1> QED
  BY <1>1, InvariantHolds, PTL

(* Two workers own one asset only after the recovery of a start gave it    *)
(* back under a worker that lived: the claim's transaction is enough.      *)
THEOREM OwnersAreSole == Spec => []SoleOwner
<1>1. IInv => SoleOwner
  <2> SUFFICES ASSUME IInv, NEW v \in Workers, NEW w \in Workers, NEW a \in Assets,
                      v # w, Owns(v, a), Owns(w, a)
               PROVE "overlap" \in blame[a]
    BY DEF SoleOwner
  <2>1. Working(v, a) /\ Working(w, a)
    BY DEF Owns, Working, Undecided
  <2> QED
    BY <2>1 DEF IInv, SoleWorker
<1> QED
  BY <1>1, InvariantHolds, PTL

(* A decision on a job is undone only by such a recovery, or by the        *)
(* handler of an exception that came after it.                             *)
THEOREM DecisionsStand == Spec => DecisionStands
<1>1. ASSUME IInv, [Next]_vars, NEW a \in Assets,
             job[a].status \in Decided, job'[a].status # job[a].status
      PROVE blame'[a] \intersect {"overlap", "raise"} # {}
  <2>1. job' # job
    BY <1>1
  <2>2. PICK w \in Workers : StepOf(w)
    BY <1>1, <2>1 DEF Next, StepOf, vars, tables
  <2> QED
    BY <1>1, <2>2, StepKinds, DecidedStays DEF Twice
<1>2. IInv /\ [Next]_vars =>
        [\A a \in Assets :
           job[a].status \in Decided /\ job'[a].status # job[a].status =>
             blame'[a] \intersect {"overlap", "raise"} # {}]_vars
  BY <1>1
<1> QED
  BY <1>2, InvariantHolds, PTL DEF Spec, DecisionStands

(* A match is recorded once: twice only if two workers overlapped on it or *)
(* the commit of its row failed, not at all only if its worker died.       *)
THEOREM MatchesAreRecordedOnce == Spec => []MatchRecordedOnce
<1>1. IInv => MatchRecordedOnce
  BY DEF IInv, EvidenceOfMatched, MatchedHasEvidence, MatchRecordedOnce, Held
<1> QED
  BY <1>1, InvariantHolds, PTL

(* No policy deletes the file of a match, and what is marked as deleted is *)
(* gone, though the list a policy works on may be older than both.         *)
THEOREM FilesAreAsRowsSay == Spec => []FilesMatchRows
<1>1. IInv => FilesMatchRows
  <2> SUFFICES ASSUME IInv, NEW i \in DOMAIN rows, rows[i].path = "local",
                      blame[rows[i].asset] \intersect Loose = {}
               PROVE IF rows[i].decision = "matched" THEN rows[i].asset \in files
                     ELSE rows[i].deleted => rows[i].asset \notin files
    BY DEF FilesMatchRows, Loose
  <2>1. rows[i].asset \in Assets
    BY RowsAreTyped, RowHasAsset
  <2>2. rows[i].decision = "matched" => rows[i].asset \in files
    BY <2>1 DEF IInv, RowsFollowJobs, MatchedOnDisk, Twice, Loose
  <2>3. rows[i].deleted => rows[i].asset \notin files
    BY DEF IInv, DeletedGone
  <2> QED
    BY <2>2, <2>3
<1> QED
  BY <1>1, InvariantHolds, PTL

(* When no worker rejects anything, no more rejected downloads are on disk *)
(* than the limit, in whatever order the policies read and worked off      *)
(* their lists.                                                            *)
THEOREM RetentionIsBounded == Spec => []RetentionBounded
<1>1. IInv => RetentionBounded
  <2> SUFFICES ASSUME IInv, \A w \in Workers : pc[w] \notin Rejecting,
                      \A a \in RejectedOnDisk : blame[a] = {}
               PROVE Cardinality(RejectedOnDisk) <= MaxRejected
    BY DEF RetentionBounded
  <2>1. Counted({}) = RejectedOnDisk
    BY DEF Counted, Spotless
  <2>2. Cardinality(Counted({})) <= MaxRejected
    BY DEF IInv, LastListBounds
  <2> QED
    BY <2>1, <2>2
<1> QED
  BY <1>1, InvariantHolds, PTL

(* The two databases agree on an asset nobody works on: what is completed  *)
(* was decided, whatever exceptions and deaths came between the commits,   *)
(* and the rest is as the last exception left it unless a worker died.     *)
THEOREM DatabasesAgree == Spec => []TasksAgree
<1>1. IInv => TasksAgree
  <2> SUFFICES ASSUME IInv, NEW a \in Assets, ~Held(a), "overlap" \notin blame[a]
               PROVE /\ task[a] = "completed" => job[a].status \in Decided
                     /\ \/ "crash" \in blame[a]
                        \/ /\ task[a] = "none"
                           /\ job[a].status = "pending" \/ job[a].retries > 0
                        \/ task[a] = "completed"
                        \/ /\ task[a] = "failed" /\ job[a].status \in {"pending", "failed"}
                           /\ job[a].retries > 0
    BY DEF TasksAgree
  <2>1. \A w \in Workers : ~Working(w, a)
    BY DEF Held, Working
  <2> QED
    BY <2>1 DEF IInv, TaskOfIdle, TaskDecided
<1> QED
  BY <1>1, InvariantHolds, PTL
=============================================================================
