----------------------------- MODULE TargetBuild -----------------------------
(***************************************************************************)
(* How workers get the segment embedding of one target: the cache-first,   *)
(* build-on-miss-under-lock resolution of                                  *)
(* TargetRegistry.get_or_build_segment_embedding, while operators replace  *)
(* or delete the target (TargetRegistry has the detail of those).          *)
(*                                                                         *)
(* A cache entry is named by the content hash it was stored under; what    *)
(* the model keeps of it is the content its segments were computed from.   *)
(***************************************************************************)
EXTENDS Integers, FiniteSets

CONSTANTS
  Workers,      (* processes that resolve the target                       *)
  NoWorker,
  Contents,     (* content hashes the target may have                      *)
  NoContent,    (* no record, no cache entry                               *)
  MaxChanges,   (* bound: replacements and deletions of the target         *)
  MaxExpiries,  (* bound: locks that expire under a live holder            *)
  MaxFailures   (* bound: builds that fail and workers that crash          *)

ASSUME BuildAssumption ==
  /\ NoWorker \notin Workers /\ NoContent \notin Contents
  /\ {MaxChanges, MaxExpiries, MaxFailures} \subseteq Nat

VARIABLES
  record,     (* content_sha256 of the target's record                     *)
  cache,      (* per content hash, the content the entry was built from    *)
  summary,    (* is the spec in the segment_embeddings summary hash        *)
  lock,       (* per content hash, the owner of the build lock             *)
  pc, look,   (* a worker's place; which lookup of the cache it is at      *)
  seen,       (* the record get_compatible or register read last           *)
  keyed,      (* the record its lock and its build are about               *)
  dead,       (* owners of a lock that died                                *)
  deleting,   (* the content a delete_target in progress has read          *)
  changes, expiries, failures

shared == <<record, cache, summary>>
local == <<look, seen, keyed>>
budgets == <<changes, expiries, failures>>
vars == <<shared, lock, pc, local, dead, deleting, budgets>>

Init ==
  /\ record \in Contents
  /\ cache = [c \in Contents |-> NoContent]
  /\ summary = FALSE
  /\ lock = [c \in Contents |-> NoWorker]
  /\ pc = [w \in Workers |-> "idle"]
  /\ look = [w \in Workers |-> "check"]
  /\ seen = [w \in Workers |-> NoContent]
  /\ keyed = [w \in Workers |-> NoContent]
  /\ dead = {} /\ deleting = NoContent
  /\ changes = 0 /\ expiries = 0 /\ failures = 0

At(w, label) == pc[w] = label
Goto(w, label) == pc' = [pc EXCEPT ![w] = label]
Lookup(w, l) == Goto(w, "record") /\ look' = [look EXCEPT ![w] = l]
Return(w) ==
  /\ Goto(w, "idle")
  /\ look' = [look EXCEPT ![w] = "check"]
  /\ seen' = [seen EXCEPT ![w] = NoContent]
  /\ keyed' = [keyed EXCEPT ![w] = NoContent]

---------------------------------------------------------------------------
(* Slips the runs must notice: wrong versions of operators below.          *)
WinAnyway(w, c) == lock' = [lock EXCEPT ![c] = w]
AfterWinBuild == "build"
NoTtl(c) == FALSE
UnknownNever(c) == FALSE

---------------------------------------------------------------------------
(* get_or_build_segment_embedding.                                         *)

Call(w) ==
  /\ At(w, "idle")
  /\ Lookup(w, "check")
  /\ UNCHANGED <<shared, lock, seen, keyed, dead, deleting, budgets>>

\* get_compatible_segment_embedding: get_target ...
ReadRecord(w) ==
  /\ At(w, "record")
  /\ seen' = [seen EXCEPT ![w] = record]
  /\ Goto(w, "entry")
  /\ UNCHANGED <<shared, lock, look, keyed, dead, deleting, budgets>>

\* ... and the cache entry of that content: it is returned,
Cached(w) == seen[w] \in {c \in Contents : cache[c] # NoContent}

Hit(w) ==
  /\ At(w, "entry") /\ Cached(w)
  /\ IF look[w] = "recheck"
     THEN Goto(w, "release") /\ UNCHANGED local
     ELSE Return(w)
  /\ UNCHANGED <<shared, lock, dead, deleting, budgets>>

\* or there is none.
Miss(w) ==
  /\ At(w, "entry") /\ ~Cached(w)
  /\ Goto(w, CASE look[w] = "check" -> "fetch"
               [] look[w] = "recheck" -> "build"
               [] look[w] = "poll" -> "wait")
  /\ UNCHANGED <<shared, lock, local, dead, deleting, budgets>>

\* get_target once more; without a record it is a KeyError.
Unknown(c) == c = NoContent

Fetch(w) ==
  /\ At(w, "fetch")
  /\ IF Unknown(record)
     THEN Return(w)
     ELSE keyed' = [keyed EXCEPT ![w] = record] /\ Goto(w, "lock") /\ UNCHANGED <<look, seen>>
  /\ UNCHANGED <<shared, lock, dead, deleting, budgets>>

Win(w, c) == lock[c] = NoWorker /\ lock' = [lock EXCEPT ![c] = w]

\* The winner looks again before it builds.
AfterWin == "record"

TakeLock(w) ==
  /\ At(w, "lock") /\ Win(w, keyed[w])
  /\ Goto(w, AfterWin) /\ look' = [look EXCEPT ![w] = "recheck"]
  /\ UNCHANGED <<shared, seen, keyed, dead, deleting, budgets>>

LoseLock(w) ==
  /\ At(w, "lock") /\ lock[keyed[w]] # NoWorker
  /\ Goto(w, "wait") /\ look' = [look EXCEPT ![w] = "poll"]
  /\ UNCHANGED <<shared, lock, seen, keyed, dead, deleting, budgets>>

\* A loser sleeps and polls; past its deadline it raises TimeoutError.
Poll(w) ==
  /\ At(w, "wait")
  /\ Lookup(w, "poll")
  /\ UNCHANGED <<shared, lock, seen, keyed, dead, deleting, budgets>>

GiveUp(w) ==
  /\ At(w, "wait")
  /\ Return(w)
  /\ UNCHANGED <<shared, lock, dead, deleting, budgets>>

\* build(record) embeds the media of the record Fetch read, or raises.
Build(w) ==
  /\ At(w, "build")
  /\ Goto(w, "register")
  /\ UNCHANGED <<shared, lock, local, dead, deleting, budgets>>

BuildFails(w) ==
  /\ At(w, "build") /\ failures < MaxFailures
  /\ failures' = failures + 1
  /\ Goto(w, "release")
  /\ UNCHANGED <<shared, lock, local, dead, deleting, changes, expiries>>

\* register_segment_embedding reads the record for itself ...
ReadForPut(w) ==
  /\ At(w, "register")
  /\ seen' = [seen EXCEPT ![w] = record]
  /\ Goto(w, IF Unknown(record) THEN "release" ELSE "put")
  /\ UNCHANGED <<shared, lock, look, keyed, dead, deleting, budgets>>

\* ... and stores the segments under the content it finds there.
Put(w) ==
  /\ At(w, "put")
  /\ cache' = [cache EXCEPT ![seen[w]] = keyed[w]]
  /\ Goto(w, "summarize")
  /\ UNCHANGED <<record, summary, lock, local, dead, deleting, budgets>>

Summarize(w) ==
  /\ At(w, "summarize")
  /\ summary' = TRUE
  /\ Goto(w, "release")
  /\ UNCHANGED <<record, cache, lock, local, dead, deleting, budgets>>

\* _RELEASE_IF_OWNER.
Release(w, c) == lock' = IF lock[c] = w THEN [lock EXCEPT ![c] = NoWorker] ELSE lock

Unlock(w) ==
  /\ At(w, "release")
  /\ Release(w, keyed[w])
  /\ Return(w)
  /\ UNCHANGED <<shared, dead, deleting, budgets>>

---------------------------------------------------------------------------
(* Operators, locks and crashes.                                           *)

\* register_target with other content, or again after a delete.
Replace(c) ==
  /\ c # record /\ deleting = NoContent /\ changes < MaxChanges
  /\ changes' = changes + 1
  /\ record' = c
  /\ UNCHANGED <<cache, summary, lock, pc, local, dead, deleting, expiries, failures>>

\* delete_target: the cache entries the summary names, then the hashes.
DeleteEntries ==
  /\ record # NoContent /\ deleting = NoContent /\ changes < MaxChanges
  /\ changes' = changes + 1
  /\ deleting' = record
  /\ cache' = IF summary THEN [cache EXCEPT ![record] = NoContent] ELSE cache
  /\ UNCHANGED <<record, summary, lock, pc, local, dead, expiries, failures>>

DeleteRecord ==
  /\ deleting # NoContent
  /\ deleting' = NoContent
  /\ record' = NoContent /\ summary' = FALSE
  /\ UNCHANGED <<cache, lock, pc, local, dead, budgets>>

\* The build lock has a TTL: a dead winner does not keep it.
HasTtl(c) == TRUE

LockExpires(c) ==
  /\ lock[c] # NoWorker
  /\ IF lock[c] \in dead THEN HasTtl(c) /\ UNCHANGED expiries
     ELSE expiries < MaxExpiries /\ expiries' = expiries + 1
  /\ dead' = dead \ {lock[c]}
  /\ lock' = [lock EXCEPT ![c] = NoWorker]
  /\ UNCHANGED <<shared, pc, local, deleting, changes, failures>>

\* A worker that dies holding a lock is not followed further until the lock
\* is gone: a restarted one has another token.
Crash(w) ==
  /\ ~At(w, "idle") /\ w \notin dead /\ failures < MaxFailures
  /\ failures' = failures + 1
  /\ LET owns == \E c \in Contents : lock[c] = w IN
       /\ dead' = IF owns THEN dead \union {w} ELSE dead
       /\ Return(w)
  /\ UNCHANGED <<shared, lock, deleting, changes, expiries>>

---------------------------------------------------------------------------
Work(w) ==
  \/ ReadRecord(w) \/ Hit(w) \/ Miss(w) \/ Fetch(w) \/ TakeLock(w) \/ LoseLock(w)
  \/ Build(w) \/ ReadForPut(w) \/ Put(w) \/ Summarize(w) \/ Unlock(w)

Next ==
  \/ \E w \in Workers : (w \notin dead /\ Call(w)) \/ Work(w) \/ Poll(w) \/ GiveUp(w)
                        \/ BuildFails(w) \/ Crash(w)
  \/ \E c \in Contents : Replace(c) \/ LockExpires(c)
  \/ DeleteEntries \/ DeleteRecord

Spec == Init /\ [][Next]_vars

(***************************************************************************)
(* Workers run, polling has a deadline, the TTL of a dead owner's lock     *)
(* runs out, and a job that fails on the target is retried or the next one *)
(* for the target comes.                                                   *)
(***************************************************************************)
Fairness ==
  /\ \A w \in Workers :
       WF_vars(Work(w)) /\ WF_vars(GiveUp(w)) /\ WF_vars(w \notin dead /\ Call(w))
  /\ \A c \in Contents : WF_vars(lock[c] \in dead /\ LockExpires(c))
  /\ WF_vars(DeleteRecord)

FairSpec == Spec /\ Fairness

---------------------------------------------------------------------------
Maybe(S) == S \union {NoContent}

(***************************************************************************)
(* A worker locks and builds for a record it has, and stores segments      *)
(* under a record it has.                                                  *)
(***************************************************************************)
Building(w) == pc[w] \in {"build", "register", "put"}
HasRecord(w) ==
  /\ Building(w) \/ pc[w] \in {"lock", "summarize", "release"} => keyed[w] \in Contents
  /\ pc[w] = "put" => seen[w] \in Contents

TypeOK ==
  /\ record \in Maybe(Contents) /\ deleting \in Maybe(Contents)
  /\ cache \in [Contents -> Maybe(Contents)]
  /\ summary \in BOOLEAN
  /\ lock \in [Contents -> Workers \union {NoWorker}]
  /\ pc \in [Workers -> {"idle", "record", "entry", "fetch", "lock", "wait", "build",
                         "register", "put", "summarize", "release"}]
  /\ look \in [Workers -> {"check", "recheck", "poll"}]
  /\ {seen, keyed} \subseteq [Workers -> Maybe(Contents)]
  /\ dead \subseteq Workers
  /\ changes \in 0 .. MaxChanges /\ expiries \in 0 .. MaxExpiries
  /\ failures \in 0 .. MaxFailures
  /\ \A w \in Workers : HasRecord(w)

(***************************************************************************)
(* A content is embedded by one worker at a time, whatever crashes and     *)
(* whatever operators do, as long as build locks outlast builds: a loser   *)
(* waits instead of duplicating the build.                                 *)
(***************************************************************************)
OneBuilder ==
  expiries = 0 =>
    \A v, w \in Workers : Building(v) /\ Building(w) /\ keyed[v] = keyed[w] => v = w

(***************************************************************************)
(* ... and never again while an entry for it is in the cache, as long as   *)
(* the target stays what it is: the winner's second lookup sees what was   *)
(* stored since its first.                                                 *)
(***************************************************************************)
NoRedundantBuild ==
  expiries = 0 /\ changes = 0 =>
    \A w \in Workers : pc[w] = "build" => cache[keyed[w]] = NoContent

(***************************************************************************)
(* A cache entry holds the segments of the content it is named after.      *)
(***************************************************************************)
EntryIsOwn == \A c \in Contents : cache[c] \in {c, NoContent}

(***************************************************************************)
(* Once operators leave a target alone it gets its embedding, through      *)
(* failing builds, crashes and expired locks.                              *)
(***************************************************************************)
TargetGetsBuilt == <>[](record = NoContent \/ cache[record] # NoContent)
=============================================================================
