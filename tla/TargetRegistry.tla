--------------------------- MODULE TargetRegistry ----------------------------
(***************************************************************************)
(* The lifecycle of registered targets in target/registry.py: the record   *)
(* hash of a target, the reverse index of its content hash, the list       *)
(* index, the media blob in shared storage, and the lifecycle lock         *)
(* (target/lock.py) that register, update and delete hold.  A Redis        *)
(* command, a MULTI pipeline or a file operation is one step; operators on *)
(* several hosts interleave between them, may crash, and may lose the lock *)
(* to its TTL while they work.                                             *)
(***************************************************************************)
EXTENDS Integers, FiniteSets

CONSTANTS
  Clients,      (* processes that use the registry                         *)
  NoClient,
  Targets,      (* (target_id, target_version) identities                  *)
  NoTarget,
  Hashes,       (* content_sha256 of the media files there are             *)
  NoHash,       (* stands for "no record"                                  *)
  Operations,   (* what clients of this instance do                        *)
  MaxExpiries,  (* bound: locks that expire under a live holder            *)
  MaxCrashes    (* bound: crashes of clients, and calls that fail          *)

ASSUME RegistryAssumption ==
  /\ NoClient \notin Clients /\ NoTarget \notin Targets /\ NoHash \notin Hashes
  /\ Operations \subseteq {"replace", "reject", "update", "delete", "reindex"}
  /\ {MaxExpiries, MaxCrashes} \subseteq Nat

VARIABLES
  record,        (* fingerprint:target:{id}:{version}, its content_sha256  *)
  contentIndex,  (* <<hash, target>> pairs of the reverse indexes          *)
  listIndex,     (* fingerprint:target:index                               *)
  media,         (* blobs in the shared media store                        *)
  lock,          (* the owner of a target's lifecycle lock                 *)
  pc, op, target, hash,   (* a client's call and its arguments             *)
  existing,      (* the record it read, as a content hash                  *)
  members,       (* an index it read, as a set of targets                  *)
  crashed,       (* clients that died holding a lock that still stands     *)
  interrupted,   (* history: targets with an operation cut off half way    *)
  overlapped,    (* history: targets a reindex saw while a delete undid it *)
  expiries, crashes

store == <<record, contentIndex, listIndex, media>>
args == <<op, target, hash>>
locals == <<existing, members>>
history == <<interrupted, overlapped>>
faults == <<crashed, history, expiries, crashes>>
vars == <<store, lock, pc, args, locals, faults>>

Registers == {"replace", "reject"}
Locked == {"read", "srem", "hset", "sadd content", "sadd list", "srem content",
           "srem list", "del", "find", "resolve", "unlink", "release"}
Halfway == {"hset", "sadd content", "sadd list", "srem list", "del"}
Labels == Locked \union {"idle", "lock", "scan", "backfill", "dead"}

Init ==
  /\ record = [t \in Targets |-> NoHash]
  /\ contentIndex = {} /\ listIndex = {} /\ media = {}
  /\ lock = [t \in Targets |-> NoClient]
  /\ pc = [c \in Clients |-> "idle"]
  /\ op = [c \in Clients |-> "none"]
  /\ target = [c \in Clients |-> NoTarget]
  /\ hash = [c \in Clients |-> NoHash]
  /\ existing = [c \in Clients |-> NoHash]
  /\ members = [c \in Clients |-> {}]
  /\ crashed = {} /\ interrupted = {} /\ overlapped = {}
  /\ expiries = 0 /\ crashes = 0

At(c, label) == pc[c] = label
Goto(c, label) == pc' = [pc EXCEPT ![c] = label]
Idle(c) ==
  /\ Goto(c, "idle")
  /\ op' = [op EXCEPT ![c] = "none"]
  /\ target' = [target EXCEPT ![c] = NoTarget]
  /\ hash' = [hash EXCEPT ![c] = NoHash]
  /\ existing' = [existing EXCEPT ![c] = NoHash]
  /\ members' = [members EXCEPT ![c] = {}]

---------------------------------------------------------------------------
(* Slips the runs must notice: wrong versions of operators below.          *)
ReleaseAnyway(c, t) == lock' = [lock EXCEPT ![t] = NoClient]
StaleNever(c) == FALSE
MissingNever(c) == FALSE
SeenAnyway(t) == TRUE

---------------------------------------------------------------------------
(* Calls and the lock.                                                     *)

\* register_target hashes its file and publishes the blob before it locks.
Call(c, o, t, h) ==
  /\ At(c, "idle") /\ o \in Operations \ {"reindex"}
  /\ IF o \in Registers
     THEN media' = media \union {h} /\ hash' = [hash EXCEPT ![c] = h]
     ELSE UNCHANGED <<media, hash>>
  /\ op' = [op EXCEPT ![c] = o]
  /\ target' = [target EXCEPT ![c] = t]
  /\ Goto(c, "lock")
  /\ UNCHANGED <<record, contentIndex, listIndex, lock, locals, faults>>

\* SET NX PX with a fresh token.
Acquire(c, t) == lock[t] = NoClient /\ lock' = [lock EXCEPT ![t] = c]

TakeLock(c) ==
  /\ At(c, "lock") /\ Acquire(c, target[c])
  /\ Goto(c, "read")
  /\ UNCHANGED <<store, args, locals, faults>>

\* It polls for five seconds and raises TargetLockTimeoutError.
LockTimesOut(c) ==
  /\ At(c, "lock") /\ lock[target[c]] # NoClient
  /\ Idle(c)
  /\ UNCHANGED <<store, lock, faults>>

\* _RELEASE_IF_OWNER: DEL only while the token is still its own.
Release(c, t) == lock' = IF lock[t] = c THEN [lock EXCEPT ![t] = NoClient] ELSE lock

Unlock(c) ==
  /\ At(c, "release")
  /\ Release(c, target[c])
  /\ Idle(c)
  /\ UNCHANGED <<store, faults>>

---------------------------------------------------------------------------
(* get_target, and what each operation does with the answer.               *)

Conflicts(c) == op[c] = "reject" /\ record[target[c]] \notin {NoHash, hash[c]}
Stale(c) == record[target[c]] \notin {NoHash, hash[c]}
Missing(c) == record[target[c]] = NoHash

Read(c) ==
  /\ At(c, "read")
  /\ existing' = [existing EXCEPT ![c] = record[target[c]]]
  /\ Goto(c, IF op[c] \in Registers
             THEN IF Conflicts(c) THEN "release" ELSE IF Stale(c) THEN "srem" ELSE "hset"
             ELSE IF Missing(c) THEN "release"
             ELSE IF op[c] = "update" THEN "hset" ELSE "srem content")
  /\ UNCHANGED <<store, lock, args, members, faults>>

\* register_target: the member of the old content's index.
DropOldMember(c) ==
  /\ At(c, "srem")
  /\ contentIndex' = contentIndex \ {<<existing[c], target[c]>>}
  /\ Goto(c, "hset")
  /\ UNCHANGED <<record, listIndex, media, lock, args, locals, faults>>

\* HSET of the whole record: the new content, or the one update has read.
WriteRecord(c) ==
  /\ At(c, "hset")
  /\ record' = [record EXCEPT ![target[c]] = IF op[c] = "update" THEN existing[c] ELSE hash[c]]
  /\ Goto(c, IF op[c] = "update" THEN "release" ELSE "sadd content")
  /\ UNCHANGED <<contentIndex, listIndex, media, lock, args, locals, faults>>

AddContentMember(c) ==
  /\ At(c, "sadd content")
  /\ contentIndex' = contentIndex \union {<<hash[c], target[c]>>}
  /\ Goto(c, "sadd list")
  /\ UNCHANGED <<record, listIndex, media, lock, args, locals, faults>>

AddListMember(c) ==
  /\ At(c, "sadd list")
  /\ listIndex' = listIndex \union {target[c]}
  /\ interrupted' = interrupted \ {target[c]}
  /\ overlapped' = overlapped \ {target[c]}
  /\ Goto(c, "release")
  /\ UNCHANGED <<record, contentIndex, media, lock, args, locals, crashed, expiries, crashes>>

---------------------------------------------------------------------------
(* delete_target, from the indexes to the media blob.                      *)

DropContentMember(c) ==
  /\ At(c, "srem content")
  /\ contentIndex' = contentIndex \ {<<existing[c], target[c]>>}
  /\ Goto(c, "srem list")
  /\ UNCHANGED <<record, listIndex, media, lock, args, locals, faults>>

\* A reindex has seen the record and is yet to add the member; a delete has
\* removed the member and is yet to delete the record.
Sighted(t) == \E d \in Clients : At(d, "backfill") /\ target[d] = t
Undoing(t) == \E d \in Clients : At(d, "del") /\ target[d] = t

DropListMember(c) ==
  /\ At(c, "srem list")
  /\ listIndex' = listIndex \ {target[c]}
  /\ overlapped' = IF Sighted(target[c]) THEN overlapped \union {target[c]}
                                        ELSE overlapped \ {target[c]}
  /\ Goto(c, "del")
  /\ UNCHANGED <<record, contentIndex, media, lock, args, locals>>
  /\ UNCHANGED <<crashed, interrupted, expiries, crashes>>

DeleteRecord(c) ==
  /\ At(c, "del")
  /\ record' = [record EXCEPT ![target[c]] = NoHash]
  /\ interrupted' = interrupted \ {target[c]}
  /\ Goto(c, "find")
  /\ UNCHANGED <<contentIndex, listIndex, media, lock, args, locals>>
  /\ UNCHANGED <<crashed, overlapped, expiries, crashes>>

\* find_by_content_hash: SMEMBERS, then one get_target per member.
FindSharers(c) ==
  /\ At(c, "find")
  /\ members' = [members EXCEPT ![c] = {t \in Targets : <<existing[c], t>> \in contentIndex}]
  /\ Goto(c, "resolve")
  /\ UNCHANGED <<store, lock, args, existing, faults>>

StillRegistered(t) == record[t] # NoHash

ResolveSharer(c) ==
  /\ At(c, "resolve")
  /\ \/ /\ members[c] = {} /\ Goto(c, "unlink") /\ UNCHANGED members
     \/ \E t \in members[c] :
          /\ members' = [members EXCEPT ![c] = @ \ {t}]
          /\ IF StillRegistered(t) THEN Goto(c, "release") ELSE UNCHANGED pc
  /\ UNCHANGED <<store, lock, args, existing, faults>>

DeleteMedia(c) ==
  /\ At(c, "unlink")
  /\ media' = media \ {existing[c]}
  /\ Goto(c, "release")
  /\ UNCHANGED <<record, contentIndex, listIndex, lock, args, locals, faults>>

---------------------------------------------------------------------------
(* reindex takes no lock: the index as it was, then a scan of the records. *)

Reindex(c) ==
  /\ At(c, "idle") /\ "reindex" \in Operations
  /\ op' = [op EXCEPT ![c] = "reindex"]
  /\ members' = [members EXCEPT ![c] = Targets \ listIndex]
  /\ Goto(c, "scan")
  /\ UNCHANGED <<store, lock, target, hash, existing, faults>>

Seen(t) == record[t] # NoHash

\* The record is there and its member was not.
ScanRecord(c, t) ==
  /\ At(c, "scan") /\ t \in members[c]
  /\ members' = [members EXCEPT ![c] = @ \ {t}]
  /\ IF Seen(t)
     THEN target' = [target EXCEPT ![c] = t] /\ Goto(c, "backfill")
     ELSE UNCHANGED <<target, pc>>
  /\ overlapped' = IF Seen(t) /\ Undoing(t) THEN overlapped \union {t} ELSE overlapped
  /\ UNCHANGED <<store, lock, op, hash, existing, crashed, interrupted, expiries, crashes>>

Backfill(c) ==
  /\ At(c, "backfill")
  /\ listIndex' = listIndex \union {target[c]}
  /\ target' = [target EXCEPT ![c] = NoTarget]
  /\ Goto(c, "scan")
  /\ UNCHANGED <<record, contentIndex, media, lock, op, hash, locals, faults>>

ScanEnds(c) ==
  /\ At(c, "scan") /\ members[c] = {}
  /\ Idle(c)
  /\ UNCHANGED <<store, lock, faults>>

---------------------------------------------------------------------------
(* Faults.                                                                 *)

\* The TTL runs out, under a holder at work or after it died.
LockExpires(t) ==
  /\ lock[t] # NoClient
  /\ IF lock[t] \in crashed THEN UNCHANGED expiries
     ELSE expiries < MaxExpiries /\ expiries' = expiries + 1
  /\ crashed' = crashed \ {lock[t]}
  /\ lock' = [lock EXCEPT ![t] = NoClient]
  /\ UNCHANGED <<store, pc, args, locals, history, crashes>>

\* It has written or removed one of the things that belong together.
CutShort(c) ==
  interrupted' = IF pc[c] \in Halfway THEN interrupted \union {target[c]} ELSE interrupted

\* A call to Redis or to the store raises: `finally` releases the lock.
CallFails(c) ==
  /\ pc[c] \in Locked \ {"release"} /\ crashes < MaxCrashes
  /\ crashes' = crashes + 1
  /\ CutShort(c)
  /\ Goto(c, "release")
  /\ UNCHANGED <<store, lock, args, locals, crashed, overlapped, expiries>>

\* The process dies; it is back when nothing of it stands any more.
Crash(c) ==
  /\ ~At(c, "idle") /\ c \notin crashed /\ crashes < MaxCrashes
  /\ crashes' = crashes + 1
  /\ CutShort(c)
  /\ crashed' = IF \E t \in Targets : lock[t] = c THEN crashed \union {c} ELSE crashed
  /\ op' = [op EXCEPT ![c] = "none"]
  /\ target' = [target EXCEPT ![c] = NoTarget]
  /\ hash' = [hash EXCEPT ![c] = NoHash]
  /\ existing' = [existing EXCEPT ![c] = NoHash]
  /\ members' = [members EXCEPT ![c] = {}]
  /\ Goto(c, IF \E t \in Targets : lock[t] = c THEN "dead" ELSE "idle")
  /\ UNCHANGED <<store, lock, overlapped, expiries>>

Restart(c) == At(c, "dead") /\ c \notin crashed /\ Goto(c, "idle")
              /\ UNCHANGED <<store, lock, args, locals, faults>>

---------------------------------------------------------------------------
Work(c) ==
  \/ TakeLock(c) \/ LockTimesOut(c) \/ Unlock(c) \/ Read(c)
  \/ DropOldMember(c) \/ WriteRecord(c) \/ AddContentMember(c) \/ AddListMember(c)
  \/ DropContentMember(c) \/ DropListMember(c) \/ DeleteRecord(c)
  \/ FindSharers(c) \/ ResolveSharer(c) \/ DeleteMedia(c)
  \/ (\E t \in Targets : ScanRecord(c, t)) \/ Backfill(c) \/ ScanEnds(c)

Next ==
  \/ \E c \in Clients :
       \/ \E o \in Operations, t \in Targets, h \in Hashes : Call(c, o, t, h)
       \/ Reindex(c) \/ Work(c) \/ CallFails(c) \/ Crash(c) \/ Restart(c)
  \/ \E t \in Targets : LockExpires(t)

Spec == Init /\ [][Next]_vars

---------------------------------------------------------------------------
\* A delete is past its lookup only with a record in hand.
TypeOK ==
  /\ record \in [Targets -> Hashes \union {NoHash}]
  /\ contentIndex \subseteq Hashes \X Targets
  /\ listIndex \subseteq Targets /\ media \subseteq Hashes
  /\ lock \in [Targets -> Clients \union {NoClient}]
  /\ pc \in [Clients -> Labels]
  /\ op \in [Clients -> Operations \union {"none"}]
  /\ target \in [Clients -> Targets \union {NoTarget}]
  /\ {hash, existing} \subseteq [Clients -> Hashes \union {NoHash}]
  /\ members \in [Clients -> SUBSET Targets]
  /\ \A c \in Clients :
       /\ pc[c] \in Locked \union {"lock", "backfill"} => target[c] # NoTarget
       /\ pc[c] \in Locked \ {"read", "release"} /\ op[c] \notin Registers => existing[c] # NoHash
  /\ crashed \subseteq Clients /\ {interrupted, overlapped} \subseteq SUBSET Targets
  /\ expiries \in 0 .. MaxExpiries /\ crashes \in 0 .. MaxCrashes

Working(t) == \E c \in Clients : target[c] = t /\ pc[c] \in Locked

(***************************************************************************)
(* While locks last, the two indexes say exactly what the record says      *)
(* whenever no operation on the target is in progress; after one that died *)
(* half way they still do once the target was registered or deleted again  *)
(* to the end.  At no time does a content index name a target that has     *)
(* other content: find_by_content_hash does not compare the hashes of the  *)
(* records it finds.  A target a reindex saw during its deletion is exempt *)
(* until it is registered again or its deletion repeated.                  *)
(***************************************************************************)
IndexesExact ==
  expiries = 0 =>
    /\ \A m \in contentIndex : record[m[2]] = m[1]
    /\ \A t \in Targets : ~Working(t) /\ t \notin interrupted \union overlapped =>
         /\ \A h \in Hashes : <<h, t>> \in contentIndex <=> record[t] = h
         /\ t \in listIndex <=> record[t] # NoHash

(***************************************************************************)
(* A member of the list index has a record, but for one case: a reindex    *)
(* saw the record before a delete removed it, and added the member after   *)
(* the delete had removed that.  The docstring of list_targets             *)
(* (registry.py:239-242) says the only way to a dangling member is a crash *)
(* in register_target or delete_target, or a gap of an old migration.  No  *)
(* crash leaves one: register writes the record before the member, delete  *)
(* removes the member before the record; and reindex is what does.         *)
(***************************************************************************)
ListNeverDangles ==
  expiries = 0 => \A t \in listIndex : record[t] # NoHash \/ t \in overlapped

(***************************************************************************)
(* Nothing but its TTL and its owner takes a lock away: a client that was  *)
(* overtaken does not release the lock of the one that overtook it.        *)
(***************************************************************************)
LockIsItsOwners ==
  [][\A t \in Targets : lock[t] # NoClient /\ lock'[t] # lock[t] =>
       \/ pc[lock[t]] = "release" /\ pc'[lock[t]] = "idle"
       \/ expiries' > expiries \/ lock[t] \in crashed]_vars

(***************************************************************************)
(* The blob of a registered target's content is in the shared store:       *)
(* deleting one of several targets with the same content leaves it there.  *)
(***************************************************************************)
MediaKept ==
  \A t \in Targets : record[t] # NoHash /\ ~Working(t) => record[t] \in media
=============================================================================
