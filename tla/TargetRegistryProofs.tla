------------------------ MODULE TargetRegistryProofs -------------------------
(***************************************************************************)
(* What TLAPS proves of TargetRegistry, for any number of clients, targets *)
(* and contents, and any number of crashes and expired locks.              *)
(***************************************************************************)
EXTENDS TargetRegistry, TLAPS

(***************************************************************************)
(* Types, of what is in Redis and the shared store and of what a client    *)
(* has in hand.                                                            *)
(***************************************************************************)
StoreTyped ==
  /\ record \in [Targets -> Hashes \union {NoHash}]
  /\ contentIndex \subseteq Hashes \X Targets
  /\ listIndex \subseteq Targets /\ media \subseteq Hashes
  /\ lock \in [Targets -> Clients \union {NoClient}]
  /\ crashed \subseteq Clients
  /\ interrupted \subseteq Targets /\ overlapped \subseteq Targets
  /\ expiries \in 0 .. MaxExpiries /\ crashes \in 0 .. MaxCrashes

ClientsTyped ==
  /\ pc \in [Clients -> Labels]
  /\ op \in [Clients -> Operations \union {"none"}]
  /\ target \in [Clients -> Targets \union {NoTarget}]
  /\ hash \in [Clients -> Hashes \union {NoHash}]
  /\ existing \in [Clients -> Hashes \union {NoHash}]
  /\ members \in [Clients -> SUBSET Targets]

(***************************************************************************)
(* The label of a client tells which operation it is at, and what that has *)
(* in hand: register_target a content, delete_target and update_target the *)
(* record they found.                                                      *)
(***************************************************************************)
Registering == {"srem", "sadd content", "sadd list"}
Deleting == {"srem content", "srem list", "del", "find", "resolve", "unlink"}

Ordered(c) ==
  /\ pc[c] \in Locked \union {"lock"} => op[c] \in Operations /\ op[c] # "reindex"
  /\ pc[c] \in Locked \union {"lock", "backfill"} => target[c] \in Targets
  /\ pc[c] \in Locked \union {"lock"} /\ op[c] \in Registers => hash[c] \in Hashes
  /\ pc[c] \in Registering => op[c] \in Registers
  /\ pc[c] \in Deleting => op[c] = "delete"
  /\ pc[c] = "hset" => op[c] \in Registers \union {"update"}
  /\ pc[c] \in Deleting \union {"hset"} /\ op[c] \notin Registers => existing[c] \in Hashes
  /\ c \in crashed => pc[c] = "dead"

(***************************************************************************)
(* While no lock expired under a live holder: a client at work owns the    *)
(* lock of its target, whoever owns a lock is at work on that target or    *)
(* died, and nobody owns two.                                              *)
(***************************************************************************)
Owned ==
  expiries = 0 =>
    /\ \A c \in Clients : pc[c] \in Locked => lock[target[c]] = c
    /\ \A t \in Targets : lock[t] # NoClient =>
         \/ lock[t] \in crashed
         \/ pc[lock[t]] \in Locked /\ target[lock[t]] = t
    /\ \A t, u \in Targets : lock[t] # NoClient /\ lock[t] = lock[u] => t = u

(***************************************************************************)
(* What the indexes name is there: the content index exactly; the list     *)
(* index, and a reindex that is about to add to it, but for a target a     *)
(* reindex overlapped.  A delete past the removal of the member meets a    *)
(* member, or a reindex about to add one, only if one overlapped it.       *)
(***************************************************************************)
NamesAt(t) == \A h \in Hashes : <<h, t>> \in contentIndex => record[t] = h

ListedAt(t) ==
  t \in listIndex \/ Sighted(t) =>
    /\ record[t] # NoHash \/ t \in overlapped
    /\ Undoing(t) => t \in overlapped

Listings == expiries = 0 => \A t \in Targets : ListedAt(t)

(***************************************************************************)
(* How far a client at work has brought the record and the indexes.        *)
(***************************************************************************)
NotIndexed(t) == \A h \in Hashes : <<h, t>> \notin contentIndex

Progress(c) ==
  /\ pc[c] \in {"srem", "srem content"} \/ (pc[c] = "hset" /\ op[c] = "update")
       => record[target[c]] = existing[c]
  /\ pc[c] = "hset" /\ op[c] \in Registers
       => \A h \in Hashes : <<h, target[c]>> \in contentIndex => h = hash[c]
  /\ pc[c] \in {"sadd content", "sadd list"} => record[target[c]] = hash[c]
  /\ pc[c] = "sadd list" => <<hash[c], target[c]>> \in contentIndex
  /\ pc[c] \in {"srem list", "del"} => NotIndexed(target[c])

(***************************************************************************)
(* What is there the indexes name, but for a target whose operation was    *)
(* cut short, and but for a client that is about to add the member, or has *)
(* just removed it.                                                        *)
(***************************************************************************)
Unindexed(c) ==
  pc[c] \in {"sadd content", "srem list", "del"} \/ (pc[c] = "hset" /\ op[c] \in Registers)
Unlisted(c) == pc[c] \in {"sadd content", "sadd list", "del"}

IndexedAt(t, unindexed, unlisted) ==
  t \notin interrupted /\ record[t] # NoHash =>
    /\ <<record[t], t>> \in contentIndex \/ unindexed
    /\ t \in listIndex \/ unlisted

Agreement ==
  expiries = 0 =>
    /\ \A c \in Clients : Progress(c)
    /\ \A t \in Targets :
         /\ NamesAt(t)
         /\ IndexedAt(t, \E c \in Clients : target[c] = t /\ Unindexed(c),
                         \E c \in Clients : target[c] = t /\ Unlisted(c))

IInv ==
  /\ StoreTyped /\ ClientsTyped /\ \A c \in Clients : Ordered(c)
  /\ Owned /\ Agreement /\ Listings

---------------------------------------------------------------------------

(* What is in Redis and in the shared store keeps its type. *)
LEMMA StoreTypedKeeps == IInv /\ [Next]_vars => StoreTyped'
<1> SUFFICES ASSUME IInv, [Next]_vars PROVE StoreTyped'
  OBVIOUS
<1> USE RegistryAssumption
<1>1. ASSUME NEW c \in Clients, NEW o \in Operations, NEW t \in Targets, NEW h \in Hashes,
             Call(c, o, t, h)
      PROVE  StoreTyped'
  <2>1. media' \subseteq Hashes
    BY <1>1 DEF Call, IInv, StoreTyped
  <2> QED
    BY <1>1, <2>1 DEF Call, faults, history, IInv, StoreTyped
<1>2. ASSUME NEW c \in Clients, Reindex(c) PROVE StoreTyped'
  BY <1>2 DEF Reindex, store, history, faults, IInv, StoreTyped
<1>3. ASSUME NEW c \in Clients, TakeLock(c) PROVE StoreTyped'
  BY <1>3 DEF TakeLock, Acquire, store, history, faults, IInv, StoreTyped
<1>4. ASSUME NEW c \in Clients, LockTimesOut(c) PROVE StoreTyped'
  BY <1>4 DEF LockTimesOut, store, history, faults, IInv, StoreTyped
<1>5. ASSUME NEW c \in Clients, Unlock(c) PROVE StoreTyped'
  BY <1>5 DEF Unlock, Release, store, history, faults, IInv, StoreTyped
<1>6. ASSUME NEW c \in Clients, Read(c) PROVE StoreTyped'
  BY <1>6 DEF Read, store, history, faults, IInv, StoreTyped
<1>7. ASSUME NEW c \in Clients, DropOldMember(c) PROVE StoreTyped'
  BY <1>7 DEF DropOldMember, history, faults, IInv, StoreTyped
<1>8. ASSUME NEW c \in Clients, WriteRecord(c) PROVE StoreTyped'
  BY <1>8 DEF WriteRecord, history, faults, IInv, StoreTyped, ClientsTyped
<1>9. ASSUME NEW c \in Clients, AddContentMember(c) PROVE StoreTyped'
  <2>1. hash[c] \in Hashes /\ target[c] \in Targets
    BY <1>9 DEF AddContentMember, At, IInv, Ordered, Registering, Locked
  <2>2. contentIndex' \subseteq Hashes \X Targets
    <3>1. <<hash[c], target[c]>> \in Hashes \X Targets
      BY <2>1
    <3>2. contentIndex' = contentIndex \union {<<hash[c], target[c]>>}
      BY <1>9 DEF AddContentMember
    <3> QED
      BY <3>1, <3>2 DEF IInv, StoreTyped
  <2> QED
    BY <1>9, <2>2 DEF AddContentMember, faults, history, IInv, StoreTyped
<1>10. ASSUME NEW c \in Clients, AddListMember(c) PROVE StoreTyped'
  BY <1>10 DEF AddListMember, At, IInv, StoreTyped, Ordered, Locked
<1>11. ASSUME NEW c \in Clients, DropContentMember(c) PROVE StoreTyped'
  BY <1>11 DEF DropContentMember, history, faults, IInv, StoreTyped
<1>12. ASSUME NEW c \in Clients, DropListMember(c) PROVE StoreTyped'
  BY <1>12 DEF DropListMember, At, IInv, StoreTyped, Ordered, Locked
<1>13. ASSUME NEW c \in Clients, DeleteRecord(c) PROVE StoreTyped'
  BY <1>13 DEF DeleteRecord, IInv, StoreTyped
<1>14. ASSUME NEW c \in Clients, FindSharers(c) PROVE StoreTyped'
  BY <1>14 DEF FindSharers, store, history, faults, IInv, StoreTyped
<1>15. ASSUME NEW c \in Clients, ResolveSharer(c) PROVE StoreTyped'
  BY <1>15 DEF ResolveSharer, store, history, faults, IInv, StoreTyped
<1>16. ASSUME NEW c \in Clients, DeleteMedia(c) PROVE StoreTyped'
  BY <1>16 DEF DeleteMedia, history, faults, IInv, StoreTyped
<1>17. ASSUME NEW c \in Clients, Backfill(c) PROVE StoreTyped'
  BY <1>17 DEF Backfill, At, history, faults, IInv, StoreTyped, Ordered
<1>18. ASSUME NEW c \in Clients, ScanEnds(c) PROVE StoreTyped'
  BY <1>18 DEF ScanEnds, store, history, faults, IInv, StoreTyped
<1>19. ASSUME NEW c \in Clients, Crash(c) PROVE StoreTyped'
  <2>1. interrupted' \subseteq Targets
    BY <1>19 DEF Crash, CutShort, Halfway, Locked, IInv, StoreTyped, Ordered
  <2>2. crashed' \subseteq Clients
    BY <1>19 DEF Crash, IInv, StoreTyped
  <2>3. crashes' \in 0 .. MaxCrashes
    <3>1. MaxCrashes \in Nat /\ crashes \in 0 .. MaxCrashes /\ crashes < MaxCrashes
      BY <1>19 DEF Crash, IInv, StoreTyped
    <3> QED
      BY <1>19, <3>1 DEF Crash
  <2> QED
    BY <1>19, <2>1, <2>2, <2>3 DEF Crash, store, IInv, StoreTyped
<1>20. ASSUME NEW c \in Clients, Restart(c) PROVE StoreTyped'
  BY <1>20 DEF Restart, store, history, faults, IInv, StoreTyped
<1>21. ASSUME NEW c \in Clients, NEW t \in Targets, ScanRecord(c, t) PROVE StoreTyped'
  BY <1>21 DEF ScanRecord, store, IInv, StoreTyped
<1>22. ASSUME NEW t \in Targets, LockExpires(t) PROVE StoreTyped'
  <2>1. expiries' \in 0 .. MaxExpiries
    <3>1. MaxExpiries \in Nat /\ expiries \in 0 .. MaxExpiries
      BY DEF IInv, StoreTyped
    <3> QED
      BY <1>22, <3>1 DEF LockExpires
  <2>2. lock' \in [Targets -> Clients \union {NoClient}] /\ crashed' \subseteq Clients
    BY <1>22 DEF LockExpires, IInv, StoreTyped
  <2> QED
    BY <1>22, <2>1, <2>2 DEF LockExpires, store, history, IInv, StoreTyped
<1>23. CASE UNCHANGED vars
  BY <1>23 DEF vars, store, history, faults, IInv, StoreTyped
<1>24. ASSUME NEW c \in Clients, CallFails(c) PROVE StoreTyped'
  <2>1. interrupted' \subseteq Targets
    BY <1>24 DEF CallFails, CutShort, Halfway, Locked, IInv, StoreTyped, Ordered
  <2>2. crashes' \in 0 .. MaxCrashes
    <3>1. MaxCrashes \in Nat /\ crashes \in 0 .. MaxCrashes /\ crashes < MaxCrashes
      BY <1>24 DEF CallFails, IInv, StoreTyped
    <3> QED
      BY <1>24, <3>1 DEF CallFails
  <2> QED
    BY <1>24, <2>1, <2>2 DEF CallFails, store, IInv, StoreTyped
<1> QED
  BY <1>1, <1>2, <1>3, <1>4, <1>5, <1>6, <1>7, <1>8, <1>9, <1>10, <1>11, <1>12, <1>13, <1>14,
     <1>15, <1>16, <1>17, <1>18, <1>19, <1>20, <1>21, <1>22, <1>23, <1>24 DEF Next, Work

(* So does what clients have in hand. *)
LEMMA ClientsTypedKeeps == IInv /\ [Next]_vars => ClientsTyped'
<1> SUFFICES ASSUME IInv, [Next]_vars PROVE ClientsTyped'
  OBVIOUS
<1> USE RegistryAssumption
<1>1. ASSUME NEW c \in Clients, NEW o \in Operations, NEW t \in Targets, NEW h \in Hashes,
             Call(c, o, t, h)
      PROVE  ClientsTyped'
  BY <1>1 DEF Call, Goto, locals, IInv, ClientsTyped, Labels
<1>2. ASSUME NEW c \in Clients, Reindex(c) PROVE ClientsTyped'
  BY <1>2 DEF Reindex, Goto, IInv, ClientsTyped, Labels
<1>3. ASSUME NEW c \in Clients, TakeLock(c) PROVE ClientsTyped'
  BY <1>3 DEF TakeLock, Goto, args, locals, IInv, ClientsTyped, Locked, Labels
<1>4. ASSUME NEW c \in Clients, LockTimesOut(c) PROVE ClientsTyped'
  BY <1>4 DEF LockTimesOut, Goto, Idle, IInv, ClientsTyped, Labels
<1>5. ASSUME NEW c \in Clients, Unlock(c) PROVE ClientsTyped'
  BY <1>5 DEF Unlock, Goto, Idle, IInv, ClientsTyped, Labels
<1>6. ASSUME NEW c \in Clients, Read(c) PROVE ClientsTyped'
  BY <1>6 DEF Read, At, Goto, args, IInv, StoreTyped, ClientsTyped, Ordered, Locked, Labels
<1>7. ASSUME NEW c \in Clients, DropOldMember(c) PROVE ClientsTyped'
  BY <1>7 DEF DropOldMember, Goto, args, locals, IInv, ClientsTyped, Locked, Labels
<1>8. ASSUME NEW c \in Clients, WriteRecord(c) PROVE ClientsTyped'
  BY <1>8 DEF WriteRecord, Goto, args, locals, IInv, ClientsTyped, Locked, Labels
<1>9. ASSUME NEW c \in Clients, AddContentMember(c) PROVE ClientsTyped'
  BY <1>9 DEF AddContentMember, Goto, args, locals, IInv, ClientsTyped, Locked, Labels
<1>10. ASSUME NEW c \in Clients, AddListMember(c) PROVE ClientsTyped'
  BY <1>10 DEF AddListMember, Goto, args, locals, IInv, ClientsTyped, Locked, Labels
<1>11. ASSUME NEW c \in Clients, DropContentMember(c) PROVE ClientsTyped'
  BY <1>11 DEF DropContentMember, Goto, args, locals, IInv, ClientsTyped, Locked, Labels
<1>12. ASSUME NEW c \in Clients, DropListMember(c) PROVE ClientsTyped'
  BY <1>12 DEF DropListMember, Goto, args, locals, IInv, ClientsTyped, Locked, Labels
<1>13. ASSUME NEW c \in Clients, DeleteRecord(c) PROVE ClientsTyped'
  BY <1>13 DEF DeleteRecord, Goto, args, locals, IInv, ClientsTyped, Locked, Labels
<1>14. ASSUME NEW c \in Clients, FindSharers(c) PROVE ClientsTyped'
  BY <1>14 DEF FindSharers, Goto, args, IInv, ClientsTyped, Locked, Labels
<1>15. ASSUME NEW c \in Clients, ResolveSharer(c) PROVE ClientsTyped'
  <2>1. /\ pc' = pc \/ pc' = [pc EXCEPT ![c] = "unlink"] \/ pc' = [pc EXCEPT ![c] = "release"]
        /\ members' = members \/ \E t \in members[c] : members' = [members EXCEPT ![c] = @ \ {t}]
        /\ pc[c] = "resolve" /\ UNCHANGED <<op, target, hash, existing, crashed>>
    BY <1>15 DEF ResolveSharer, At, Goto, args, faults
  <2>2. pc' \in [Clients -> Labels]
    <3>1. pc \in [Clients -> Labels] /\ "unlink" \in Labels /\ "release" \in Labels
      BY DEF IInv, ClientsTyped, Labels, Locked
    <3> QED
      BY <2>1, <3>1
  <2>3. members' \in [Clients -> SUBSET Targets]
    <3>1. members \in [Clients -> SUBSET Targets]
      BY DEF IInv, ClientsTyped
    <3> QED
      BY <2>1, <3>1
  <2> QED
    BY <2>1, <2>2, <2>3 DEF IInv, ClientsTyped
<1>16. ASSUME NEW c \in Clients, DeleteMedia(c) PROVE ClientsTyped'
  BY <1>16 DEF DeleteMedia, Goto, args, locals, IInv, ClientsTyped, Locked, Labels
<1>17. ASSUME NEW c \in Clients, Backfill(c) PROVE ClientsTyped'
  BY <1>17 DEF Backfill, Goto, locals, IInv, ClientsTyped, Labels
<1>18. ASSUME NEW c \in Clients, ScanEnds(c) PROVE ClientsTyped'
  BY <1>18 DEF ScanEnds, Goto, Idle, IInv, ClientsTyped, Labels
<1>19. ASSUME NEW c \in Clients, Crash(c) PROVE ClientsTyped'
  BY <1>19 DEF Crash, Goto, IInv, ClientsTyped, Labels
<1>20. ASSUME NEW c \in Clients, Restart(c) PROVE ClientsTyped'
  BY <1>20 DEF Restart, Goto, args, locals, IInv, ClientsTyped, Labels
<1>21. ASSUME NEW c \in Clients, NEW t \in Targets, ScanRecord(c, t) PROVE ClientsTyped'
  <2>1. /\ pc' = pc \/ pc' = [pc EXCEPT ![c] = "backfill"]
        /\ target' = target \/ target' = [target EXCEPT ![c] = t]
        /\ members' = [members EXCEPT ![c] = @ \ {t}]
        /\ UNCHANGED <<op, hash, existing>>
    BY <1>21 DEF ScanRecord, Goto
  <2>2. pc' \in [Clients -> Labels]
    BY <2>1 DEF IInv, ClientsTyped, Labels
  <2>3. /\ target' \in [Clients -> Targets \union {NoTarget}]
        /\ members' \in [Clients -> SUBSET Targets]
    BY <2>1 DEF IInv, ClientsTyped
  <2> QED
    BY <2>1, <2>2, <2>3 DEF IInv, ClientsTyped
<1>22. ASSUME NEW t \in Targets, LockExpires(t) PROVE ClientsTyped'
  BY <1>22 DEF LockExpires, args, locals, IInv, ClientsTyped
<1>23. CASE UNCHANGED vars
  BY <1>23 DEF vars, args, locals, IInv, ClientsTyped
<1>24. ASSUME NEW c \in Clients, CallFails(c) PROVE ClientsTyped'
  BY <1>24 DEF CallFails, Goto, args, locals, IInv, ClientsTyped, Locked, Labels
<1> QED
  BY <1>1, <1>2, <1>3, <1>4, <1>5, <1>6, <1>7, <1>8, <1>9, <1>10, <1>11, <1>12, <1>13, <1>14,
     <1>15, <1>16, <1>17, <1>18, <1>19, <1>20, <1>21, <1>22, <1>23, <1>24 DEF Next, Work

(* Operations take the steps of the code in its order. *)
LEMMA OrderedKeeps == IInv /\ [Next]_vars => (\A d \in Clients : Ordered(d))'
<1> SUFFICES ASSUME IInv, [Next]_vars PROVE (\A d \in Clients : Ordered(d))'
  OBVIOUS
<1> USE RegistryAssumption
<1>1. ASSUME NEW c \in Clients, NEW o \in Operations, NEW t \in Targets, NEW h \in Hashes,
             Call(c, o, t, h)
      PROVE  (\A d \in Clients : Ordered(d))'
  BY <1>1 DEF Call, At, Goto, locals, faults, IInv, ClientsTyped, Ordered, Registering, Deleting
<1>2. ASSUME NEW c \in Clients, Reindex(c) PROVE (\A d \in Clients : Ordered(d))'
  BY <1>2
     DEF Reindex, At, Goto, faults, IInv, ClientsTyped, Ordered, Registering, Deleting, Locked
<1>3. ASSUME NEW c \in Clients, TakeLock(c) PROVE (\A d \in Clients : Ordered(d))'
  BY <1>3
     DEF TakeLock, At, Goto, args, locals, faults, IInv, ClientsTyped, Ordered, Registering,
     Deleting
<1>4. ASSUME NEW c \in Clients, LockTimesOut(c) PROVE (\A d \in Clients : Ordered(d))'
  BY <1>4
     DEF LockTimesOut, At, Goto, Idle, faults, IInv, ClientsTyped, Ordered, Registering,
     Deleting, Locked
<1>5. ASSUME NEW c \in Clients, Unlock(c) PROVE (\A d \in Clients : Ordered(d))'
  BY <1>5
     DEF Unlock, At, Goto, Idle, faults, IInv, ClientsTyped, Ordered, Registering, Deleting,
     Locked
<1>6. ASSUME NEW c \in Clients, Read(c) PROVE (\A d \in Clients : Ordered(d))'
  <2>1. /\ \A d \in Clients \ {c} : pc'[d] = pc[d] /\ existing'[d] = existing[d]
        /\ UNCHANGED <<op, target, hash, crashed>>
    BY <1>6 DEF Read, Goto, args, faults, IInv, ClientsTyped
  <2>2. \A d \in Clients \ {c} : Ordered(d)'
    BY <2>1 DEF IInv, Ordered
  <2>3. /\ pc[c] = "read" /\ existing'[c] = record[target[c]]
        /\ \/ pc'[c] = "release"
           \/ op[c] \in Registers /\ pc'[c] \in {"srem", "hset"}
           \/ op[c] = "update" /\ pc'[c] = "hset" /\ ~Missing(c)
           \/ op[c] \notin Registers /\ op[c] # "update" /\ pc'[c] = "srem content" /\ ~Missing(c)
    BY <1>6 DEF Read, At, Goto, IInv, ClientsTyped
  <2>4. /\ op[c] \in Operations /\ op[c] # "reindex" /\ target[c] \in Targets /\ c \notin crashed
        /\ op[c] \in Registers => hash[c] \in Hashes
    BY <2>3 DEF IInv, Ordered, Locked
  <2>5. ~Missing(c) => existing'[c] \in Hashes
    BY <2>3, <2>4 DEF Missing, IInv, StoreTyped
  <2>6. op[c] \notin Registers /\ op[c] # "update" => op[c] = "delete"
    BY <2>4 DEF Registers
  <2>7. Ordered(c)'
    BY <2>1, <2>3, <2>4, <2>5, <2>6 DEF Ordered, Registering, Deleting, Locked
  <2> QED
    BY <2>2, <2>7
<1>7. ASSUME NEW c \in Clients, DropOldMember(c) PROVE (\A d \in Clients : Ordered(d))'
  BY <1>7
     DEF DropOldMember, At, Goto, args, locals, faults, IInv, ClientsTyped, Ordered,
     Registering, Deleting, Locked
<1>8. ASSUME NEW c \in Clients, WriteRecord(c) PROVE (\A d \in Clients : Ordered(d))'
  BY <1>8
     DEF WriteRecord, At, Goto, args, locals, faults, IInv, ClientsTyped, Ordered, Registering,
     Deleting, Locked
<1>9. ASSUME NEW c \in Clients, AddContentMember(c) PROVE (\A d \in Clients : Ordered(d))'
  BY <1>9
     DEF AddContentMember, At, Goto, args, locals, faults, IInv, ClientsTyped, Ordered,
     Registering, Deleting, Locked
<1>10. ASSUME NEW c \in Clients, AddListMember(c) PROVE (\A d \in Clients : Ordered(d))'
  BY <1>10
     DEF AddListMember, At, Goto, args, locals, IInv, ClientsTyped, Ordered, Registering,
     Deleting, Locked
<1>11. ASSUME NEW c \in Clients, DropContentMember(c) PROVE (\A d \in Clients : Ordered(d))'
  BY <1>11
     DEF DropContentMember, At, Goto, args, locals, faults, IInv, ClientsTyped, Ordered,
     Registering, Deleting, Locked
<1>12. ASSUME NEW c \in Clients, DropListMember(c) PROVE (\A d \in Clients : Ordered(d))'
  BY <1>12
     DEF DropListMember, At, Goto, args, locals, IInv, ClientsTyped, Ordered, Registering,
     Deleting, Locked
<1>13. ASSUME NEW c \in Clients, DeleteRecord(c) PROVE (\A d \in Clients : Ordered(d))'
  BY <1>13
     DEF DeleteRecord, At, Goto, args, locals, IInv, ClientsTyped, Ordered, Registering,
     Deleting, Locked
<1>14. ASSUME NEW c \in Clients, FindSharers(c) PROVE (\A d \in Clients : Ordered(d))'
  BY <1>14
     DEF FindSharers, At, Goto, args, faults, IInv, ClientsTyped, Ordered, Registering,
     Deleting, Locked
<1>15. ASSUME NEW c \in Clients, ResolveSharer(c) PROVE (\A d \in Clients : Ordered(d))'
  <2>1. /\ pc' = pc \/ pc' = [pc EXCEPT ![c] = "unlink"] \/ pc' = [pc EXCEPT ![c] = "release"]
        /\ pc[c] = "resolve" /\ UNCHANGED <<op, target, hash, existing, crashed>>
    BY <1>15 DEF ResolveSharer, At, Goto, args, faults
  <2>2. /\ \A d \in Clients \ {c} : pc'[d] = pc[d]
        /\ pc'[c] \in {"resolve", "unlink", "release"}
    BY <2>1 DEF IInv, ClientsTyped
  <2>3. \A d \in Clients \ {c} : Ordered(d)'
    BY <2>1, <2>2 DEF IInv, Ordered
  <2>4. Ordered(c)'
    BY <2>1, <2>2 DEF IInv, Ordered, Registering, Deleting, Locked
  <2> QED
    BY <2>3, <2>4
<1>16. ASSUME NEW c \in Clients, DeleteMedia(c) PROVE (\A d \in Clients : Ordered(d))'
  BY <1>16
     DEF DeleteMedia, At, Goto, args, locals, faults, IInv, ClientsTyped, Ordered, Registering,
     Deleting, Locked
<1>17. ASSUME NEW c \in Clients, Backfill(c) PROVE (\A d \in Clients : Ordered(d))'
  BY <1>17
     DEF Backfill, At, Goto, locals, history, faults, IInv, ClientsTyped, Ordered, Registering,
     Deleting, Locked
<1>18. ASSUME NEW c \in Clients, ScanEnds(c) PROVE (\A d \in Clients : Ordered(d))'
  BY <1>18
     DEF ScanEnds, At, Goto, Idle, faults, IInv, ClientsTyped, Ordered, Registering, Deleting,
     Locked
<1>19. ASSUME NEW c \in Clients, Crash(c) PROVE (\A d \in Clients : Ordered(d))'
  BY <1>19 DEF Crash, Goto, IInv, ClientsTyped, Ordered, Registering, Deleting, Locked
<1>20. ASSUME NEW c \in Clients, Restart(c) PROVE (\A d \in Clients : Ordered(d))'
  BY <1>20
     DEF Restart, Goto, args, locals, faults, IInv, ClientsTyped, Ordered, Registering,
     Deleting, Locked
<1>21. ASSUME NEW c \in Clients, NEW t \in Targets, ScanRecord(c, t)
       PROVE (\A d \in Clients : Ordered(d))'
  <2>1. /\ \/ pc' = pc /\ target' = target
           \/ pc' = [pc EXCEPT ![c] = "backfill"] /\ target' = [target EXCEPT ![c] = t]
        /\ pc[c] = "scan" /\ UNCHANGED <<op, hash, existing, crashed>>
    BY <1>21 DEF ScanRecord, At, Goto, faults
  <2>2. /\ \A d \in Clients \ {c} : pc'[d] = pc[d] /\ target'[d] = target[d]
        /\ pc'[c] = "scan" \/ (pc'[c] = "backfill" /\ target'[c] = t)
    BY <2>1 DEF IInv, ClientsTyped
  <2>3. \A d \in Clients \ {c} : Ordered(d)'
    BY <2>1, <2>2 DEF IInv, Ordered
  <2>4. Ordered(c)'
    BY <2>1, <2>2 DEF IInv, Ordered, Registering, Deleting, Locked
  <2> QED
    BY <2>3, <2>4
<1>22. ASSUME NEW t \in Targets, LockExpires(t) PROVE (\A d \in Clients : Ordered(d))'
  BY <1>22 DEF LockExpires, args, locals, IInv, Ordered
<1>23. CASE UNCHANGED vars
  BY <1>23 DEF vars, args, locals, faults, IInv, Ordered
<1>24. ASSUME NEW c \in Clients, CallFails(c) PROVE (\A d \in Clients : Ordered(d))'
  BY <1>24
     DEF CallFails, Goto, args, locals, IInv, ClientsTyped, Ordered, Registering, Deleting,
     Locked
<1> QED
  BY <1>1, <1>2, <1>3, <1>4, <1>5, <1>6, <1>7, <1>8, <1>9, <1>10, <1>11, <1>12, <1>13, <1>14,
     <1>15, <1>16, <1>17, <1>18, <1>19, <1>20, <1>21, <1>22, <1>23, <1>24 DEF Next, Work

---------------------------------------------------------------------------
(* The lock is with the client at work until it releases it or dies.       *)
LEMMA OwnedStays ==
  ASSUME Owned, lock' = lock, crashed' = crashed, expiries' = 0 => expiries = 0,
         \A d \in Clients : pc'[d] \in Locked <=> pc[d] \in Locked,
         \A d \in Clients : pc[d] \in Locked => target'[d] = target[d],
         lock \in [Targets -> Clients \union {NoClient}],
         target \in [Clients -> Targets \union {NoTarget}]
  PROVE  Owned'
<1> HIDE DEF Locked
<1> QED
  BY DEF Owned

(* Locks and their owners, step by step.                                   *)
LEMMA OwnedKeeps == IInv /\ [Next]_vars => Owned'
<1> SUFFICES ASSUME IInv, [Next]_vars PROVE Owned'
  OBVIOUS
<1> USE RegistryAssumption
<1>1. ASSUME NEW c \in Clients, NEW o \in Operations, NEW t \in Targets, NEW h \in Hashes,
             Call(c, o, t, h)
      PROVE  Owned'
  BY <1>1, OwnedStays DEF Call, At, Goto, faults, IInv, StoreTyped, ClientsTyped, Locked
<1>2. ASSUME NEW c \in Clients, Reindex(c) PROVE Owned'
  BY <1>2, OwnedStays DEF Reindex, At, Goto, faults, IInv, StoreTyped, ClientsTyped, Locked
<1>3. ASSUME NEW c \in Clients, LockTimesOut(c) PROVE Owned'
  BY <1>3, OwnedStays
     DEF LockTimesOut, At, Goto, Idle, faults, IInv, StoreTyped, ClientsTyped, Locked
<1>4. ASSUME NEW c \in Clients, Restart(c) PROVE Owned'
  BY <1>4, OwnedStays
     DEF Restart, At, Goto, args, faults, IInv, StoreTyped, ClientsTyped, Locked
<1>5. ASSUME NEW c \in Clients, Backfill(c) PROVE Owned'
  BY <1>5, OwnedStays DEF Backfill, At, Goto, faults, IInv, StoreTyped, ClientsTyped, Locked
<1>6. ASSUME NEW c \in Clients, ScanEnds(c) PROVE Owned'
  BY <1>6, OwnedStays
     DEF ScanEnds, At, Goto, Idle, faults, IInv, StoreTyped, ClientsTyped, Locked
<1>7. ASSUME NEW c \in Clients, Read(c) PROVE Owned'
  BY <1>7, OwnedStays DEF Read, At, Goto, args, faults, IInv, StoreTyped, ClientsTyped, Locked
<1>8. ASSUME NEW c \in Clients, DropOldMember(c) PROVE Owned'
  BY <1>8, OwnedStays
     DEF DropOldMember, At, Goto, args, faults, IInv, StoreTyped, ClientsTyped, Locked
<1>9. ASSUME NEW c \in Clients, WriteRecord(c) PROVE Owned'
  BY <1>9, OwnedStays
     DEF WriteRecord, At, Goto, args, faults, IInv, StoreTyped, ClientsTyped, Locked
<1>10. ASSUME NEW c \in Clients, AddContentMember(c) PROVE Owned'
  BY <1>10, OwnedStays
     DEF AddContentMember, At, Goto, args, faults, IInv, StoreTyped, ClientsTyped, Locked
<1>11. ASSUME NEW c \in Clients, AddListMember(c) PROVE Owned'
  BY <1>11, OwnedStays DEF AddListMember, At, Goto, args, IInv, StoreTyped, ClientsTyped, Locked
<1>12. ASSUME NEW c \in Clients, DropContentMember(c) PROVE Owned'
  BY <1>12, OwnedStays
     DEF DropContentMember, At, Goto, args, faults, IInv, StoreTyped, ClientsTyped, Locked
<1>13. ASSUME NEW c \in Clients, DropListMember(c) PROVE Owned'
  BY <1>13, OwnedStays
     DEF DropListMember, At, Goto, args, IInv, StoreTyped, ClientsTyped, Locked
<1>14. ASSUME NEW c \in Clients, DeleteRecord(c) PROVE Owned'
  BY <1>14, OwnedStays DEF DeleteRecord, At, Goto, args, IInv, StoreTyped, ClientsTyped, Locked
<1>15. ASSUME NEW c \in Clients, FindSharers(c) PROVE Owned'
  BY <1>15, OwnedStays
     DEF FindSharers, At, Goto, args, faults, IInv, StoreTyped, ClientsTyped, Locked
<1>16. ASSUME NEW c \in Clients, ResolveSharer(c) PROVE Owned'
  BY <1>16, OwnedStays
     DEF ResolveSharer, At, Goto, args, faults, IInv, StoreTyped, ClientsTyped, Locked
<1>17. ASSUME NEW c \in Clients, DeleteMedia(c) PROVE Owned'
  BY <1>17, OwnedStays
     DEF DeleteMedia, At, Goto, args, faults, IInv, StoreTyped, ClientsTyped, Locked
<1>18. ASSUME NEW c \in Clients, NEW t \in Targets, ScanRecord(c, t) PROVE Owned'
  <2>1. /\ pc[c] = "scan" /\ UNCHANGED <<lock, crashed, expiries>>
        /\ \/ UNCHANGED <<pc, target>>
           \/ /\ pc' = [pc EXCEPT ![c] = "backfill"] /\ target' = [target EXCEPT ![c] = t]
    BY <1>18 DEF ScanRecord, At, Goto
  <2>2. /\ pc'[c] \in {"scan", "backfill"}
        /\ \A d \in Clients \ {c} : pc'[d] = pc[d] /\ target'[d] = target[d]
    BY <2>1 DEF IInv, ClientsTyped
  <2>3. \A d \in Clients : pc'[d] \in Locked <=> pc[d] \in Locked
    BY <2>1, <2>2 DEF Locked
  <2>4. \A d \in Clients : pc[d] \in Locked => target'[d] = target[d]
    BY <2>1, <2>2 DEF Locked
  <2> QED
    BY <2>1, <2>3, <2>4, OwnedStays DEF IInv, StoreTyped, ClientsTyped
<1>19. ASSUME NEW c \in Clients, TakeLock(c) PROVE Owned'
  <2> SUFFICES ASSUME expiries' = 0 PROVE Owned'
    BY DEF Owned
  <2>1. /\ expiries = 0 /\ UNCHANGED <<target, crashed>> /\ target[c] \in Targets
        /\ pc' = [pc EXCEPT ![c] = "read"] /\ pc[c] = "lock"
        /\ lock[target[c]] = NoClient /\ lock' = [lock EXCEPT ![target[c]] = c]
    BY <1>19 DEF TakeLock, At, Goto, Acquire, args, faults, IInv, Ordered
  <2>2. ASSUME NEW t \in Targets, lock[t] = c PROVE FALSE
    <3>1. pc[c] \notin Locked /\ pc[c] # "dead"
      BY <2>1 DEF Locked
    <3> QED
      BY <2>1, <2>2, <3>1 DEF IInv, Owned, Ordered
  <2>3. ASSUME NEW d \in Clients, pc'[d] \in Locked PROVE lock'[target'[d]] = d
    <3>1. CASE d = c
      BY <2>1, <3>1 DEF IInv, StoreTyped
    <3>2. CASE d # c
      <4>1. pc[d] \in Locked
        BY <2>1, <2>3, <3>2
      <4>2. lock[target[d]] = d /\ target[d] \in Targets
        BY <2>1, <4>1 DEF IInv, Owned, Ordered
      <4> QED
        BY <2>1, <4>2
    <3> QED
      BY <3>1, <3>2
  <2>4. ASSUME NEW t \in Targets, lock'[t] # NoClient
        PROVE  \/ lock'[t] \in crashed'
               \/ pc'[lock'[t]] \in Locked /\ target'[lock'[t]] = t
    <3>1. CASE t = target[c]
      BY <2>1, <3>1 DEF IInv, StoreTyped, ClientsTyped, Locked
    <3>2. CASE t # target[c]
      <4>1. lock'[t] = lock[t] /\ lock[t] # c
        BY <2>1, <2>2, <3>2
      <4>2. pc'[lock[t]] = pc[lock[t]]
        BY <2>1, <2>4, <4>1
      <4> QED
        BY <2>1, <2>4, <4>1, <4>2 DEF IInv, Owned
    <3> QED
      BY <3>1, <3>2
  <2>5. \A t, u \in Targets : lock'[t] # NoClient /\ lock'[t] = lock'[u] => t = u
    BY <2>1, <2>2 DEF IInv, Owned
  <2> QED
    BY <2>3, <2>4, <2>5 DEF Owned
<1>20. ASSUME NEW c \in Clients, Unlock(c) PROVE Owned'
  <2> SUFFICES ASSUME expiries' = 0 PROVE Owned'
    BY DEF Owned
  <2>1. /\ expiries = 0 /\ UNCHANGED crashed /\ target[c] \in Targets
        /\ pc' = [pc EXCEPT ![c] = "idle"] /\ pc[c] = "release"
        /\ target' = [target EXCEPT ![c] = NoTarget]
        /\ lock' = IF lock[target[c]] = c THEN [lock EXCEPT ![target[c]] = NoClient] ELSE lock
    BY <1>20 DEF Unlock, At, Goto, Release, Idle, faults, IInv, Ordered, Locked
  <2>2. lock[target[c]] = c /\ \A t \in Targets : lock[t] = c => t = target[c]
    <3>1. pc[c] \in Locked /\ c # NoClient
      BY <2>1 DEF Locked
    <3> QED
      BY <2>1, <3>1 DEF IInv, Owned
  <2>3. ASSUME NEW d \in Clients, pc'[d] \in Locked PROVE lock'[target'[d]] = d
    <3>1. d # c /\ pc[d] \in Locked /\ target'[d] = target[d]
      BY <2>1, <2>3 DEF IInv, ClientsTyped, Locked
    <3>2. lock[target[d]] = d /\ target[d] \in Targets
      BY <2>1, <3>1 DEF IInv, Owned, Ordered
    <3> QED
      BY <2>1, <2>2, <3>1, <3>2
  <2>4. ASSUME NEW t \in Targets, lock'[t] # NoClient
        PROVE  \/ lock'[t] \in crashed'
               \/ pc'[lock'[t]] \in Locked /\ target'[lock'[t]] = t
    BY <2>1, <2>2, <2>4 DEF IInv, Owned, StoreTyped
  <2>5. \A t, u \in Targets : lock'[t] # NoClient /\ lock'[t] = lock'[u] => t = u
    BY <2>1 DEF IInv, Owned
  <2> QED
    BY <2>3, <2>4, <2>5 DEF Owned
<1>21. ASSUME NEW c \in Clients, Crash(c) PROVE Owned'
  <2> SUFFICES ASSUME expiries' = 0 PROVE Owned'
    BY DEF Owned
  <2>1. /\ expiries = 0 /\ UNCHANGED lock
        /\ \E l \in {"dead", "idle"} : pc' = [pc EXCEPT ![c] = l]
        /\ target' = [target EXCEPT ![c] = NoTarget]
        /\ crashed' = IF \E t \in Targets : lock[t] = c THEN crashed \union {c} ELSE crashed
    BY <1>21 DEF Crash, Goto
  <2>2. \A d \in Clients : pc'[d] \in Locked => d # c /\ pc[d] \in Locked /\ target'[d] = target[d]
    BY <2>1 DEF IInv, ClientsTyped, Locked
  <2>3. \A d \in Clients : pc'[d] \in Locked => lock'[target'[d]] = d
    BY <2>1, <2>2 DEF IInv, Owned
  <2>4. ASSUME NEW t \in Targets, lock'[t] # NoClient
        PROVE  \/ lock'[t] \in crashed'
               \/ pc'[lock'[t]] \in Locked /\ target'[lock'[t]] = t
    BY <2>1, <2>4 DEF IInv, Owned
  <2> QED
    BY <2>1, <2>3, <2>4 DEF IInv, Owned
<1>22. ASSUME NEW t \in Targets, LockExpires(t) PROVE Owned'
  <2> SUFFICES ASSUME expiries' = 0 PROVE Owned'
    BY DEF Owned
  <2>1. /\ UNCHANGED <<pc, target>> /\ lock[t] # NoClient /\ crashed' = crashed \ {lock[t]}
        /\ expiries = 0 /\ lock[t] \in crashed /\ lock' = [lock EXCEPT ![t] = NoClient]
    BY <1>22 DEF LockExpires, args, IInv, StoreTyped
  <2>2. \A u \in Targets : u # t => lock[u] # lock[t]
    BY <2>1 DEF IInv, Owned
  <2>3. \A d \in Clients : pc[d] \in Locked => target[d] \in Targets /\ d \notin crashed
    BY DEF IInv, Ordered, Locked
  <2>4. \A d \in Clients : pc'[d] \in Locked => lock'[target'[d]] = d
    BY <2>1, <2>3 DEF IInv, Owned
  <2>5. ASSUME NEW u \in Targets, lock'[u] # NoClient
        PROVE  \/ lock'[u] \in crashed'
               \/ pc'[lock'[u]] \in Locked /\ target'[lock'[u]] = u
    BY <2>1, <2>2, <2>5 DEF IInv, Owned, StoreTyped
  <2>6. \A u, v \in Targets : lock'[u] # NoClient /\ lock'[u] = lock'[v] => u = v
    BY <2>1 DEF IInv, Owned
  <2> QED
    BY <2>4, <2>5, <2>6 DEF Owned
<1>23. CASE UNCHANGED vars
  BY <1>23 DEF vars, args, faults, IInv, Owned
<1>24. ASSUME NEW c \in Clients, CallFails(c) PROVE Owned'
  BY <1>24, OwnedStays DEF CallFails, Goto, args, IInv, StoreTyped, ClientsTyped, Locked
<1> QED
  BY <1>1, <1>2, <1>3, <1>4, <1>5, <1>6, <1>7, <1>8, <1>9, <1>10, <1>11, <1>12, <1>13, <1>14,
     <1>15, <1>16, <1>17, <1>18, <1>19, <1>20, <1>21, <1>22, <1>23, <1>24 DEF Next, Work

---------------------------------------------------------------------------
(* What a step leaves alone: what a client has in hand, and, for a target, *)
(* its record and index members (or reindex adds the one of the list).     *)
Same(d) ==
  /\ pc'[d] = pc[d] /\ op'[d] = op[d] /\ target'[d] = target[d]
  /\ hash'[d] = hash[d] /\ existing'[d] = existing[d]
SameAt(t) ==
  /\ record'[t] = record[t]
  /\ \A h \in Hashes : <<h, t>> \in contentIndex' <=> <<h, t>> \in contentIndex
  /\ t \in listIndex => t \in listIndex'
  /\ t \in interrupted => t \in interrupted'

(* An expiry is never forgotten.                                           *)
LEMMA ExpiriesGrow == IInv /\ [Next]_vars /\ expiries' = 0 => expiries = 0
<1> SUFFICES ASSUME IInv, [Next]_vars, expiries' = 0, expiries # 0 PROVE FALSE
  OBVIOUS
<1>1. expiries \in Nat /\ expiries' # expiries /\ expiries' # expiries + 1
  BY DEF IInv, StoreTyped
<1>2. \A t \in Targets : ~LockExpires(t)
  BY <1>1 DEF LockExpires
<1>3. UNCHANGED vars => FALSE
  BY <1>1 DEF vars, faults
<1>4. ASSUME NEW c \in Clients PROVE ~Work(c)
  BY <1>1
     DEF Work, TakeLock, LockTimesOut, Unlock, Read, DropOldMember, WriteRecord,
     AddContentMember, AddListMember, DropContentMember, DropListMember, DeleteRecord,
     FindSharers, ResolveSharer, DeleteMedia, ScanRecord, Backfill, ScanEnds, faults
<1>5. ASSUME NEW c \in Clients
      PROVE  /\ ~Reindex(c) /\ ~CallFails(c) /\ ~Crash(c) /\ ~Restart(c)
             /\ \A o \in Operations, t \in Targets, h \in Hashes : ~Call(c, o, t, h)
  BY <1>1 DEF Reindex, CallFails, Crash, Restart, Call, faults
<1> QED
  BY <1>2, <1>3, <1>4, <1>5 DEF Next

(* A step elsewhere leaves the progress and the names of a target alone.   *)
LEMMA UntouchedKeeps ==
  ASSUME IInv, expiries = 0, NEW d \in Clients, Same(d), pc[d] \in Locked => SameAt(target[d])
  PROVE  Progress(d)'
<1>1. CASE pc[d] \notin Locked
  BY <1>1 DEF Same, Progress, Locked
<1>2. CASE pc[d] \in Locked
  <2>1. Progress(d) /\ SameAt(target[d]) /\ (op[d] \in Registers => hash[d] \in Hashes)
        /\ (pc[d] = "sadd list" => op[d] \in Registers)
    BY <1>2 DEF IInv, Agreement, Ordered, Registering
  <2> QED
    BY <2>1 DEF Same, SameAt, Progress, NotIndexed
<1> QED
  BY <1>1, <1>2

LEMMA NamesKeep ==
  ASSUME NEW t \in Targets, NamesAt(t), SameAt(t)
  PROVE  NamesAt(t)'
  BY DEF NamesAt, SameAt

(* A step of clients that hold no lock.                                    *)
LEMMA UnlockedStep ==
  ASSUME IInv, expiries = 0, \A t \in Targets : SameAt(t),
         \A d \in Clients : Same(d) \/ (pc[d] \notin Locked /\ pc'[d] \notin Locked \ {"read"})
  PROVE  Agreement'
<1>1. ASSUME NEW d \in Clients PROVE Progress(d)'
  <2>1. CASE Same(d)
    BY <2>1, UntouchedKeeps DEF IInv, Ordered
  <2>2. CASE pc'[d] \notin Locked \ {"read"}
    BY <2>2 DEF Progress, Locked
  <2> QED
    BY <2>1, <2>2
<1>2. ASSUME NEW t \in Targets
      PROVE  NamesAt(t)' /\ IndexedAt(t, \E c \in Clients : target[c] = t /\ Unindexed(c),
                                         \E c \in Clients : target[c] = t /\ Unlisted(c))'
  <2>1. NamesAt(t)'
    BY NamesKeep DEF IInv, Agreement
  <2>2. \A c \in Clients : Unindexed(c) \/ Unlisted(c) => pc[c] \in Locked
    BY DEF Unindexed, Unlisted, Locked
  <2>3. \A c \in Clients : target[c] = t /\ Unindexed(c) => (target[c] = t /\ Unindexed(c))'
    BY <2>2 DEF Same, Unindexed
  <2>4. \A c \in Clients : target[c] = t /\ Unlisted(c) => (target[c] = t /\ Unlisted(c))'
    BY <2>2 DEF Same, Unlisted
  <2>5. IndexedAt(t, \E c \in Clients : target[c] = t /\ Unindexed(c),
                     \E c \in Clients : target[c] = t /\ Unlisted(c))
    BY DEF IInv, Agreement
  <2>6. record[t] \in Hashes \union {NoHash} /\ SameAt(t)
    BY DEF IInv, StoreTyped
  <2> QED
    BY <2>1, <2>3, <2>4, <2>5, <2>6 DEF IndexedAt, SameAt
<1> QED
  BY <1>1, <1>2 DEF Agreement

(* What a client at work knows: it is alone at its target.                 *)
LEMMA AtWork ==
  ASSUME IInv, expiries = 0, NEW c \in Clients, NEW t \in Targets, target[c] = t, pc[c] \in Locked
  PROVE  /\ \A d \in Clients \ {c} : pc[d] \in Locked => target[d] # t
         /\ Progress(c) /\ NamesAt(t) /\ IndexedAt(t, Unindexed(c), Unlisted(c))
<1>1. \A d \in Clients \ {c} : pc[d] \in Locked => target[d] # t
  BY DEF IInv, Owned
<1>2. \A d \in Clients : Unindexed(d) \/ Unlisted(d) => pc[d] \in Locked
  BY DEF Unindexed, Unlisted, Locked
<1>3. IndexedAt(t, \E d \in Clients : target[d] = t /\ Unindexed(d),
                   \E d \in Clients : target[d] = t /\ Unlisted(d))
  BY DEF IInv, Agreement
<1> QED
  BY <1>1, <1>2, <1>3 DEF IInv, Agreement, IndexedAt

(* A step of a client at work, which others leave alone.                   *)
LEMMA LockedStep ==
  ASSUME IInv, expiries = 0, NEW c \in Clients, NEW t \in Targets, target[c] = t, pc[c] \in Locked,
         \A d \in Clients \ {c} : Same(d), \A u \in Targets \ {t} : SameAt(u),
         Progress(c)', NamesAt(t)',
         IndexedAt(t, target[c] = t /\ Unindexed(c), target[c] = t /\ Unlisted(c))'
  PROVE  Agreement'
<1>1. \A d \in Clients \ {c} : pc[d] \in Locked => target[d] # t
  BY AtWork
<1>2. ASSUME NEW d \in Clients \ {c} PROVE Progress(d)'
  <2>1. pc[d] \in Locked => SameAt(target[d])
    BY <1>1 DEF IInv, Ordered
  <2> QED
    BY <2>1, UntouchedKeeps
<1>3. ASSUME NEW u \in Targets \ {t}
      PROVE  NamesAt(u)' /\ IndexedAt(u, \E d \in Clients : target[d] = u /\ Unindexed(d),
                                         \E d \in Clients : target[d] = u /\ Unlisted(d))'
  <2>1. NamesAt(u)'
    BY NamesKeep DEF IInv, Agreement
  <2>2. \A d \in Clients : target[d] = u /\ Unindexed(d) => (target[d] = u /\ Unindexed(d))'
    BY DEF Same, Unindexed
  <2>3. \A d \in Clients : target[d] = u /\ Unlisted(d) => (target[d] = u /\ Unlisted(d))'
    BY DEF Same, Unlisted
  <2>4. IndexedAt(u, \E d \in Clients : target[d] = u /\ Unindexed(d),
                     \E d \in Clients : target[d] = u /\ Unlisted(d))
    BY DEF IInv, Agreement
  <2>5. record[u] \in Hashes \union {NoHash} /\ SameAt(u)
    BY DEF IInv, StoreTyped
  <2> QED
    BY <2>1, <2>2, <2>3, <2>4, <2>5 DEF IndexedAt, SameAt
<1>4. IndexedAt(t, \E d \in Clients : target[d] = t /\ Unindexed(d),
                   \E d \in Clients : target[d] = t /\ Unlisted(d))'
  BY DEF IndexedAt
<1> QED
  BY <1>2, <1>3, <1>4 DEF Agreement

(* The records and the indexes agree as far as the clients at work are.    *)
LEMMA AgreementKeeps == IInv /\ [Next]_vars => Agreement'
<1> SUFFICES ASSUME IInv, [Next]_vars, expiries' = 0 PROVE Agreement'
  BY DEF Agreement
<1>0. expiries = 0
  BY ExpiriesGrow
<1> USE <1>0, RegistryAssumption
<1>1. ASSUME NEW c \in Clients, NEW o \in Operations, NEW t \in Targets, NEW h \in Hashes,
             Call(c, o, t, h)
      PROVE  Agreement'
  BY <1>1, UnlockedStep
     DEF Call, At, Goto, locals, history, faults, IInv, ClientsTyped, Same, SameAt, Locked
<1>2. ASSUME NEW c \in Clients, Reindex(c) PROVE Agreement'
  BY <1>2, UnlockedStep
     DEF Reindex, At, Goto, store, history, faults, IInv, ClientsTyped, Same, SameAt, Locked
<1>3. ASSUME NEW c \in Clients, TakeLock(c) PROVE Agreement'
  BY <1>3, UnlockedStep
     DEF TakeLock, At, Goto, store, args, locals, history, faults, IInv, ClientsTyped, Same,
     SameAt, Locked
<1>4. ASSUME NEW c \in Clients, LockTimesOut(c) PROVE Agreement'
  BY <1>4, UnlockedStep
     DEF LockTimesOut, At, Goto, Idle, store, history, faults, IInv, ClientsTyped, Same,
     SameAt, Locked
<1>5. ASSUME NEW c \in Clients, Restart(c) PROVE Agreement'
  BY <1>5, UnlockedStep
     DEF Restart, At, Goto, store, args, locals, history, faults, IInv, ClientsTyped, Same,
     SameAt, Locked
<1>6. ASSUME NEW c \in Clients, Backfill(c) PROVE Agreement'
  BY <1>6, UnlockedStep DEF Backfill, At, Goto, locals, history, faults, IInv, ClientsTyped,
     Same, SameAt, Locked
<1>7. ASSUME NEW c \in Clients, ScanEnds(c) PROVE Agreement'
  BY <1>7, UnlockedStep
     DEF ScanEnds, At, Goto, Idle, store, history, faults, IInv, ClientsTyped, Same, SameAt,
     Locked
<1>8. ASSUME NEW c \in Clients, NEW t \in Targets, ScanRecord(c, t) PROVE Agreement'
  <2>1. /\ expiries' = expiries /\ pc[c] = "scan" /\ pc'[c] \in {"scan", "backfill"}
        /\ \A d \in Clients \ {c} : pc'[d] = pc[d] /\ target'[d] = target[d]
        /\ UNCHANGED <<record, contentIndex, listIndex, media, lock, op, hash, existing, crashed>>
        /\ UNCHANGED interrupted
    BY <1>8 DEF ScanRecord, At, Goto, store, history, faults, IInv, ClientsTyped
  <2>2. \A u \in Targets : SameAt(u)
    BY <2>1 DEF SameAt
  <2>3. \A d \in Clients \ {c} : Same(d)
    BY <2>1 DEF Same
  <2> QED
    BY <1>8, <2>1, <2>2, <2>3, UnlockedStep DEF Locked
<1>9. ASSUME NEW t \in Targets, LockExpires(t) PROVE Agreement'
  BY <1>9, UnlockedStep DEF LockExpires, store, args, locals, history, Same, SameAt
<1>10. ASSUME NEW c \in Clients, Unlock(c) PROVE Agreement'
  <2>1. PICK t \in Targets : target[c] = t
    BY <1>10 DEF Unlock, At, IInv, Ordered, Locked
  <2>2. /\ pc[c] \in Locked /\ (\A d \in Clients \ {c} : Same(d))
        /\ \A u \in Targets \ {t} : SameAt(u)
    BY <1>10, <2>1 DEF Unlock, At, Goto, Idle, store, history, faults, Same, SameAt, Locked
  <2>3. Progress(c) /\ NamesAt(t) /\ IndexedAt(t, Unindexed(c), Unlisted(c))
    BY <2>1, <2>2, AtWork
  <2>4. Progress(c)'
    BY <1>10, <2>1, <2>3 DEF Unlock, Goto, Idle, IInv, ClientsTyped, Progress
  <2>5. NamesAt(t)'
    BY <1>10, <2>1, <2>3 DEF Unlock, store, history, faults, NamesAt
  <2>6. IndexedAt(t, target[c] = t /\ Unindexed(c), target[c] = t /\ Unlisted(c))'
    BY <1>10, <2>1, <2>3 DEF Unlock, At, store, history, faults, IndexedAt, Unindexed, Unlisted
  <2> QED
    BY <2>1, <2>2, <2>4, <2>5, <2>6, LockedStep
<1>11. ASSUME NEW c \in Clients, Crash(c), pc[c] \in Locked PROVE Agreement'
  <2>1. PICK t \in Targets : target[c] = t
    BY <1>11 DEF Crash, IInv, Ordered
  <2>2. /\ pc[c] \in Locked /\ (\A d \in Clients \ {c} : Same(d))
        /\ \A u \in Targets \ {t} : SameAt(u)
    BY <1>11, <2>1 DEF Crash, CutShort, Goto, store, IInv, ClientsTyped, Same, SameAt
  <2>3. Progress(c) /\ NamesAt(t) /\ IndexedAt(t, Unindexed(c), Unlisted(c))
    BY <2>1, <2>2, AtWork
  <2>4. Progress(c)'
    BY <1>11, <2>1, <2>3 DEF Crash, Goto, IInv, ClientsTyped, Progress
  <2>5. NamesAt(t)'
    BY <1>11, <2>1, <2>3 DEF Crash, store, NamesAt
  <2>6. IndexedAt(t, target[c] = t /\ Unindexed(c), target[c] = t /\ Unlisted(c))'
    <3>1. pc[c] \notin Halfway => ~Unindexed(c) /\ ~Unlisted(c)
      BY DEF Halfway, Unindexed, Unlisted
    <3> QED
      BY <1>11, <2>1, <2>3, <3>1 DEF Crash, CutShort, store, IndexedAt
  <2> QED
    BY <2>1, <2>2, <2>4, <2>5, <2>6, LockedStep
<1>12. ASSUME NEW c \in Clients, Read(c) PROVE Agreement'
  <2>1. PICK t \in Targets : target[c] = t
    BY <1>12 DEF Read, At, IInv, Ordered, Locked
  <2>2. /\ pc[c] \in Locked /\ (\A d \in Clients \ {c} : Same(d))
        /\ \A u \in Targets \ {t} : SameAt(u)
    BY <1>12, <2>1
       DEF Read, At, Goto, store, args, history, faults, IInv, ClientsTyped, Same, SameAt,
       Locked
  <2>3. Progress(c) /\ NamesAt(t) /\ IndexedAt(t, Unindexed(c), Unlisted(c))
    BY <2>1, <2>2, AtWork
  <2>4. Progress(c)'
    BY <1>12, <2>1, <2>3
       DEF Read, Goto, Stale, store, args, IInv, ClientsTyped, Progress, NamesAt
  <2>5. NamesAt(t)'
    BY <1>12, <2>1, <2>3 DEF Read, store, history, faults, NamesAt
  <2>6. IndexedAt(t, target[c] = t /\ Unindexed(c), target[c] = t /\ Unlisted(c))'
    BY <1>12, <2>1, <2>3 DEF Read, At, store, history, faults, IndexedAt, Unindexed, Unlisted
  <2> QED
    BY <2>1, <2>2, <2>4, <2>5, <2>6, LockedStep
<1>13. ASSUME NEW c \in Clients, DropOldMember(c) PROVE Agreement'
  <2>1. PICK t \in Targets : target[c] = t
    BY <1>13 DEF DropOldMember, At, IInv, Ordered, Locked
  <2>2. /\ pc[c] \in Locked /\ (\A d \in Clients \ {c} : Same(d))
        /\ \A u \in Targets \ {t} : SameAt(u)
    BY <1>13, <2>1
       DEF DropOldMember, At, Goto, args, locals, history, faults, Same, SameAt, Locked
  <2>3. Progress(c) /\ NamesAt(t) /\ IndexedAt(t, Unindexed(c), Unlisted(c))
    BY <2>1, <2>2, AtWork
  <2>4. Progress(c)'
    BY <1>13, <2>1, <2>3
       DEF DropOldMember, At, Goto, args, IInv, ClientsTyped, Progress, NamesAt, Ordered,
       Registers, Registering
  <2>5. NamesAt(t)'
    BY <1>13, <2>1, <2>3 DEF DropOldMember, history, faults, NamesAt
  <2>6. IndexedAt(t, target[c] = t /\ Unindexed(c), target[c] = t /\ Unlisted(c))'
    BY <1>13, <2>1, <2>3
       DEF DropOldMember, At, Goto, args, history, faults, IInv, ClientsTyped, Ordered,
       Registering, IndexedAt, Unindexed, Unlisted
  <2> QED
    BY <2>1, <2>2, <2>4, <2>5, <2>6, LockedStep
<1>14. ASSUME NEW c \in Clients, WriteRecord(c) PROVE Agreement'
  <2>1. PICK t \in Targets : target[c] = t
    BY <1>14 DEF WriteRecord, At, IInv, Ordered, Locked
  <2>2. /\ pc[c] \in Locked /\ (\A d \in Clients \ {c} : Same(d))
        /\ \A u \in Targets \ {t} : SameAt(u)
    BY <1>14, <2>1
       DEF WriteRecord, At, Goto, args, locals, history, faults, IInv, StoreTyped,
       ClientsTyped, Same, SameAt, Locked
  <2>3. Progress(c) /\ NamesAt(t) /\ IndexedAt(t, Unindexed(c), Unlisted(c))
    BY <2>1, <2>2, AtWork
  <2>4. Progress(c)'
    BY <1>14, <2>1, <2>3 DEF WriteRecord, Goto, args, IInv, StoreTyped, ClientsTyped, Progress
  <2>5. NamesAt(t)'
    BY <1>14, <2>1, <2>3
       DEF WriteRecord, At, IInv, StoreTyped, Locked, Progress, NamesAt, Ordered, Registers
  <2>6. IndexedAt(t, target[c] = t /\ Unindexed(c), target[c] = t /\ Unlisted(c))'
    BY <1>14, <2>1, <2>3
       DEF WriteRecord, At, Goto, args, history, faults, IInv, StoreTyped, ClientsTyped,
       Progress, Registers, IndexedAt, Unindexed, Unlisted
  <2> QED
    BY <2>1, <2>2, <2>4, <2>5, <2>6, LockedStep
<1>15. ASSUME NEW c \in Clients, AddContentMember(c) PROVE Agreement'
  <2>1. PICK t \in Targets : target[c] = t
    BY <1>15 DEF AddContentMember, At, IInv, Ordered, Locked
  <2>2. /\ pc[c] \in Locked /\ (\A d \in Clients \ {c} : Same(d))
        /\ \A u \in Targets \ {t} : SameAt(u)
    BY <1>15, <2>1
       DEF AddContentMember, At, Goto, args, locals, history, faults, IInv, ClientsTyped, Same,
       SameAt, Locked
  <2>3. Progress(c) /\ NamesAt(t) /\ IndexedAt(t, Unindexed(c), Unlisted(c))
    BY <2>1, <2>2, AtWork
  <2>4. Progress(c)'
    BY <1>15, <2>1, <2>3 DEF AddContentMember, At, Goto, args, IInv, ClientsTyped, Progress
  <2>5. NamesAt(t)'
    BY <1>15, <2>1, <2>3 DEF AddContentMember, At, history, faults, Progress, NamesAt
  <2>6. IndexedAt(t, target[c] = t /\ Unindexed(c), target[c] = t /\ Unlisted(c))'
    BY <1>15, <2>1, <2>3
       DEF AddContentMember, At, Goto, args, IInv, ClientsTyped, Progress, IndexedAt, Unlisted
  <2> QED
    BY <2>1, <2>2, <2>4, <2>5, <2>6, LockedStep
<1>16. ASSUME NEW c \in Clients, AddListMember(c) PROVE Agreement'
  <2>1. PICK t \in Targets : target[c] = t
    BY <1>16 DEF AddListMember, At, IInv, Ordered, Locked
  <2>2. /\ pc[c] \in Locked /\ (\A d \in Clients \ {c} : Same(d))
        /\ \A u \in Targets \ {t} : SameAt(u)
    BY <1>16, <2>1
       DEF AddListMember, At, Goto, args, locals, IInv, ClientsTyped, Same, SameAt, Locked
  <2>3. Progress(c) /\ NamesAt(t) /\ IndexedAt(t, Unindexed(c), Unlisted(c))
    BY <2>1, <2>2, AtWork
  <2>4. Progress(c)'
    BY <1>16, <2>1, <2>3 DEF AddListMember, Goto, IInv, ClientsTyped, Progress
  <2>5. NamesAt(t)'
    <3>1. record[t] = hash[c] /\ hash[c] \in Hashes
      BY <1>16, <2>1, <2>3 DEF AddListMember, At, Progress, IInv, Ordered, Registering, Locked
    <3> QED
      BY <1>16, <2>1, <2>3, <3>1, RegistryAssumption DEF AddListMember, NamesAt
  <2>6. IndexedAt(t, target[c] = t /\ Unindexed(c), target[c] = t /\ Unlisted(c))'
    BY <1>16, <2>1, <2>3 DEF AddListMember, At, Progress, IndexedAt
  <2> QED
    BY <2>1, <2>2, <2>4, <2>5, <2>6, LockedStep
<1>17. ASSUME NEW c \in Clients, DropContentMember(c) PROVE Agreement'
  <2>1. PICK t \in Targets : target[c] = t
    BY <1>17 DEF DropContentMember, At, IInv, Ordered, Locked
  <2>2. /\ pc[c] \in Locked /\ (\A d \in Clients \ {c} : Same(d))
        /\ \A u \in Targets \ {t} : SameAt(u)
    BY <1>17, <2>1
       DEF DropContentMember, At, Goto, args, locals, history, faults, IInv, ClientsTyped,
       Same, SameAt, Locked
  <2>3. Progress(c) /\ NamesAt(t) /\ IndexedAt(t, Unindexed(c), Unlisted(c))
    BY <2>1, <2>2, AtWork
  <2>4. Progress(c)'
    BY <1>17, <2>1, <2>3
       DEF DropContentMember, At, Goto, args, IInv, ClientsTyped, Progress, NamesAt, NotIndexed
  <2>5. NamesAt(t)'
    BY <1>17, <2>1, <2>3 DEF DropContentMember, history, faults, NamesAt
  <2>6. IndexedAt(t, target[c] = t /\ Unindexed(c), target[c] = t /\ Unlisted(c))'
    BY <1>17, <2>1, <2>3
       DEF DropContentMember, At, Goto, args, history, faults, IInv, ClientsTyped, IndexedAt,
       Unindexed, Unlisted
  <2> QED
    BY <2>1, <2>2, <2>4, <2>5, <2>6, LockedStep
<1>18. ASSUME NEW c \in Clients, DropListMember(c) PROVE Agreement'
  <2>1. PICK t \in Targets : target[c] = t
    BY <1>18 DEF DropListMember, At, IInv, Ordered, Locked
  <2>2. /\ pc[c] \in Locked /\ (\A d \in Clients \ {c} : Same(d))
        /\ \A u \in Targets \ {t} : SameAt(u)
    BY <1>18, <2>1
       DEF DropListMember, At, Goto, args, locals, IInv, ClientsTyped, Same, SameAt,
       Locked
  <2>3. Progress(c) /\ NamesAt(t) /\ IndexedAt(t, Unindexed(c), Unlisted(c))
    BY <2>1, <2>2, AtWork
  <2>4. Progress(c)'
    BY <1>18, <2>1, <2>3
       DEF DropListMember, At, Goto, args, IInv, ClientsTyped, Progress, NotIndexed
  <2>5. NamesAt(t)'
    BY <1>18, <2>1, <2>3 DEF DropListMember, NamesAt
  <2>6. IndexedAt(t, target[c] = t /\ Unindexed(c), target[c] = t /\ Unlisted(c))'
    BY <1>18, <2>1, <2>3
       DEF DropListMember, Goto, args, IInv, ClientsTyped, IndexedAt, Unindexed, Unlisted
  <2> QED
    BY <2>1, <2>2, <2>4, <2>5, <2>6, LockedStep
<1>19. ASSUME NEW c \in Clients, DeleteRecord(c) PROVE Agreement'
  <2>1. PICK t \in Targets : target[c] = t
    BY <1>19 DEF DeleteRecord, At, IInv, Ordered, Locked
  <2>2. /\ pc[c] \in Locked /\ (\A d \in Clients \ {c} : Same(d))
        /\ \A u \in Targets \ {t} : SameAt(u)
    BY <1>19, <2>1 DEF DeleteRecord, At, Goto, args, locals, Same, SameAt, Locked
  <2>3. Progress(c) /\ NamesAt(t) /\ IndexedAt(t, Unindexed(c), Unlisted(c))
    BY <2>1, <2>2, AtWork
  <2>4. Progress(c)'
    BY <1>19, <2>1, <2>3 DEF DeleteRecord, Goto, IInv, ClientsTyped, Progress
  <2>5. NamesAt(t)'
    BY <1>19, <2>1, <2>3 DEF DeleteRecord, At, Progress, NamesAt, NotIndexed
  <2>6. IndexedAt(t, target[c] = t /\ Unindexed(c), target[c] = t /\ Unlisted(c))'
    BY <1>19, <2>1, <2>3 DEF DeleteRecord, IInv, StoreTyped, IndexedAt
  <2> QED
    BY <2>1, <2>2, <2>4, <2>5, <2>6, LockedStep
<1>20. ASSUME NEW c \in Clients, FindSharers(c) PROVE Agreement'
  <2>1. PICK t \in Targets : target[c] = t
    BY <1>20 DEF FindSharers, At, IInv, Ordered, Locked
  <2>2. /\ pc[c] \in Locked /\ (\A d \in Clients \ {c} : Same(d))
        /\ \A u \in Targets \ {t} : SameAt(u)
    BY <1>20, <2>1 DEF FindSharers, At, Goto, store, args, history, faults, Same, SameAt, Locked
  <2>3. Progress(c) /\ NamesAt(t) /\ IndexedAt(t, Unindexed(c), Unlisted(c))
    BY <2>1, <2>2, AtWork
  <2>4. Progress(c)'
    BY <1>20, <2>1, <2>3 DEF FindSharers, Goto, IInv, ClientsTyped, Progress
  <2>5. NamesAt(t)'
    BY <1>20, <2>1, <2>3 DEF FindSharers, store, history, faults, NamesAt
  <2>6. IndexedAt(t, target[c] = t /\ Unindexed(c), target[c] = t /\ Unlisted(c))'
    BY <1>20, <2>1, <2>3
       DEF FindSharers, At, store, history, faults, IndexedAt, Unindexed, Unlisted
  <2> QED
    BY <2>1, <2>2, <2>4, <2>5, <2>6, LockedStep
<1>21. ASSUME NEW c \in Clients, ResolveSharer(c) PROVE Agreement'
  <2>1. PICK t \in Targets : target[c] = t
    BY <1>21 DEF ResolveSharer, At, IInv, Ordered, Locked
  <2>2. /\ pc[c] \in Locked /\ (\A d \in Clients \ {c} : Same(d))
        /\ \A u \in Targets \ {t} : SameAt(u)
    BY <1>21, <2>1
       DEF ResolveSharer, At, Goto, store, args, history, faults, IInv, ClientsTyped, Same,
       SameAt, Locked
  <2>3. Progress(c) /\ NamesAt(t) /\ IndexedAt(t, Unindexed(c), Unlisted(c))
    BY <2>1, <2>2, AtWork
  <2>4. Progress(c)'
    BY <1>21, <2>1, <2>3
       DEF ResolveSharer, Goto, store, args, history, faults, IInv, ClientsTyped, Progress,
       NotIndexed
  <2>5. NamesAt(t)'
    BY <1>21, <2>1, <2>3 DEF ResolveSharer, store, history, faults, NamesAt
  <2>6. IndexedAt(t, target[c] = t /\ Unindexed(c), target[c] = t /\ Unlisted(c))'
    BY <1>21, <2>1, <2>3
       DEF ResolveSharer, At, store, history, faults, IndexedAt, Unindexed, Unlisted
  <2> QED
    BY <2>1, <2>2, <2>4, <2>5, <2>6, LockedStep
<1>22. ASSUME NEW c \in Clients, DeleteMedia(c) PROVE Agreement'
  <2>1. PICK t \in Targets : target[c] = t
    BY <1>22 DEF DeleteMedia, At, IInv, Ordered, Locked
  <2>2. /\ pc[c] \in Locked /\ (\A d \in Clients \ {c} : Same(d))
        /\ \A u \in Targets \ {t} : SameAt(u)
    BY <1>22, <2>1
       DEF DeleteMedia, At, Goto, args, locals, history, faults, Same, SameAt, Locked
  <2>3. Progress(c) /\ NamesAt(t) /\ IndexedAt(t, Unindexed(c), Unlisted(c))
    BY <2>1, <2>2, AtWork
  <2>4. Progress(c)'
    BY <1>22, <2>1, <2>3 DEF DeleteMedia, Goto, IInv, ClientsTyped, Progress
  <2>5. NamesAt(t)'
    BY <1>22, <2>1, <2>3 DEF DeleteMedia, history, faults, NamesAt
  <2>6. IndexedAt(t, target[c] = t /\ Unindexed(c), target[c] = t /\ Unlisted(c))'
    BY <1>22, <2>1, <2>3 DEF DeleteMedia, At, history, faults, IndexedAt, Unindexed, Unlisted
  <2> QED
    BY <2>1, <2>2, <2>4, <2>5, <2>6, LockedStep
<1>23. ASSUME NEW c \in Clients, Crash(c), pc[c] \notin Locked PROVE Agreement'
  BY <1>23, UnlockedStep DEF Crash, CutShort, Halfway, Goto, store, IInv, ClientsTyped, Same,
     SameAt, Locked
<1>24. CASE UNCHANGED vars
  BY <1>24, UnlockedStep DEF vars, store, args, locals, history, faults, Same, SameAt
<1>25. ASSUME NEW c \in Clients, CallFails(c) PROVE Agreement'
  <2>1. PICK t \in Targets : target[c] = t
    BY <1>25 DEF CallFails, IInv, Ordered
  <2>2. /\ pc[c] \in Locked /\ (\A d \in Clients \ {c} : Same(d))
        /\ \A u \in Targets \ {t} : SameAt(u)
    BY <1>25, <2>1
       DEF CallFails, CutShort, Goto, store, args, locals, IInv, ClientsTyped, Same, SameAt
  <2>3. Progress(c) /\ NamesAt(t) /\ IndexedAt(t, Unindexed(c), Unlisted(c))
    BY <2>1, <2>2, AtWork
  <2>4. Progress(c)'
    BY <1>25 DEF CallFails, Goto, IInv, ClientsTyped, Progress
  <2>5. NamesAt(t)'
    BY <1>25, <2>3 DEF CallFails, store, NamesAt
  <2>6. IndexedAt(t, target[c] = t /\ Unindexed(c), target[c] = t /\ Unlisted(c))'
    <3>1. pc[c] \notin Halfway => ~Unindexed(c) /\ ~Unlisted(c)
      BY DEF Halfway, Unindexed, Unlisted
    <3> QED
      BY <1>25, <2>1, <2>3, <3>1 DEF CallFails, CutShort, store, IndexedAt
  <2> QED
    BY <2>1, <2>2, <2>4, <2>5, <2>6, LockedStep
<1> QED
  BY <1>1, <1>2, <1>3, <1>4, <1>5, <1>6, <1>7, <1>8, <1>9, <1>10, <1>11, <1>12, <1>13, <1>14,
     <1>15, <1>16, <1>17, <1>18, <1>19, <1>20, <1>21, <1>22, <1>23, <1>24, <1>25 DEF Next, Work

---------------------------------------------------------------------------
(* A step that adds no member, no record less, and no reindex or delete at *)
(* the point where they may overlap, leaves a target's listing sound.      *)
LEMMA ListedStays ==
  ASSUME NEW t \in Targets, ListedAt(t), record'[t] = record[t] \/ record'[t] # NoHash,
         t \in listIndex' => t \in listIndex \/ Sighted(t),
         t \in overlapped => t \in overlapped',
         Sighted(t)' => Sighted(t), Undoing(t)' => Undoing(t)
  PROVE  ListedAt(t)'
  BY DEF ListedAt

(* Who is not at those points has not come to them.                        *)
LEMMA NoneComes ==
  ASSUME NEW c \in Clients, NEW t \in Targets, pc'[c] \notin {"backfill", "del"},
         \A d \in Clients \ {c} : pc'[d] = pc[d] /\ target'[d] = target[d]
  PROVE  (Sighted(t)' => Sighted(t)) /\ (Undoing(t)' => Undoing(t))
  BY DEF Sighted, Undoing, At

(* The list index names what is there, but for what a reindex overlapped.  *)
LEMMA ListingsKeep == IInv /\ [Next]_vars => Listings'
<1> SUFFICES ASSUME IInv, [Next]_vars, expiries' = 0, NEW u \in Targets PROVE ListedAt(u)'
  BY DEF Listings
<1>0. expiries = 0
  BY ExpiriesGrow
<1>a. ListedAt(u)
  BY <1>0 DEF IInv, Listings
<1> USE <1>0, <1>a, RegistryAssumption
<1>1. ASSUME NEW c \in Clients, NEW o \in Operations, NEW t \in Targets, NEW h \in Hashes,
             Call(c, o, t, h)
      PROVE  ListedAt(u)'
  BY <1>1, ListedStays, NoneComes DEF Call, At, Goto, history, faults, IInv, ClientsTyped
<1>2. ASSUME NEW c \in Clients, Reindex(c) PROVE ListedAt(u)'
  BY <1>2, ListedStays, NoneComes DEF Reindex, Goto, store, history, faults, IInv, ClientsTyped
<1>3. ASSUME NEW c \in Clients, TakeLock(c) PROVE ListedAt(u)'
  BY <1>3, ListedStays, NoneComes DEF TakeLock, Goto, store, args, history, faults, IInv,
     ClientsTyped
<1>4. ASSUME NEW c \in Clients, LockTimesOut(c) PROVE ListedAt(u)'
  BY <1>4, ListedStays, NoneComes DEF LockTimesOut, Goto, Idle, store, history, faults, IInv,
     ClientsTyped
<1>5. ASSUME NEW c \in Clients, Unlock(c) PROVE ListedAt(u)'
  BY <1>5, ListedStays, NoneComes DEF Unlock, Goto, Idle, store, history, faults, IInv,
     ClientsTyped
<1>6. ASSUME NEW c \in Clients, DropOldMember(c) PROVE ListedAt(u)'
  BY <1>6, ListedStays, NoneComes DEF DropOldMember, Goto, args, history, faults, IInv,
     ClientsTyped
<1>7. ASSUME NEW c \in Clients, AddContentMember(c) PROVE ListedAt(u)'
  BY <1>7, ListedStays, NoneComes DEF AddContentMember, Goto, args, history, faults, IInv,
     ClientsTyped
<1>8. ASSUME NEW c \in Clients, DropContentMember(c) PROVE ListedAt(u)'
  BY <1>8, ListedStays, NoneComes DEF DropContentMember, Goto, args, history, faults, IInv,
     ClientsTyped
<1>9. ASSUME NEW c \in Clients, FindSharers(c) PROVE ListedAt(u)'
  BY <1>9, ListedStays, NoneComes DEF FindSharers, Goto, store, args, history, faults, IInv,
     ClientsTyped
<1>10. ASSUME NEW c \in Clients, DeleteMedia(c) PROVE ListedAt(u)'
  BY <1>10, ListedStays, NoneComes DEF DeleteMedia, Goto, args, history, faults, IInv,
     ClientsTyped
<1>11. ASSUME NEW c \in Clients, ScanEnds(c) PROVE ListedAt(u)'
  BY <1>11, ListedStays, NoneComes DEF ScanEnds, Goto, Idle, store, history, faults, IInv,
     ClientsTyped
<1>12. ASSUME NEW c \in Clients, Restart(c) PROVE ListedAt(u)'
  BY <1>12, ListedStays, NoneComes DEF Restart, Goto, store, args, history, faults, IInv,
     ClientsTyped
<1>13. ASSUME NEW c \in Clients, CallFails(c) PROVE ListedAt(u)'
  BY <1>13, ListedStays, NoneComes DEF CallFails, Goto, store, args, IInv, ClientsTyped
<1>14. ASSUME NEW c \in Clients, Crash(c) PROVE ListedAt(u)'
  BY <1>14, ListedStays, NoneComes DEF Crash, Goto, store, IInv, ClientsTyped
<1>15. ASSUME NEW c \in Clients, Read(c) PROVE ListedAt(u)'
  <2>1. pc'[c] \notin {"backfill", "del"}
    BY <1>15 DEF Read, Goto, IInv, ClientsTyped
  <2> QED
    BY <1>15, <2>1, ListedStays, NoneComes
       DEF Read, Goto, store, args, history, faults, IInv, ClientsTyped
<1>16. ASSUME NEW c \in Clients, ResolveSharer(c) PROVE ListedAt(u)'
  <2>1. /\ pc'[c] \notin {"backfill", "del"}
        /\ \A d \in Clients \ {c} : pc'[d] = pc[d] /\ target'[d] = target[d]
    BY <1>16 DEF ResolveSharer, At, Goto, args, IInv, ClientsTyped
  <2> QED
    BY <1>16, <2>1, ListedStays, NoneComes DEF ResolveSharer, store, history, faults
<1>17. ASSUME NEW c \in Clients, WriteRecord(c) PROVE ListedAt(u)'
  <2>1. (IF op[c] = "update" THEN existing[c] ELSE hash[c]) \in Hashes
    BY <1>17 DEF WriteRecord, At, IInv, Ordered, Locked, Registers
  <2>2. record'[u] = record[u] \/ record'[u] # NoHash
    BY <1>17, <2>1 DEF WriteRecord, IInv, StoreTyped
  <2>3. (Sighted(u)' => Sighted(u)) /\ (Undoing(u)' => Undoing(u))
    BY <1>17, NoneComes DEF WriteRecord, Goto, args, IInv, ClientsTyped
  <2> QED
    BY <1>17, <2>2, <2>3, ListedStays DEF WriteRecord, history, faults
<1>18. ASSUME NEW c \in Clients, AddListMember(c) PROVE ListedAt(u)'
  <2>1. /\ pc[c] = "sadd list" /\ pc[c] \in Locked /\ UNCHANGED <<record, target>>
        /\ pc' = [pc EXCEPT ![c] = "release"] /\ listIndex' = listIndex \union {target[c]}
        /\ overlapped' = overlapped \ {target[c]}
    BY <1>18 DEF AddListMember, At, Goto, args, Locked
  <2>2. (Sighted(u)' => Sighted(u)) /\ (Undoing(u)' => Undoing(u))
    BY <2>1, NoneComes DEF IInv, ClientsTyped
  <2>3. CASE u # target[c]
    BY <2>1, <2>2, <2>3, ListedStays
  <2>4. CASE u = target[c]
    <3>1. record[u] = hash[c] /\ hash[c] \in Hashes
      BY <2>1, <2>4 DEF IInv, Agreement, Progress, Ordered, Registering
    <3>2. ~Undoing(u)
      <4>1. \A d \in Clients \ {c} : pc[d] \in Locked => target[d] # u
        BY <2>1, <2>4, AtWork
      <4> QED
        BY <2>1, <4>1 DEF Undoing, At, Locked
    <3> QED
      BY <2>1, <2>2, <3>1, <3>2 DEF ListedAt
  <2> QED
    BY <2>3, <2>4
<1>19. ASSUME NEW c \in Clients, DropListMember(c) PROVE ListedAt(u)'
  <2>1. /\ UNCHANGED <<record, target>> /\ listIndex' = listIndex \ {target[c]}
        /\ pc' = [pc EXCEPT ![c] = "del"]
        /\ overlapped' = IF Sighted(target[c]) THEN overlapped \union {target[c]}
                                               ELSE overlapped \ {target[c]}
    BY <1>19 DEF DropListMember, Goto, args
  <2>2. \A d \in Clients : pc'[d] = "backfill" => pc[d] = "backfill"
    BY <2>1 DEF IInv, ClientsTyped
  <2>3. \A d \in Clients : pc'[d] = "del" => pc[d] = "del" \/ d = c
    BY <2>1 DEF IInv, ClientsTyped
  <2>4. Sighted(u)' => Sighted(u)
    BY <2>1, <2>2 DEF Sighted, At
  <2>5. CASE u # target[c]
    <3>1. Undoing(u)' => Undoing(u)
      BY <2>1, <2>3, <2>5 DEF Undoing, At
    <3> QED
      BY <2>1, <2>4, <2>5, <3>1, ListedStays
  <2>6. CASE u = target[c]
    BY <2>1, <2>4, <2>6 DEF ListedAt
  <2> QED
    BY <2>5, <2>6
<1>20. ASSUME NEW c \in Clients, DeleteRecord(c) PROVE ListedAt(u)'
  <2>1. /\ pc[c] = "del" /\ UNCHANGED <<target, listIndex, overlapped>>
        /\ pc' = [pc EXCEPT ![c] = "find"] /\ record' = [record EXCEPT ![target[c]] = NoHash]
    BY <1>20 DEF DeleteRecord, At, Goto, args
  <2>2. (Sighted(u)' => Sighted(u)) /\ (Undoing(u)' => Undoing(u))
    BY <2>1, NoneComes DEF IInv, ClientsTyped
  <2>3. CASE u # target[c]
    <3>1. record'[u] = record[u]
      BY <2>1, <2>3 DEF IInv, StoreTyped
    <3> QED
      BY <2>1, <2>2, <3>1, ListedStays
  <2>4. CASE u = target[c]
    <3>1. Undoing(u)
      BY <2>1, <2>4 DEF Undoing, At
    <3> QED
      BY <2>1, <2>2, <3>1 DEF ListedAt
  <2> QED
    BY <2>3, <2>4
<1>21. ASSUME NEW c \in Clients, NEW t \in Targets, ScanRecord(c, t) PROVE ListedAt(u)'
  <2>1. /\ pc[c] = "scan" /\ UNCHANGED <<record, listIndex>>
        /\ IF Seen(t) THEN /\ pc' = [pc EXCEPT ![c] = "backfill"]
                           /\ target' = [target EXCEPT ![c] = t]
                      ELSE UNCHANGED <<pc, target>>
        /\ overlapped' = IF Seen(t) /\ Undoing(t) THEN overlapped \union {t} ELSE overlapped
    BY <1>21 DEF ScanRecord, At, Goto, store
  <2>2. /\ \A d \in Clients \ {c} : pc'[d] = pc[d] /\ target'[d] = target[d]
        /\ pc'[c] \in {"scan", "backfill"}
    BY <2>1 DEF IInv, ClientsTyped
  <2>3. Undoing(u)' => Undoing(u)
    BY <2>2 DEF Undoing, At
  <2>4. CASE Seen(t) /\ u = t
    BY <2>1, <2>3, <2>4 DEF Seen, ListedAt
  <2>5. CASE ~(Seen(t) /\ u = t)
    <3>1. pc'[c] = "backfill" => target'[c] # u
      BY <2>1, <2>5 DEF IInv, ClientsTyped
    <3>2. Sighted(u)' => Sighted(u)
      BY <2>2, <3>1 DEF Sighted, At
    <3> QED
      BY <2>1, <2>3, <3>2, ListedStays
  <2> QED
    BY <2>4, <2>5
<1>22. ASSUME NEW c \in Clients, Backfill(c) PROVE ListedAt(u)'
  <2>1. /\ pc[c] = "backfill" /\ UNCHANGED <<record, overlapped>>
        /\ listIndex' = listIndex \union {target[c]}
        /\ pc' = [pc EXCEPT ![c] = "scan"] /\ target' = [target EXCEPT ![c] = NoTarget]
    BY <1>22 DEF Backfill, At, Goto, history, faults
  <2>2. (Sighted(u)' => Sighted(u)) /\ (Undoing(u)' => Undoing(u))
    BY <2>1, NoneComes DEF IInv, ClientsTyped
  <2>3. u \in listIndex' => u \in listIndex \/ Sighted(u)
    BY <2>1 DEF Sighted, At
  <2> QED
    BY <2>1, <2>2, <2>3, ListedStays
<1>23. ASSUME NEW t \in Targets, LockExpires(t) PROVE ListedAt(u)'
  BY <1>23, ListedStays DEF LockExpires, store, args, history, Sighted, Undoing, At
<1>24. CASE UNCHANGED vars
  BY <1>24, ListedStays DEF vars, store, args, history, faults, Sighted, Undoing, At
<1> QED
  BY <1>1, <1>2, <1>3, <1>4, <1>5, <1>6, <1>7, <1>8, <1>9, <1>10, <1>11, <1>12, <1>13, <1>14,
     <1>15, <1>16, <1>17, <1>18, <1>19, <1>20, <1>21, <1>22, <1>23, <1>24 DEF Next, Work

---------------------------------------------------------------------------
(* All of it holds at the start.                                           *)
LEMMA InitHolds == Init => IInv
<1> SUFFICES ASSUME Init PROVE IInv
  OBVIOUS
<1>1. StoreTyped
  <2>1. MaxExpiries \in Nat /\ MaxCrashes \in Nat
    BY RegistryAssumption
  <2>2. expiries \in 0 .. MaxExpiries /\ crashes \in 0 .. MaxCrashes
    BY <2>1 DEF Init
  <2> QED
    BY <2>2 DEF Init, StoreTyped
<1>2. ClientsTyped
  BY DEF Init, ClientsTyped, Labels
<1>3. \A c \in Clients : Ordered(c)
  BY DEF Init, Ordered, Locked, Registering, Deleting
<1>4. Owned
  BY DEF Init, Owned, Locked
<1>5. Agreement
  BY DEF Init, Agreement, Progress, NamesAt, IndexedAt
<1>6. Listings
  BY DEF Init, Listings, ListedAt, Sighted, At
<1> QED
  BY <1>1, <1>2, <1>3, <1>4, <1>5, <1>6 DEF IInv

---------------------------------------------------------------------------
(* The invariant holds of every behaviour.                                 *)
THEOREM InvariantHolds == Spec => []IInv
<1>1. IInv /\ [Next]_vars => IInv'
  BY StoreTypedKeeps, ClientsTypedKeeps, OrderedKeeps, OwnedKeeps, AgreementKeeps,
     ListingsKeep DEF IInv
<1> QED
  BY InitHolds, <1>1, PTL DEF Spec

(* Every variable keeps its type, and a delete is past its lookup only     *)
(* with a record in hand (target/registry.py, target/lock.py).             *)
THEOREM TypeCorrect == Spec => []TypeOK
<1>1. IInv => TypeOK
  <2> SUFFICES ASSUME IInv PROVE TypeOK
    OBVIOUS
  <2>1. ASSUME NEW c \in Clients
        PROVE  /\ pc[c] \in Locked \union {"lock", "backfill"} => target[c] # NoTarget
               /\ pc[c] \in Locked \ {"read", "release"} /\ op[c] \notin Registers
                    => existing[c] # NoHash
    BY RegistryAssumption DEF IInv, Ordered, Registering, Deleting, Locked
  <2> QED
    BY <2>1 DEF IInv, StoreTyped, ClientsTyped, TypeOK
<1> QED
  BY <1>1, InvariantHolds, PTL

(* While locks last, both indexes say what the records say of every target *)
(* nobody is at work on: after any number of operations by any number of   *)
(* clients, and again after a crash once the target was registered or      *)
(* deleted to the end (register_target, delete_target).                    *)
THEOREM IndexesAgree == Spec => []IndexesExact
<1>1. IInv => IndexesExact
  <2> SUFFICES ASSUME IInv, expiries = 0 PROVE IndexesExact
    BY DEF IndexesExact
  <2>1. ASSUME NEW m \in contentIndex PROVE record[m[2]] = m[1]
    <3>1. m[1] \in Hashes /\ m[2] \in Targets /\ m = <<m[1], m[2]>>
      BY DEF IInv, StoreTyped
    <3> QED
      BY <3>1 DEF IInv, Agreement, NamesAt
  <2>2. ASSUME NEW t \in Targets, ~Working(t), t \notin interrupted \union overlapped
        PROVE  /\ \A h \in Hashes : <<h, t>> \in contentIndex <=> record[t] = h
               /\ t \in listIndex <=> record[t] # NoHash
    <3>1. \A c \in Clients : ~(target[c] = t /\ (Unindexed(c) \/ Unlisted(c)))
      BY <2>2 DEF Working, Unindexed, Unlisted, Locked
    <3>2. IndexedAt(t, FALSE, FALSE) /\ NamesAt(t) /\ ListedAt(t)
      BY <3>1 DEF IInv, Agreement, Listings
    <3> QED
      BY <2>2, <3>2, RegistryAssumption DEF IndexedAt, NamesAt, ListedAt
  <2> QED
    BY <2>1, <2>2 DEF IndexesExact
<1> QED
  BY <1>1, InvariantHolds, PTL

(* While locks last, every member of the list index has a record, whatever *)
(* crashes or fails: only a reindex that overlapped a delete of the target *)
(* brings its member back, against the docstring of list_targets.          *)
THEOREM ListsNeverDangle == Spec => []ListNeverDangles
<1>1. IInv => ListNeverDangles
  BY DEF IInv, StoreTyped, Listings, ListedAt, ListNeverDangles
<1> QED
  BY <1>1, InvariantHolds, PTL

(* Nothing but its TTL and its owner takes a lock away, even when locks    *)
(* have expired under their holders before (_RELEASE_IF_OWNER, lock.py).   *)
THEOREM LocksAreTheirOwners == Spec => LockIsItsOwners
<1> DEFINE Kept ==
      \A t \in Targets : lock[t] # NoClient /\ lock'[t] # lock[t] =>
        \/ pc[lock[t]] = "release" /\ pc'[lock[t]] = "idle"
        \/ expiries' > expiries \/ lock[t] \in crashed
<1>1. IInv /\ [Next]_vars => [Kept]_vars
  <2> SUFFICES ASSUME IInv, Next, NEW t \in Targets, lock[t] # NoClient, lock'[t] # lock[t]
               PROVE  \/ pc[lock[t]] = "release" /\ pc'[lock[t]] = "idle"
                      \/ expiries' > expiries \/ lock[t] \in crashed
    OBVIOUS
  <2>1. /\ lock \in [Targets -> Clients \union {NoClient}]
        /\ pc \in [Clients -> Labels] /\ expiries \in Nat
    BY DEF IInv, StoreTyped, ClientsTyped
  <2>2. \/ \E u \in Targets : LockExpires(u)
        \/ \E c \in Clients : TakeLock(c) \/ Unlock(c)
    <3>1. ASSUME NEW c \in Clients, Work(c), ~TakeLock(c), ~Unlock(c) PROVE FALSE
      BY <3>1 DEF Work, LockTimesOut, Read, DropOldMember, WriteRecord, AddContentMember,
         AddListMember, DropContentMember, DropListMember, DeleteRecord, FindSharers,
         ResolveSharer, DeleteMedia, ScanRecord, Backfill, ScanEnds
    <3>2. ASSUME NEW c \in Clients
          PROVE  /\ ~Reindex(c) /\ ~CallFails(c) /\ ~Crash(c) /\ ~Restart(c)
                 /\ \A o \in Operations, v \in Targets, h \in Hashes : ~Call(c, o, v, h)
      BY DEF Call, Reindex, CallFails, Crash, Restart
    <3> QED
      BY <3>1, <3>2 DEF Next
  <2>3. CASE \E u \in Targets : LockExpires(u)
    BY <2>1, <2>3 DEF LockExpires
  <2>4. ASSUME NEW c \in Clients, TakeLock(c) PROVE FALSE
    BY <2>1, <2>4 DEF TakeLock, Acquire
  <2>5. ASSUME NEW c \in Clients, Unlock(c)
        PROVE  pc[lock[t]] = "release" /\ pc'[lock[t]] = "idle"
    BY <2>1, <2>5 DEF Unlock, At, Release, Idle, Goto
  <2> QED
    BY <2>2, <2>3, <2>4, <2>5
<1> QED
  BY <1>1, InvariantHolds, PTL DEF Spec, LockIsItsOwners
=============================================================================
