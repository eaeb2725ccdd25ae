-------------------------- MODULE TargetBuildProofs --------------------------
(***************************************************************************)
(* What TLAPS proves of TargetBuild, for any number of workers, contents,  *)
(* changes, expiries and failures.                                         *)
(***************************************************************************)
EXTENDS TargetBuild, TLAPS

(***************************************************************************)
(* Whoever won the build lock looks into the cache once more ("recheck")   *)
(* and stays at it until it has released the lock.                         *)
(***************************************************************************)
Won(w) == look[w] = "recheck"
Cleared == {"build", "register", "put", "summarize", "release"}

Typed ==
  /\ record \in Maybe(Contents) /\ deleting \in Maybe(Contents)
  /\ cache \in [Contents -> Maybe(Contents)]
  /\ summary \in BOOLEAN
  /\ lock \in [Contents -> Workers \union {NoWorker}]
  /\ pc \in [Workers -> {"idle", "record", "entry", "fetch", "lock", "wait"} \union Cleared]
  /\ look \in [Workers -> {"check", "recheck", "poll"}]
  /\ seen \in [Workers -> Maybe(Contents)] /\ keyed \in [Workers -> Maybe(Contents)]
  /\ dead \subseteq Workers
  /\ changes \in 0 .. MaxChanges /\ expiries \in 0 .. MaxExpiries
  /\ failures \in 0 .. MaxFailures

(***************************************************************************)
(* The order of the steps: what a worker looks for tells where it can be   *)
(* and whether it has a record.                                            *)
(***************************************************************************)
Ordered(w) ==
  /\ pc[w] \in Cleared => Won(w)
  /\ Won(w) => pc[w] \in Cleared \union {"record", "entry"} /\ keyed[w] \in Contents
  /\ pc[w] = "lock" => keyed[w] \in Contents
  /\ pc[w] = "put" => seen[w] \in Contents
  /\ w \in dead => pc[w] = "idle"

(***************************************************************************)
(* While no lock expired under a live holder: a winner owns the lock of    *)
(* the content it builds, whoever owns a lock is its winner or died, and   *)
(* nobody owns two.                                                        *)
(***************************************************************************)
Owned ==
  expiries = 0 =>
    /\ \A w \in Workers : Won(w) => lock[keyed[w]] = w
    /\ \A c \in Contents : lock[c] # NoWorker =>
         \/ lock[c] \in dead
         \/ Won(lock[c]) /\ keyed[lock[c]] = c
    /\ \A c, d \in Contents : lock[c] # NoWorker /\ lock[c] = lock[d] => c = d

(***************************************************************************)
(* While the target is what it was: every record read is the record, and   *)
(* every entry is its own.                                                 *)
(***************************************************************************)
Unchanged ==
  changes = 0 =>
    /\ record \in Contents /\ deleting = NoContent
    /\ \A w \in Workers :
         /\ seen[w] \in {record, NoContent} /\ keyed[w] \in {record, NoContent}
         /\ pc[w] = "entry" => seen[w] = record
    /\ EntryIsOwn

(***************************************************************************)
(* ... and nothing is stored between the winner's second lookup and its    *)
(* own Put.                                                                *)
(***************************************************************************)
StillMissing ==
  expiries = 0 /\ changes = 0 =>
    \A w \in Workers : Building(w) => cache[keyed[w]] = NoContent

IInv == Typed /\ (\A w \in Workers : Ordered(w)) /\ Owned /\ Unchanged /\ StillMissing

---------------------------------------------------------------------------
(* All of it holds at the start.                                           *)
LEMMA InitHolds == Init => IInv
<1> SUFFICES ASSUME Init PROVE IInv
  OBVIOUS
<1>1. MaxChanges \in Nat /\ MaxExpiries \in Nat /\ MaxFailures \in Nat
  BY BuildAssumption
<1> USE DEF Init
<1>2. Typed
  <2>1. /\ pc \in [Workers -> {"idle"}] /\ look \in [Workers -> {"check"}]
        /\ lock \in [Contents -> {NoWorker}] /\ cache \in [Contents -> {NoContent}]
        /\ seen \in [Workers -> {NoContent}] /\ keyed \in [Workers -> {NoContent}]
    OBVIOUS
  <2>2. /\ changes \in 0 .. MaxChanges /\ expiries \in 0 .. MaxExpiries
        /\ failures \in 0 .. MaxFailures
    BY <1>1
  <2> HIDE DEF Init
  <2>3. record \in Contents /\ deleting = NoContent /\ summary \in BOOLEAN /\ dead = {}
    BY DEF Init
  <2> QED
    BY <2>1, <2>2, <2>3 DEF Typed, Maybe
<1>3. \A w \in Workers : Ordered(w)
  BY DEF Ordered, Won, Cleared
<1>4. Owned
  BY DEF Owned, Won
<1>5. Unchanged /\ StillMissing
  BY DEF Unchanged, StillMissing, EntryIsOwn, Building
<1> QED
  BY <1>2, <1>3, <1>4, <1>5 DEF IInv

(* Every variable keeps its type. *)
LEMMA TypedKeeps == IInv /\ [Next]_vars => Typed'
<1> SUFFICES ASSUME IInv, [Next]_vars PROVE Typed'
  OBVIOUS
<1> USE BuildAssumption DEF shared, budgets
<1>1. ASSUME NEW w \in Workers, w \notin dead /\ Call(w) PROVE Typed'
  BY <1>1 DEF Call, Lookup, Goto, IInv, Typed
<1>2. ASSUME NEW w \in Workers, ReadRecord(w) PROVE Typed'
  BY <1>2 DEF ReadRecord, Goto, IInv, Typed
<1>3. ASSUME NEW w \in Workers, Hit(w) PROVE Typed'
  BY <1>3 DEF Hit, Return, Goto, local, IInv, Typed, Maybe, Cleared
<1>4. ASSUME NEW w \in Workers, Miss(w) PROVE Typed'
  BY <1>4 DEF Miss, Goto, local, IInv, Typed, Cleared
<1>5. ASSUME NEW w \in Workers, Fetch(w) PROVE Typed'
  BY <1>5 DEF Fetch, Return, Goto, Unknown, IInv, Typed
<1>6. ASSUME NEW w \in Workers, TakeLock(w) PROVE Typed'
  BY <1>6 DEF TakeLock, Win, AfterWin, Goto, IInv, Typed
<1>7. ASSUME NEW w \in Workers, LoseLock(w) PROVE Typed'
  BY <1>7 DEF LoseLock, Goto, IInv, Typed
<1>8. ASSUME NEW w \in Workers, Build(w) PROVE Typed'
  BY <1>8 DEF Build, Goto, local, IInv, Typed, Cleared
<1>9. ASSUME NEW w \in Workers, ReadForPut(w) PROVE Typed'
  BY <1>9 DEF ReadForPut, Goto, IInv, Typed, Cleared
<1>10. ASSUME NEW w \in Workers, Put(w) PROVE Typed'
  BY <1>10 DEF Put, Goto, local, IInv, Typed, Cleared
<1>11. ASSUME NEW w \in Workers, Summarize(w) PROVE Typed'
  BY <1>11 DEF Summarize, Goto, local, IInv, Typed, Cleared
<1>12. ASSUME NEW w \in Workers, Unlock(w) PROVE Typed'
  BY <1>12 DEF Unlock, Release, Return, Goto, IInv, Typed, Maybe
<1>13. ASSUME NEW w \in Workers, Poll(w) PROVE Typed'
  BY <1>13 DEF Poll, Lookup, Goto, IInv, Typed
<1>14. ASSUME NEW w \in Workers, GiveUp(w) PROVE Typed'
  BY <1>14 DEF GiveUp, Return, Goto, IInv, Typed, Maybe
<1>15. ASSUME NEW w \in Workers, BuildFails(w) PROVE Typed'
  BY <1>15 DEF BuildFails, Goto, local, IInv, Typed, Cleared
<1>16. ASSUME NEW w \in Workers, Crash(w) PROVE Typed'
  BY <1>16 DEF Crash, Return, Goto, IInv, Typed, Maybe
<1>17. ASSUME NEW c \in Contents, Replace(c) PROVE Typed'
  BY <1>17 DEF Replace, local, IInv, Typed, Maybe
<1>18. ASSUME NEW c \in Contents, LockExpires(c) PROVE Typed'
  BY <1>18 DEF LockExpires, local, IInv, Typed
<1>19. CASE DeleteEntries
  BY <1>19 DEF DeleteEntries, local, IInv, Typed, Maybe
<1>20. CASE DeleteRecord
  BY <1>20 DEF DeleteRecord, local, IInv, Typed, Maybe
<1>21. CASE UNCHANGED vars
  BY <1>21 DEF vars, local, IInv, Typed
<1> QED
  BY <1>1, <1>2, <1>3, <1>4, <1>5, <1>6, <1>7, <1>8, <1>9, <1>10, <1>11, <1>12, <1>13, <1>14,
     <1>15, <1>16, <1>17, <1>18, <1>19, <1>20, <1>21 DEF Next, Work

(* The steps of a resolution come in the order of the code. *)
LEMMA OrderedKeeps == IInv /\ [Next]_vars => (\A v \in Workers : Ordered(v))'
<1> SUFFICES ASSUME IInv, [Next]_vars PROVE (\A v \in Workers : Ordered(v))'
  OBVIOUS
<1> USE BuildAssumption DEF shared, budgets
<1>1. ASSUME NEW w \in Workers, w \notin dead /\ Call(w) PROVE (\A v \in Workers : Ordered(v))'
  BY <1>1 DEF Call, Lookup, Goto, At, IInv, Ordered, Won, Cleared
<1>2. ASSUME NEW w \in Workers, ReadRecord(w) PROVE (\A v \in Workers : Ordered(v))'
  BY <1>2 DEF ReadRecord, Goto, At, IInv, Ordered, Won, Cleared
<1>3. ASSUME NEW w \in Workers, Hit(w) PROVE (\A v \in Workers : Ordered(v))'
  BY <1>3 DEF Hit, Return, Goto, local, IInv, Typed, Ordered, Won, Cleared
<1>4. ASSUME NEW w \in Workers, Miss(w) PROVE (\A v \in Workers : Ordered(v))'
  BY <1>4 DEF Miss, Goto, At, local, IInv, Typed, Ordered, Won, Cleared
<1>5. ASSUME NEW w \in Workers, Fetch(w) PROVE (\A v \in Workers : Ordered(v))'
  BY <1>5 DEF Fetch, Return, Goto, At, Unknown, IInv, Typed, Ordered, Won, Maybe, Cleared
<1>6. ASSUME NEW w \in Workers, TakeLock(w) PROVE (\A v \in Workers : Ordered(v))'
  BY <1>6 DEF TakeLock, AfterWin, Goto, At, IInv, Typed, Ordered, Won
<1>7. ASSUME NEW w \in Workers, LoseLock(w) PROVE (\A v \in Workers : Ordered(v))'
  BY <1>7 DEF LoseLock, Goto, At, IInv, Ordered, Won, Cleared
<1>8. ASSUME NEW w \in Workers, Build(w) PROVE (\A v \in Workers : Ordered(v))'
  BY <1>8 DEF Build, Goto, At, local, IInv, Ordered, Won, Cleared
<1>9. ASSUME NEW w \in Workers, ReadForPut(w) PROVE (\A v \in Workers : Ordered(v))'
  BY <1>9 DEF ReadForPut, Goto, At, Unknown, IInv, Typed, Ordered, Won, Maybe, Cleared
<1>10. ASSUME NEW w \in Workers, Put(w) PROVE (\A v \in Workers : Ordered(v))'
  BY <1>10 DEF Put, Goto, At, local, IInv, Ordered, Won, Cleared
<1>11. ASSUME NEW w \in Workers, Summarize(w) PROVE (\A v \in Workers : Ordered(v))'
  BY <1>11 DEF Summarize, Goto, At, local, IInv, Ordered, Won, Cleared
<1>12. ASSUME NEW w \in Workers, Unlock(w) PROVE (\A v \in Workers : Ordered(v))'
  BY <1>12 DEF Unlock, Return, Goto, IInv, Typed, Ordered, Won, Cleared
<1>13. ASSUME NEW w \in Workers, Poll(w) PROVE (\A v \in Workers : Ordered(v))'
  BY <1>13 DEF Poll, Lookup, Goto, At, IInv, Ordered, Won, Cleared
<1>14. ASSUME NEW w \in Workers, GiveUp(w) PROVE (\A v \in Workers : Ordered(v))'
  BY <1>14 DEF GiveUp, Return, Goto, At, IInv, Ordered, Won, Cleared
<1>15. ASSUME NEW w \in Workers, BuildFails(w) PROVE (\A v \in Workers : Ordered(v))'
  BY <1>15 DEF BuildFails, Goto, At, local, IInv, Ordered, Won, Cleared
<1>16. ASSUME NEW w \in Workers, Crash(w) PROVE (\A v \in Workers : Ordered(v))'
  BY <1>16 DEF Crash, Return, Goto, IInv, Typed, Ordered, Won, Cleared
<1>17. ASSUME NEW c \in Contents, Replace(c) PROVE (\A v \in Workers : Ordered(v))'
  BY <1>17 DEF Replace, local, IInv, Ordered, Won
<1>18. ASSUME NEW c \in Contents, LockExpires(c) PROVE (\A v \in Workers : Ordered(v))'
  BY <1>18 DEF LockExpires, local, IInv, Ordered, Won
<1>19. CASE DeleteEntries
  BY <1>19 DEF DeleteEntries, local, IInv, Ordered, Won
<1>20. CASE DeleteRecord
  BY <1>20 DEF DeleteRecord, local, IInv, Ordered, Won
<1>21. CASE UNCHANGED vars
  BY <1>21 DEF vars, local, IInv, Ordered, Won
<1> QED
  BY <1>1, <1>2, <1>3, <1>4, <1>5, <1>6, <1>7, <1>8, <1>9, <1>10, <1>11, <1>12, <1>13, <1>14,
     <1>15, <1>16, <1>17, <1>18, <1>19, <1>20, <1>21 DEF Next, Work

(* The lock is with its winner until the winner releases it or dies. *)
LEMMA OwnedKeeps == IInv /\ [Next]_vars => Owned'
<1> SUFFICES ASSUME IInv, [Next]_vars PROVE Owned'
  OBVIOUS
<1> USE BuildAssumption DEF shared, budgets
<1>1. ASSUME NEW w \in Workers, w \notin dead /\ Call(w) PROVE Owned'
  BY <1>1 DEF Call, Lookup, At, IInv, Ordered, Owned, Won, Cleared
<1>2. ASSUME NEW w \in Workers, ReadRecord(w) PROVE Owned'
  BY <1>2 DEF ReadRecord, IInv, Owned, Won
<1>3. ASSUME NEW w \in Workers, Hit(w) PROVE Owned'
  BY <1>3 DEF Hit, Return, local, IInv, Typed, Owned, Won
<1>4. ASSUME NEW w \in Workers, Miss(w) PROVE Owned'
  BY <1>4 DEF Miss, local, IInv, Owned, Won
<1>5. ASSUME NEW w \in Workers, Fetch(w) PROVE Owned'
  BY <1>5 DEF Fetch, Return, At, IInv, Typed, Ordered, Owned, Won, Cleared
<1>6. ASSUME NEW w \in Workers, TakeLock(w) PROVE Owned'
  BY <1>6 DEF TakeLock, Win, At, IInv, Typed, Ordered, Owned, Won
<1>7. ASSUME NEW w \in Workers, LoseLock(w) PROVE Owned'
  BY <1>7 DEF LoseLock, At, IInv, Ordered, Owned, Won, Cleared
<1>8. ASSUME NEW w \in Workers, Build(w) PROVE Owned'
  BY <1>8 DEF Build, local, IInv, Owned, Won
<1>9. ASSUME NEW w \in Workers, ReadForPut(w) PROVE Owned'
  BY <1>9 DEF ReadForPut, IInv, Owned, Won
<1>10. ASSUME NEW w \in Workers, Put(w) PROVE Owned'
  BY <1>10 DEF Put, local, IInv, Owned, Won
<1>11. ASSUME NEW w \in Workers, Summarize(w) PROVE Owned'
  BY <1>11 DEF Summarize, local, IInv, Owned, Won
<1>12. ASSUME NEW w \in Workers, Unlock(w) PROVE Owned'
  BY <1>12 DEF Unlock, Release, Return, IInv, Typed, Owned, Won
<1>13. ASSUME NEW w \in Workers, Poll(w) PROVE Owned'
  BY <1>13 DEF Poll, Lookup, At, IInv, Ordered, Owned, Won, Cleared
<1>14. ASSUME NEW w \in Workers, GiveUp(w) PROVE Owned'
  BY <1>14 DEF GiveUp, Return, At, IInv, Ordered, Owned, Won, Cleared
<1>15. ASSUME NEW w \in Workers, BuildFails(w) PROVE Owned'
  BY <1>15 DEF BuildFails, local, IInv, Owned, Won
<1>16. ASSUME NEW w \in Workers, Crash(w) PROVE Owned'
  BY <1>16 DEF Crash, Return, IInv, Typed, Owned, Won
<1>17. ASSUME NEW c \in Contents, Replace(c) PROVE Owned'
  BY <1>17 DEF Replace, local, IInv, Owned, Won
<1>18. ASSUME NEW c \in Contents, LockExpires(c) PROVE Owned'
  BY <1>18 DEF LockExpires, local, IInv, Typed, Ordered, Owned, Won, Cleared
<1>19. CASE DeleteEntries
  BY <1>19 DEF DeleteEntries, local, IInv, Owned, Won
<1>20. CASE DeleteRecord
  BY <1>20 DEF DeleteRecord, local, IInv, Owned, Won
<1>21. CASE UNCHANGED vars
  BY <1>21 DEF vars, local, IInv, Owned, Won
<1> QED
  BY <1>1, <1>2, <1>3, <1>4, <1>5, <1>6, <1>7, <1>8, <1>9, <1>10, <1>11, <1>12, <1>13, <1>14,
     <1>15, <1>16, <1>17, <1>18, <1>19, <1>20, <1>21 DEF Next, Work

(* Nothing but an operator changes what a target is. *)
LEMMA UnchangedKeeps == IInv /\ [Next]_vars => Unchanged'
<1> SUFFICES ASSUME IInv, [Next]_vars PROVE Unchanged'
  OBVIOUS
<1> USE BuildAssumption DEF shared, budgets
<1>1. ASSUME NEW w \in Workers, w \notin dead /\ Call(w) PROVE Unchanged'
  BY <1>1 DEF Call, Lookup, Goto, IInv, Unchanged, EntryIsOwn
<1>2. ASSUME NEW w \in Workers, ReadRecord(w) PROVE Unchanged'
  BY <1>2 DEF ReadRecord, Goto, IInv, Typed, Unchanged, EntryIsOwn
<1>3. ASSUME NEW w \in Workers, Hit(w) PROVE Unchanged'
  BY <1>3 DEF Hit, Return, Goto, local, IInv, Typed, Unchanged, EntryIsOwn
<1>4. ASSUME NEW w \in Workers, Miss(w) PROVE Unchanged'
  BY <1>4 DEF Miss, Goto, At, local, IInv, Unchanged, EntryIsOwn
<1>5. ASSUME NEW w \in Workers, Fetch(w) PROVE Unchanged'
  BY <1>5 DEF Fetch, Goto, Unknown, IInv, Typed, Unchanged, EntryIsOwn
<1>6. ASSUME NEW w \in Workers, TakeLock(w) PROVE Unchanged'
  BY <1>6 DEF TakeLock, AfterWin, Goto, IInv, Unchanged, EntryIsOwn
<1>7. ASSUME NEW w \in Workers, LoseLock(w) PROVE Unchanged'
  BY <1>7 DEF LoseLock, Goto, IInv, Unchanged, EntryIsOwn
<1>8. ASSUME NEW w \in Workers, Build(w) PROVE Unchanged'
  BY <1>8 DEF Build, Goto, local, IInv, Unchanged, EntryIsOwn
<1>9. ASSUME NEW w \in Workers, ReadForPut(w) PROVE Unchanged'
  BY <1>9 DEF ReadForPut, Goto, IInv, Unchanged, EntryIsOwn
<1>10. ASSUME NEW w \in Workers, Put(w) PROVE Unchanged'
  BY <1>10 DEF Put, Goto, local, IInv, Unchanged, EntryIsOwn
<1>11. ASSUME NEW w \in Workers, Summarize(w) PROVE Unchanged'
  BY <1>11 DEF Summarize, Goto, local, IInv, Unchanged, EntryIsOwn
<1>12. ASSUME NEW w \in Workers, Unlock(w) PROVE Unchanged'
  BY <1>12 DEF Unlock, Return, Goto, At, IInv, Unchanged, EntryIsOwn
<1>13. ASSUME NEW w \in Workers, Poll(w) PROVE Unchanged'
  BY <1>13 DEF Poll, Lookup, Goto, IInv, Unchanged, EntryIsOwn
<1>14. ASSUME NEW w \in Workers, GiveUp(w) PROVE Unchanged'
  BY <1>14 DEF GiveUp, Return, Goto, At, IInv, Unchanged, EntryIsOwn
<1>15. ASSUME NEW w \in Workers, BuildFails(w) PROVE Unchanged'
  BY <1>15 DEF BuildFails, Goto, local, IInv, Unchanged, EntryIsOwn
<1>16. ASSUME NEW w \in Workers, Crash(w) PROVE Unchanged'
  BY <1>16 DEF Crash, Return, Goto, IInv, Typed, Unchanged, EntryIsOwn
<1>17. ASSUME NEW c \in Contents, Replace(c) PROVE Unchanged'
  BY <1>17 DEF Replace, IInv, Typed, Unchanged
<1>18. ASSUME NEW c \in Contents, LockExpires(c) PROVE Unchanged'
  BY <1>18 DEF LockExpires, local, IInv, Unchanged, EntryIsOwn
<1>19. CASE DeleteEntries
  BY <1>19 DEF DeleteEntries, IInv, Typed, Unchanged
<1>20. CASE DeleteRecord
  BY <1>20 DEF DeleteRecord, IInv, Unchanged
<1>21. CASE UNCHANGED vars
  BY <1>21 DEF vars, local, IInv, Unchanged, EntryIsOwn
<1> QED
  BY <1>1, <1>2, <1>3, <1>4, <1>5, <1>6, <1>7, <1>8, <1>9, <1>10, <1>11, <1>12, <1>13, <1>14,
     <1>15, <1>16, <1>17, <1>18, <1>19, <1>20, <1>21 DEF Next, Work

(* What the second lookup of a winner did not find, nobody stores before it. *)
LEMMA StillMissingKeeps == IInv /\ [Next]_vars => StillMissing'
<1> SUFFICES ASSUME IInv, [Next]_vars PROVE StillMissing'
  OBVIOUS
<1> USE BuildAssumption DEF shared, budgets
<1>1. ASSUME NEW w \in Workers, w \notin dead /\ Call(w) PROVE StillMissing'
  BY <1>1 DEF Call, Lookup, Goto, IInv, StillMissing, Building
<1>2. ASSUME NEW w \in Workers, ReadRecord(w) PROVE StillMissing'
  BY <1>2 DEF ReadRecord, Goto, IInv, StillMissing, Building
<1>3. ASSUME NEW w \in Workers, Hit(w) PROVE StillMissing'
  BY <1>3 DEF Hit, Return, Goto, local, IInv, Typed, StillMissing, Building
<1>4. ASSUME NEW w \in Workers, Miss(w) PROVE StillMissing'
  BY <1>4
     DEF Miss, Goto, At, Cached, local, IInv, Typed, Ordered, Unchanged, StillMissing,
     Building, Won
<1>5. ASSUME NEW w \in Workers, Fetch(w) PROVE StillMissing'
  BY <1>5 DEF Fetch, Return, Goto, IInv, Typed, StillMissing, Building
<1>6. ASSUME NEW w \in Workers, TakeLock(w) PROVE StillMissing'
  BY <1>6 DEF TakeLock, AfterWin, Goto, IInv, StillMissing, Building
<1>7. ASSUME NEW w \in Workers, LoseLock(w) PROVE StillMissing'
  BY <1>7 DEF LoseLock, Goto, IInv, StillMissing, Building
<1>8. ASSUME NEW w \in Workers, Build(w) PROVE StillMissing'
  BY <1>8 DEF Build, Goto, At, local, IInv, StillMissing, Building
<1>9. ASSUME NEW w \in Workers, ReadForPut(w) PROVE StillMissing'
  BY <1>9 DEF ReadForPut, Goto, At, IInv, StillMissing, Building
<1>10. ASSUME NEW w \in Workers, Put(w) PROVE StillMissing'
  BY <1>10 DEF Put, Goto, At, IInv, Typed, Ordered, Owned, Unchanged, StillMissing, Building
<1>11. ASSUME NEW w \in Workers, Summarize(w) PROVE StillMissing'
  BY <1>11 DEF Summarize, Goto, local, IInv, StillMissing, Building
<1>12. ASSUME NEW w \in Workers, Unlock(w) PROVE StillMissing'
  BY <1>12 DEF Unlock, Return, Goto, At, IInv, StillMissing, Building
<1>13. ASSUME NEW w \in Workers, Poll(w) PROVE StillMissing'
  BY <1>13 DEF Poll, Lookup, Goto, IInv, StillMissing, Building
<1>14. ASSUME NEW w \in Workers, GiveUp(w) PROVE StillMissing'
  BY <1>14 DEF GiveUp, Return, Goto, At, IInv, StillMissing, Building
<1>15. ASSUME NEW w \in Workers, BuildFails(w) PROVE StillMissing'
  BY <1>15 DEF BuildFails, Goto, local, IInv, StillMissing, Building
<1>16. ASSUME NEW w \in Workers, Crash(w) PROVE StillMissing'
  BY <1>16 DEF Crash, Return, Goto, IInv, Typed, StillMissing, Building
<1>17. ASSUME NEW c \in Contents, Replace(c) PROVE StillMissing'
  BY <1>17 DEF Replace, IInv, Typed, StillMissing
<1>18. ASSUME NEW c \in Contents, LockExpires(c) PROVE StillMissing'
  BY <1>18 DEF LockExpires, local, IInv, Typed, StillMissing, Building
<1>19. CASE DeleteEntries
  BY <1>19 DEF DeleteEntries, IInv, Typed, StillMissing
<1>20. CASE DeleteRecord
  BY <1>20 DEF DeleteRecord, IInv, Unchanged, StillMissing
<1>21. CASE UNCHANGED vars
  BY <1>21 DEF vars, local, IInv, StillMissing, Building
<1> QED
  BY <1>1, <1>2, <1>3, <1>4, <1>5, <1>6, <1>7, <1>8, <1>9, <1>10, <1>11, <1>12, <1>13, <1>14,
     <1>15, <1>16, <1>17, <1>18, <1>19, <1>20, <1>21 DEF Next, Work

(* The invariant holds of every behaviour.                                 *)
THEOREM InvariantHolds == Spec => []IInv
<1>1. IInv /\ [Next]_vars => IInv'
  BY TypedKeeps, OrderedKeeps, OwnedKeeps, UnchangedKeeps, StillMissingKeeps DEF IInv
<1> QED
  BY InitHolds, <1>1, PTL DEF Spec

(* Every variable keeps its type, a worker locks and builds only for a     *)
(* record it has, and stores only under a record it has.                   *)
THEOREM TypeCorrect == Spec => []TypeOK
<1>1. IInv => TypeOK
  BY DEF IInv, Typed, Ordered, Cleared, TypeOK, HasRecord, Building
<1> QED
  BY <1>1, InvariantHolds, PTL

(* As long as build locks outlast builds, any number of workers, crashes   *)
(* and changes of the target never make two of them build one content      *)
(* (get_or_build_segment_embedding, registry.py).                          *)
THEOREM BuildsAreExclusive == Spec => []OneBuilder
<1>1. IInv => OneBuilder
  <2> SUFFICES ASSUME IInv, expiries = 0, NEW v \in Workers, NEW w \in Workers,
                      Building(v), Building(w), keyed[v] = keyed[w]
               PROVE  v = w
    BY DEF OneBuilder
  <2>1. Won(v) /\ Won(w)
    BY DEF IInv, Ordered, Building, Cleared
  <2>2. lock[keyed[v]] = v /\ lock[keyed[w]] = w
    BY <2>1 DEF IInv, Owned
  <2> QED
    BY <2>2
<1> QED
  BY <1>1, InvariantHolds, PTL

(* As long as the target stays what it is, too, nobody builds what is in   *)
(* the cache: the second lookup under the lock is enough.                  *)
THEOREM NothingIsRebuilt == Spec => []NoRedundantBuild
<1>1. IInv => NoRedundantBuild
  BY DEF IInv, StillMissing, NoRedundantBuild, Building
<1> QED
  BY <1>1, InvariantHolds, PTL

(* Until an operator changes the target every cache entry holds the        *)
(* segments of the content it is named after, even when locks expire:      *)
(* only a change between a build and its registration can file segments    *)
(* under another content.                                                  *)
THEOREM EntriesAreOwnUntilAChange == Spec => [](changes = 0 => EntryIsOwn)
<1>1. IInv => (changes = 0 => EntryIsOwn)
  BY DEF IInv, Unchanged
<1> QED
  BY <1>1, InvariantHolds, PTL
=============================================================================
