-------------------------- MODULE SubmissionProofs ---------------------------
(***************************************************************************)
(* What submission keeps, for any number of submitters, jobs, entries and  *)
(* failures: the types, and each safety property of the run sub_faults.    *)
(*                                                                         *)
(* Two bounds count things of different kinds against one budget. A job    *)
(* has one right to be enqueued, which is the absence of its marker, a     *)
(* call that has set it, or the entry itself; only a failed call makes     *)
(* another. The backlog has room for what it was when a call was admitted, *)
(* and for each admitted call and each retry that is still to come.        *)
(***************************************************************************)
EXTENDS Submission, FiniteSetTheorems, TLAPS

---------------------------------------------------------------------------
(* The inductive invariant.                                                *)

Delayed(j) == IF j \in delayed THEN 1 ELSE 0
Unmarked(j) == IF j \in marker THEN 0 ELSE 1
Tries(s, j) == job[s] = j /\ pc[s] \in {"xadd", "release"}
Trying(j) == {s \in Submitters : Tries(s, j)}
Adds(s) == pc[s] \in {"mark", "xadd"}
Admitted == {s \in Submitters : Adds(s)}

(* The stream and the retry set hold no more than Xadd leaves room for.    *)
LoadBounded == \A j \in Jobs : backlog[j] + Delayed(j) <= MaxEntries + Cardinality(Submitters)

(* One right to enqueue a job, and one more for each failed call.          *)
OneRight ==
  \A j \in Jobs :
    backlog[j] + Delayed(j) + Cardinality(Trying(j)) + Unmarked(j) <= 1 + errors

(* Only a retry puts a job into the retry set.                             *)
DelaysCounted == Cardinality(delayed) <= retries

(* What is there and what may still come.                                  *)
RoomLeft ==
  Outstanding + Cardinality(delayed) + Cardinality(Admitted) <=
    (MaxOutstanding - 1) + Cardinality(Submitters) + retries + errors

IInv ==
  /\ TypeOK /\ LoadBounded /\ OneRight /\ DelaysCounted /\ RoomLeft
  /\ OneLossPerFault

---------------------------------------------------------------------------
(* Lemmas about counting.                                                  *)

OneIf(b) == IF b THEN 1 ELSE 0

(* Two sets that differ in one element at most.                            *)
LEMMA CountMoves ==
  ASSUME NEW S, NEW T, NEW x, IsFiniteSet(S), T \ {x} = S \ {x}
  PROVE /\ IsFiniteSet(T) /\ Cardinality(S) \in Nat /\ Cardinality(T) \in Nat
        /\ Cardinality(T) = Cardinality(S) + OneIf(x \in T) - OneIf(x \in S)
<1> DEFINE R == S \ {x}
<1>1. /\ IsFiniteSet(R) /\ Cardinality(S) \in Nat
      /\ Cardinality(R) = Cardinality(S) - OneIf(x \in S)
  BY FS_RemoveElement, FS_CardinalityType DEF OneIf
<1>2. T = (IF x \in T THEN R \union {x} ELSE R) /\ x \notin R
  OBVIOUS
<1>3. IsFiniteSet(R \union {x}) /\ Cardinality(R \union {x}) = Cardinality(R) + 1
  BY <1>1, <1>2, FS_AddElement
<1>4. IsFiniteSet(T) /\ Cardinality(T) = Cardinality(R) + OneIf(x \in T)
  <2> HIDE DEF R
  <2>1. CASE x \in T
    BY <1>2, <1>3, <2>1 DEF OneIf
  <2>2. CASE x \notin T
    <3>1. T = R /\ Cardinality(R) \in Nat
      BY <1>1, <1>2, <2>2, FS_CardinalityType
    <3> QED
      BY <1>1, <2>2, <3>1 DEF OneIf
  <2> QED
    BY <2>1, <2>2
<1>5. Cardinality(T) \in Nat
  BY <1>4, FS_CardinalityType
<1> QED
  BY <1>1, <1>4, <1>5 DEF OneIf

(* The entries are finitely many.                                          *)
LEMMA EntriesFinite ==
  ASSUME NEW N \in Nat, backlog \in [Jobs -> 0 .. N]
  PROVE /\ IsFiniteSet(Entries) /\ Outstanding \in Nat
        /\ \A j, n : <<j, n>> \in Entries <=> j \in Jobs /\ n \in 1 .. backlog[j]
<1>1. Entries \subseteq Jobs \X (1 .. N)
  <2>1. ASSUME NEW j \in Jobs PROVE {j} \X (1 .. backlog[j]) \subseteq Jobs \X (1 .. N)
    <3>1. backlog[j] \in 0 .. N
      OBVIOUS
    <3>2. 1 .. backlog[j] \subseteq 1 .. N
      BY <3>1
    <3> QED
      BY <3>2
  <2> QED
    BY <2>1 DEF Entries
<1>2. IsFiniteSet(Jobs \X (1 .. N))
  <2>1. IsFiniteSet(1 .. N)
    <3>1. 1 \in Int /\ N \in Int
      OBVIOUS
    <3> QED
      BY <3>1, FS_Interval
  <2>2. IsFiniteSet(Jobs)
    BY SubmissionAssumption
  <2> QED
    BY <2>1, <2>2, FS_Product
<1>3. IsFiniteSet(Entries) /\ Cardinality(Entries) \in Nat
  BY <1>1, <1>2, FS_Subset, FS_CardinalityType
<1>4. \A j, n : <<j, n>> \in Entries <=> j \in Jobs /\ n \in 1 .. backlog[j]
  BY DEF Entries
<1> QED
  BY <1>1, <1>3, <1>4 DEF Outstanding

(* An entry more ...                                                       *)
LEMMA EntryAdded ==
  ASSUME NEW N \in Nat, backlog \in [Jobs -> 0 .. N], NEW j \in Jobs,
         backlog' = [backlog EXCEPT ![j] = @ + 1]
  PROVE Outstanding' = Outstanding + 1
<1> DEFINE e == <<j, backlog[j] + 1>>
<1>1. /\ IsFiniteSet(Entries) /\ Outstanding \in Nat
      /\ \A k, n : <<k, n>> \in Entries <=> k \in Jobs /\ n \in 1 .. backlog[k]
  BY EntriesFinite
<1>2. backlog[j] \in Nat /\ e \notin Entries
  BY <1>1
<1>3. Entries' = Entries \union {e}
  <2>1. ASSUME NEW k \in Jobs
        PROVE {k} \X (1 .. backlog'[k]) =
                ({k} \X (1 .. backlog[k])) \union (IF k = j THEN {e} ELSE {})
    <3>1. CASE k = j
      <4>1. /\ backlog'[k] = backlog[k] + 1
            /\ 1 .. backlog[k] + 1 = (1 .. backlog[k]) \union {backlog[k] + 1}
        BY <1>2, <3>1
      <4> QED
        BY <3>1, <4>1
    <3>2. CASE k # j
      BY <3>2
    <3> QED
      BY <3>1, <3>2
  <2> QED
    BY <2>1 DEF Entries
<1>4. Cardinality(Entries \union {e}) = Cardinality(Entries) + 1
  BY <1>1, <1>2, FS_AddElement
<1> QED
  BY <1>3, <1>4 DEF Outstanding

(* ... and one less.                                                       *)
LEMMA EntryGone ==
  ASSUME NEW N \in Nat, backlog \in [Jobs -> 0 .. N], NEW j \in Jobs, backlog[j] > 0,
         backlog' = [backlog EXCEPT ![j] = @ - 1]
  PROVE Outstanding' = Outstanding - 1
<1> DEFINE e == <<j, backlog[j]>>
<1>1. /\ IsFiniteSet(Entries) /\ Outstanding \in Nat
      /\ \A k, n : <<k, n>> \in Entries <=> k \in Jobs /\ n \in 1 .. backlog[k]
  BY EntriesFinite
<1>2. backlog[j] \in Nat /\ e \in Entries
  BY <1>1
<1>3. Entries' = Entries \ {e}
  <2>1. ASSUME NEW k \in Jobs
        PROVE {k} \X (1 .. backlog'[k]) = ({k} \X (1 .. backlog[k])) \ {e}
    <3>1. CASE k = j
      <4>1. backlog'[k] = backlog[k] - 1 /\ 1 .. backlog[k] - 1 = (1 .. backlog[k]) \ {backlog[k]}
        BY <1>2, <3>1
      <4> QED
        BY <3>1, <4>1
    <3>2. CASE k # j
      BY <3>2
    <3> QED
      BY <3>1, <3>2
  <2> QED
    BY <2>1 DEF Entries
<1>4. Cardinality(Entries \ {e}) = Cardinality(Entries) - 1
  BY <1>1, <1>2, FS_RemoveElement
<1> QED
  BY <1>3, <1>4 DEF Outstanding

(* What is counted of the callers, when one of them makes a step.          *)
OnlyBy(s) == \A v \in Submitters \ {s} : pc'[v] = pc[v] /\ job'[v] = job[v]
LEMMA CallersCounted ==
  ASSUME NEW s \in Submitters, OnlyBy(s)
  PROVE /\ \A j \in Jobs :
             /\ Cardinality(Trying(j)) \in Nat /\ Cardinality(Trying(j)') \in Nat
             /\ Cardinality(Trying(j)') =
                 Cardinality(Trying(j)) + OneIf(Tries(s, j)') - OneIf(Tries(s, j))
        /\ Cardinality(Admitted) \in Nat /\ Cardinality(Admitted') \in Nat
        /\ Cardinality(Admitted') = Cardinality(Admitted) + OneIf(Adds(s)') - OneIf(Adds(s))
<1>1. ASSUME NEW j \in Jobs
      PROVE /\ Cardinality(Trying(j)) \in Nat /\ Cardinality(Trying(j)') \in Nat
            /\ Cardinality(Trying(j)') =
                 Cardinality(Trying(j)) + OneIf(Tries(s, j)') - OneIf(Tries(s, j))
  <2>1. /\ Trying(j)' \ {s} = Trying(j) \ {s} /\ Trying(j) \subseteq Submitters
        /\ (s \in Trying(j)' <=> Tries(s, j)') /\ (s \in Trying(j) <=> Tries(s, j))
    BY DEF OnlyBy, Trying, Tries
  <2>2. IsFiniteSet(Trying(j))
    BY <2>1, SubmissionAssumption, FS_Subset
  <2>3. /\ Cardinality(Trying(j)) \in Nat /\ Cardinality(Trying(j)') \in Nat
        /\ Cardinality(Trying(j)') =
             Cardinality(Trying(j)) + OneIf(s \in Trying(j)') - OneIf(s \in Trying(j))
    BY <2>1, <2>2, CountMoves
  <2> QED
    BY <2>1, <2>3 DEF OneIf
<1>2. /\ Cardinality(Admitted) \in Nat /\ Cardinality(Admitted') \in Nat
      /\ Cardinality(Admitted') = Cardinality(Admitted) + OneIf(Adds(s)') - OneIf(Adds(s))
  <2>1. /\ Admitted' \ {s} = Admitted \ {s} /\ Admitted \subseteq Submitters
        /\ (s \in Admitted' <=> Adds(s)') /\ (s \in Admitted <=> Adds(s))
    BY DEF OnlyBy, Admitted, Adds
  <2>2. IsFiniteSet(Admitted)
    BY <2>1, SubmissionAssumption, FS_Subset
  <2>3. /\ Cardinality(Admitted) \in Nat /\ Cardinality(Admitted') \in Nat
        /\ Cardinality(Admitted') =
             Cardinality(Admitted) + OneIf(s \in Admitted') - OneIf(s \in Admitted)
    BY <2>1, <2>2, CountMoves
  <2> QED
    BY <2>1, <2>3 DEF OneIf
<1> QED
  BY <1>1, <1>2

(* ... and when none does.                                                 *)
LEMMA CallersCountedSame ==
  ASSUME UNCHANGED callVars
  PROVE /\ \A j \in Jobs : Trying(j)' = Trying(j) /\ Cardinality(Trying(j)) \in Nat
        /\ Admitted' = Admitted /\ Cardinality(Admitted) \in Nat
<1>1. \A j \in Jobs : Trying(j)' = Trying(j)
  BY DEF callVars, Trying, Tries
<1>2. Admitted' = Admitted
  BY DEF callVars, Admitted, Adds
<1>3. \A j \in Jobs : Trying(j) \subseteq Submitters
  BY DEF Trying
<1>4. Admitted \subseteq Submitters
  BY DEF Admitted
<1> QED
  BY <1>1, <1>2, <1>3, <1>4, SubmissionAssumption, FS_Subset, FS_CardinalityType

(* The retry set is finite.                                                *)
LEMMA DelayedFinite ==
  ASSUME delayed \subseteq Jobs
  PROVE /\ IsFiniteSet(delayed) /\ Cardinality(delayed) \in Nat
        /\ \A j : /\ Cardinality(delayed \union {j}) \in Nat /\ Cardinality(delayed \ {j}) \in Nat
                  /\ Cardinality(delayed \union {j}) <= Cardinality(delayed) + 1
                  /\ Cardinality(delayed \ {j}) = Cardinality(delayed) - Delayed(j)
<1>1. IsFiniteSet(delayed) /\ Cardinality(delayed) \in Nat
  BY SubmissionAssumption, FS_Subset, FS_CardinalityType
<1> QED
  BY <1>1, FS_AddElement, FS_RemoveElement, FS_CardinalityType DEF Delayed

---------------------------------------------------------------------------
(* Every step keeps the invariant.                                         *)

(* The types, spelled out.                                                 *)
Typed ==
  /\ marker \subseteq Jobs /\ delayed \subseteq Jobs
  /\ told \subseteq Jobs /\ everQueued \subseteq Jobs
  /\ backlog \in [Jobs -> 0 .. MaxEntries + Cardinality(Submitters)]
  /\ pc \in [Submitters -> {"idle", "mark", "xadd", "release"}]
  /\ job \in [Submitters -> Jobs \union {NoJob}]
  /\ \A s \in Submitters : pc[s] = "idle" <=> job[s] = NoJob
  /\ retries \in 0 .. MaxRetries /\ errors \in 0 .. MaxErrors /\ crashes \in 0 .. MaxCrashes

LEMMA TypesSpelledOut == TypeOK <=> Typed
  BY DEF TypeOK, Typed

(* The bounds are numbers.                                                 *)
LEMMA Numbers ==
  /\ {MaxOutstanding, MaxRetries, MaxErrors, MaxCrashes, MaxEntries} \subseteq Nat
  /\ MaxOutstanding >= 1 /\ NoJob \notin Jobs
  /\ Cardinality(Submitters) \in Nat /\ MaxEntries + Cardinality(Submitters) \in Nat
  /\ \A S \in SUBSET Submitters : Cardinality(S) <= Cardinality(Submitters)
  /\ \A s \in Submitters : Cardinality(Submitters) >= 1
<1>1. IsFiniteSet(Submitters)
  BY SubmissionAssumption
<1>2. Cardinality(Submitters) \in Nat
  BY <1>1, FS_CardinalityType
<1>3. \A S \in SUBSET Submitters : Cardinality(S) <= Cardinality(Submitters)
  BY <1>1, FS_Subset
<1>4. \A s \in Submitters : Cardinality(Submitters) >= 1
  BY <1>1, <1>2, FS_EmptySet
<1> QED
  BY <1>2, <1>3, <1>4, SubmissionAssumption

(* The entries change with the backlog only.                               *)
LEMMA SameQueue ==
  ASSUME Typed, UNCHANGED <<backlog, delayed>>
  PROVE /\ Outstanding' = Outstanding /\ Outstanding \in Nat
        /\ delayed' = delayed /\ backlog' = backlog
<1>1. Outstanding' = Outstanding
  BY DEF Outstanding, Entries
<1>2. Outstanding \in Nat
  BY EntriesFinite, Numbers DEF Typed
<1> QED
  BY <1>1, <1>2

(* No fault, no loss: a step that leaves no other candidate unkept.        *)
LEMMA NoLoss ==
  ASSUME Typed, Typed', OneLossPerFault, Unkept' \subseteq Unkept,
         errors' >= errors, crashes' >= crashes
  PROVE OneLossPerFault'
<1>1. Unkept \subseteq Jobs /\ IsFiniteSet(Jobs)
  BY SubmissionAssumption DEF Typed, Unkept
<1>2. /\ IsFiniteSet(Unkept) /\ Cardinality(Unkept) \in Nat
      /\ Cardinality(Unkept') \in Nat /\ Cardinality(Unkept') <= Cardinality(Unkept)
  BY <1>1, FS_Subset, FS_CardinalityType
<1> QED
  BY <1>2, Numbers DEF Typed, OneLossPerFault

(* A fault, and the candidate of the call that it struck.                  *)
LEMMA OneLoss ==
  ASSUME Typed, Typed', OneLossPerFault, NEW j \in Jobs, Unkept' \subseteq Unkept \union {j},
         errors' + crashes' = errors + crashes + 1
  PROVE OneLossPerFault'
<1>1. Unkept \subseteq Jobs /\ IsFiniteSet(Jobs)
  BY SubmissionAssumption DEF Typed, Unkept
<1>2. IsFiniteSet(Unkept) /\ Cardinality(Unkept) \in Nat
  BY <1>1, FS_Subset, FS_CardinalityType
<1>3. /\ IsFiniteSet(Unkept \union {j})
      /\ Cardinality(Unkept \union {j}) \in Nat
      /\ Cardinality(Unkept \union {j}) <= Cardinality(Unkept) + 1
  <2>1. /\ IsFiniteSet(Unkept \union {j})
        /\ Cardinality(Unkept \union {j}) =
             IF j \in Unkept THEN Cardinality(Unkept) ELSE Cardinality(Unkept) + 1
    BY <1>2, FS_AddElement
  <2> QED
    BY <1>2, <2>1
<1>4. Cardinality(Unkept') \in Nat /\ Cardinality(Unkept') <= Cardinality(Unkept \union {j})
  BY <1>3, FS_Subset, FS_CardinalityType
<1>5. Cardinality(Unkept') <= Cardinality(Unkept) + 1
  BY <1>2, <1>3, <1>4
<1>6. errors \in Int /\ crashes \in Int /\ errors' \in Int /\ crashes' \in Int
  BY DEF Typed
<1>7. ASSUME NEW m \in Nat, NEW n \in Nat, NEW a \in Int, NEW b \in Int, NEW x \in Int,
             NEW y \in Int, m <= a + b, n <= m + 1, x + y = a + b + 1
      PROVE  n <= x + y
  BY <1>7
<1> QED
  BY <1>2, <1>4, <1>5, <1>6, <1>7 DEF OneLossPerFault

(* A call is admitted while there is room, and adds one entry at most.     *)
LEMMA AdmitKeeps ==
  ASSUME IInv, NEW s \in Submitters, NEW j \in Jobs, Admit(s, j)
  PROVE IInv'
<1>1. Typed
  BY TypesSpelledOut DEF IInv
<1>2. OnlyBy(s) /\ job[s] \in Jobs \union {NoJob} /\ (pc[s] # "idle" => job[s] \in Jobs)
  BY <1>1 DEF Typed, OnlyBy, Admit, At, Admits, queueVars
<1>3. Outstanding' = Outstanding /\ Outstanding \in Nat /\ delayed' = delayed /\ backlog' = backlog
  <2>1. UNCHANGED <<backlog, delayed>>
    BY DEF Admit, At, Admits, queueVars
  <2> QED
    BY <1>1, <2>1, SameQueue
<1>4. Typed'
  BY <1>1, <1>2, Numbers DEF Typed, Admit, At, Admits, queueVars
<1>5. LoadBounded'
  BY <1>1, <1>2, <1>3, Numbers DEF Typed, IInv, LoadBounded, Delayed, Admit, At, Admits, queueVars
<1>6. OneRight'
  BY <1>1, <1>2, <1>3, CallersCounted DEF Typed, IInv, OneRight, Delayed, Unmarked, OneIf, Tries,
     Admit, At, Admits, queueVars
<1>7. DelaysCounted'
  BY <1>3 DEF IInv, DelaysCounted, Admit, At, Admits, queueVars
<1>8. RoomLeft'
  <2>1. Admitted' \subseteq Submitters
    BY DEF Admitted
  <2>2. Cardinality(Admitted') <= Cardinality(Submitters) /\ Cardinality(Admitted') \in Nat
    BY <1>2, <2>1, CallersCounted, Numbers
  <2>3. Cardinality(delayed) \in Nat /\ Cardinality(delayed) <= retries
    BY <1>1, DelayedFinite DEF Typed, IInv, DelaysCounted
  <2>4. Outstanding < MaxOutstanding /\ UNCHANGED <<retries, errors>>
    BY DEF Admit, Admits
  <2>5. /\ MaxOutstanding \in Int /\ Cardinality(Submitters) \in Int
        /\ retries \in Int /\ errors \in Nat
    BY <1>1, Numbers DEF Typed
  <2>6. Outstanding + Cardinality(delayed) + Cardinality(Admitted') <=
          (MaxOutstanding - 1) + Cardinality(Submitters) + retries + errors
    BY <1>3, <2>2, <2>3, <2>4, <2>5
  <2> QED
    BY <1>3, <2>4, <2>6 DEF RoomLeft
<1>9. OneLossPerFault'
  <2>1. Unkept' \subseteq Unkept
    BY <1>1, <1>2 DEF Typed, Unkept, Submitted, Admit, At, queueVars
  <2>2. errors' >= errors /\ crashes' >= crashes
    BY <1>1, Numbers DEF Typed, Admit, queueVars
  <2> QED
    BY <1>1, <1>4, <2>1, <2>2, NoLoss DEF IInv
<1> QED
  BY <1>4, <1>5, <1>6, <1>7, <1>8, <1>9, TypesSpelledOut DEF IInv, Typed, TypeOK

(* The right to enqueue passes from the missing marker to the call.        *)
LEMMA MarkKeeps ==
  ASSUME IInv, NEW s \in Submitters, Mark(s)
  PROVE IInv'
<1>1. Typed
  BY TypesSpelledOut DEF IInv
<1>2. OnlyBy(s) /\ job[s] \in Jobs \union {NoJob} /\ (pc[s] # "idle" => job[s] \in Jobs)
  BY <1>1 DEF Typed, OnlyBy, Mark, ClaimMarker, At, Goto, Return, Fails, callVars
<1>3. Outstanding' = Outstanding /\ Outstanding \in Nat /\ delayed' = delayed /\ backlog' = backlog
  <2>1. UNCHANGED <<backlog, delayed>>
    BY DEF Mark, ClaimMarker, At, Goto, Return, Fails
  <2> QED
    BY <1>1, <2>1, SameQueue
<1>4. Typed'
  BY <1>1, <1>2, Numbers DEF Typed, Mark, ClaimMarker, At, Goto, Return, Fails, callVars
<1>5. LoadBounded'
  BY <1>1, <1>2, <1>3, Numbers DEF Typed, IInv, LoadBounded, Delayed, Mark, ClaimMarker, At,
     Goto, Return, Fails, callVars
<1>6. OneRight'
  BY <1>1, <1>2, <1>3, CallersCounted DEF Typed, IInv, OneRight, Delayed, Unmarked, OneIf, Tries,
     Mark, ClaimMarker, At, Goto, Return, Fails, callVars
<1>7. DelaysCounted'
  BY <1>3 DEF IInv, DelaysCounted, Mark, ClaimMarker, At, Goto, Return, Fails, callVars
<1>8. RoomLeft'
  BY <1>1, <1>2, <1>3, CallersCounted, Numbers, DelayedFinite DEF Typed, IInv, RoomLeft,
     DelaysCounted, OneIf, Adds, Mark, ClaimMarker, At, Goto, Return, Fails, callVars
<1>9. OneLossPerFault'
  <2>1. job[s] \in Jobs /\ UNCHANGED crashes
    BY <1>2 DEF Mark, At
  <2>2. CASE Goto(s, "xadd") /\ UNCHANGED errors
    <3>1. Unkept' \subseteq Unkept
      BY <1>1, <1>2, <2>2 DEF Typed, Unkept, Submitted, Mark, ClaimMarker, At, Goto
    <3> QED
      BY <1>1, <1>4, <2>1, <2>2, <3>1, NoLoss, Numbers DEF IInv, Typed
  <2>3. CASE Fails("set") /\ (Return(s) \/ UNCHANGED callVars)
    <3>1. Unkept' \subseteq Unkept \union {job[s]}
      BY <1>1, <1>2, <2>3 DEF Typed, Unkept, Submitted, Mark, ClaimMarker, At, Return, callVars
    <3>2. errors' + crashes' = errors + crashes + 1
      BY <1>1, <2>1, <2>3, Numbers DEF Typed, Fails
    <3> QED
      BY <1>1, <1>4, <2>1, <3>1, <3>2, OneLoss DEF IInv
  <2> QED
    BY <2>2, <2>3 DEF Mark
<1> QED
  BY <1>4, <1>5, <1>6, <1>7, <1>8, <1>9, TypesSpelledOut DEF IInv, Typed, TypeOK

(* A call that changed nothing.                                            *)
LEMMA MarkFailsKeeps ==
  ASSUME IInv, NEW s \in Submitters, MarkFails(s)
  PROVE IInv'
<1>1. Typed
  BY TypesSpelledOut DEF IInv
<1>2. OnlyBy(s) /\ job[s] \in Jobs \union {NoJob} /\ (pc[s] # "idle" => job[s] \in Jobs)
  BY <1>1 DEF Typed, OnlyBy, MarkFails, At, Return, Fails, queueVars
<1>3. Outstanding' = Outstanding /\ Outstanding \in Nat /\ delayed' = delayed /\ backlog' = backlog
  <2>1. UNCHANGED <<backlog, delayed>>
    BY DEF MarkFails, At, Return, Fails, queueVars
  <2> QED
    BY <1>1, <2>1, SameQueue
<1>4. Typed'
  BY <1>1, <1>2, Numbers DEF Typed, MarkFails, At, Return, Fails, queueVars
<1>5. LoadBounded'
  BY <1>1, <1>2, <1>3, Numbers DEF Typed, IInv, LoadBounded, Delayed, MarkFails, At, Return,
     Fails, queueVars
<1>6. OneRight'
  BY <1>1, <1>2, <1>3, CallersCounted DEF Typed, IInv, OneRight, Delayed, Unmarked, OneIf, Tries,
     MarkFails, At, Return, Fails, queueVars
<1>7. DelaysCounted'
  BY <1>3 DEF IInv, DelaysCounted, MarkFails, At, Return, Fails, queueVars
<1>8. RoomLeft'
  BY <1>1, <1>2, <1>3, CallersCounted, Numbers, DelayedFinite DEF Typed, IInv, RoomLeft,
     DelaysCounted, OneIf, Adds, MarkFails, At, Return, Fails, queueVars
<1>9. OneLossPerFault'
  <2>1. Unkept' \subseteq Unkept
    BY <1>1, <1>2 DEF Typed, Unkept, Submitted, MarkFails, At, Return, Fails, queueVars
  <2>2. errors' >= errors /\ crashes' >= crashes
    BY <1>1, Numbers DEF Typed, MarkFails, At, Return, Fails, queueVars
  <2> QED
    BY <1>1, <1>4, <2>1, <2>2, NoLoss DEF IInv
<1> QED
  BY <1>4, <1>5, <1>6, <1>7, <1>8, <1>9, TypesSpelledOut DEF IInv, Typed, TypeOK

(* A call that found the marker.                                           *)
LEMMA SuppressKeeps ==
  ASSUME IInv, NEW s \in Submitters, Suppress(s)
  PROVE IInv'
<1>1. Typed
  BY TypesSpelledOut DEF IInv
<1>2. OnlyBy(s) /\ job[s] \in Jobs \union {NoJob} /\ (pc[s] # "idle" => job[s] \in Jobs)
  BY <1>1 DEF Typed, OnlyBy, Suppress, At, Return, queueVars
<1>3. Outstanding' = Outstanding /\ Outstanding \in Nat /\ delayed' = delayed /\ backlog' = backlog
  <2>1. UNCHANGED <<backlog, delayed>>
    BY DEF Suppress, At, Return, queueVars
  <2> QED
    BY <1>1, <2>1, SameQueue
<1>4. Typed'
  BY <1>1, <1>2, Numbers DEF Typed, Suppress, At, Return, queueVars
<1>5. LoadBounded'
  BY <1>1, <1>2, <1>3, Numbers DEF Typed, IInv, LoadBounded, Delayed, Suppress, At, Return,
     queueVars
<1>6. OneRight'
  BY <1>1, <1>2, <1>3, CallersCounted DEF Typed, IInv, OneRight, Delayed, Unmarked, OneIf, Tries,
     Suppress, At, Return, queueVars
<1>7. DelaysCounted'
  BY <1>3 DEF IInv, DelaysCounted, Suppress, At, Return, queueVars
<1>8. RoomLeft'
  BY <1>1, <1>2, <1>3, CallersCounted, Numbers, DelayedFinite DEF Typed, IInv, RoomLeft,
     DelaysCounted, OneIf, Adds, Suppress, At, Return, queueVars
<1>9. OneLossPerFault'
  <2>1. Unkept' \subseteq Unkept
    BY <1>1, <1>2 DEF Typed, Unkept, Submitted, Suppress, At, Return, queueVars
  <2>2. errors' >= errors /\ crashes' >= crashes
    BY <1>1, Numbers DEF Typed, Suppress, At, Return, queueVars
  <2> QED
    BY <1>1, <1>4, <2>1, <2>2, NoLoss DEF IInv
<1> QED
  BY <1>4, <1>5, <1>6, <1>7, <1>8, <1>9, TypesSpelledOut DEF IInv, Typed, TypeOK

(* The right passes from the call to the entry; a failed call keeps it as well. *)
LEMMA XaddKeeps ==
  ASSUME IInv, NEW s \in Submitters, Xadd(s)
  PROVE IInv'
<1>1. Typed
  BY TypesSpelledOut DEF IInv
<1>2. OnlyBy(s) /\ job[s] \in Jobs \union {NoJob} /\ (pc[s] # "idle" => job[s] \in Jobs)
  BY <1>1 DEF Typed, OnlyBy, Xadd, At, Goto, Return, Fails, callVars
<1>3. Outstanding' = Outstanding + 1 /\ Outstanding \in Nat
  BY <1>1, <1>2, EntryAdded, EntriesFinite, Numbers DEF Typed, Xadd, At
<1>4. Typed'
  BY <1>1, <1>2, Numbers DEF Typed, Xadd, At, Goto, Return, Fails, callVars
<1>5. LoadBounded'
  BY <1>1, <1>2, <1>3, Numbers DEF Typed, IInv, LoadBounded, Delayed, Xadd, At, Goto, Return,
     Fails, callVars
<1>6. OneRight'
  BY <1>1, <1>2, <1>3, CallersCounted DEF Typed, IInv, OneRight, Delayed, Unmarked, OneIf, Tries,
     Xadd, At, Goto, Return, Fails, callVars
<1>7. DelaysCounted'
  BY <1>3 DEF IInv, DelaysCounted, Xadd, At, Goto, Return, Fails, callVars
<1>8. RoomLeft'
  BY <1>1, <1>2, <1>3, CallersCounted, Numbers, DelayedFinite DEF Typed, IInv, RoomLeft,
     DelaysCounted, OneIf, Adds, Xadd, At, Goto, Return, Fails, callVars
<1>9. OneLossPerFault'
  <2>1. Unkept' \subseteq Unkept
    BY <1>1, <1>2 DEF Typed, Unkept, Submitted, Xadd, At, Goto, Return, Fails, callVars
  <2>2. errors' >= errors /\ crashes' >= crashes
    BY <1>1, Numbers DEF Typed, Xadd, At, Goto, Return, Fails, callVars
  <2> QED
    BY <1>1, <1>4, <2>1, <2>2, NoLoss DEF IInv
<1> QED
  BY <1>4, <1>5, <1>6, <1>7, <1>8, <1>9, TypesSpelledOut DEF IInv, Typed, TypeOK

(* The marker is to be taken back.                                         *)
LEMMA XaddFailsKeeps ==
  ASSUME IInv, NEW s \in Submitters, XaddFails(s)
  PROVE IInv'
<1>1. Typed
  BY TypesSpelledOut DEF IInv
<1>2. OnlyBy(s) /\ job[s] \in Jobs \union {NoJob} /\ (pc[s] # "idle" => job[s] \in Jobs)
  BY <1>1 DEF Typed, OnlyBy, XaddFails, At, Goto, Fails, queueVars
<1>3. Outstanding' = Outstanding /\ Outstanding \in Nat /\ delayed' = delayed /\ backlog' = backlog
  <2>1. UNCHANGED <<backlog, delayed>>
    BY DEF XaddFails, At, Goto, Fails, queueVars
  <2> QED
    BY <1>1, <2>1, SameQueue
<1>4. Typed'
  BY <1>1, <1>2, Numbers DEF Typed, XaddFails, At, Goto, Fails, queueVars
<1>5. LoadBounded'
  BY <1>1, <1>2, <1>3, Numbers DEF Typed, IInv, LoadBounded, Delayed, XaddFails, At, Goto, Fails,
     queueVars
<1>6. OneRight'
  BY <1>1, <1>2, <1>3, CallersCounted DEF Typed, IInv, OneRight, Delayed, Unmarked, OneIf, Tries,
     XaddFails, At, Goto, Fails, queueVars
<1>7. DelaysCounted'
  BY <1>3 DEF IInv, DelaysCounted, XaddFails, At, Goto, Fails, queueVars
<1>8. RoomLeft'
  BY <1>1, <1>2, <1>3, CallersCounted, Numbers, DelayedFinite DEF Typed, IInv, RoomLeft,
     DelaysCounted, OneIf, Adds, XaddFails, At, Goto, Fails, queueVars
<1>9. OneLossPerFault'
  <2>1. job[s] \in Jobs /\ Unkept' \subseteq Unkept \union {job[s]}
    BY <1>1, <1>2 DEF Typed, Unkept, Submitted, XaddFails, At, Goto, Fails, queueVars
  <2>2. errors' + crashes' = errors + crashes + 1
    BY <1>1, Numbers DEF Typed, XaddFails, At, Goto, Fails
  <2> QED
    BY <1>1, <1>4, <2>1, <2>2, OneLoss DEF IInv
<1> QED
  BY <1>4, <1>5, <1>6, <1>7, <1>8, <1>9, TypesSpelledOut DEF IInv, Typed, TypeOK

(* The right passes back to the missing marker.                            *)
LEMMA ReleaseKeeps ==
  ASSUME IInv, NEW s \in Submitters, Release(s)
  PROVE IInv'
<1>1. Typed
  BY TypesSpelledOut DEF IInv
<1>2. OnlyBy(s) /\ job[s] \in Jobs \union {NoJob} /\ (pc[s] # "idle" => job[s] \in Jobs)
  BY <1>1 DEF Typed, OnlyBy, Release, At, Return, Fails
<1>3. Outstanding' = Outstanding /\ Outstanding \in Nat /\ delayed' = delayed /\ backlog' = backlog
  <2>1. UNCHANGED <<backlog, delayed>>
    BY DEF Release, At, Return, Fails
  <2> QED
    BY <1>1, <2>1, SameQueue
<1>4. Typed'
  BY <1>1, <1>2, Numbers DEF Typed, Release, At, Return, Fails
<1>5. LoadBounded'
  BY <1>1, <1>2, <1>3, Numbers DEF Typed, IInv, LoadBounded, Delayed, Release, At, Return, Fails
<1>6. OneRight'
  BY <1>1, <1>2, <1>3, CallersCounted DEF Typed, IInv, OneRight, Delayed, Unmarked, OneIf, Tries,
     Release, At, Return, Fails
<1>7. DelaysCounted'
  BY <1>3 DEF IInv, DelaysCounted, Release, At, Return, Fails
<1>8. RoomLeft'
  BY <1>1, <1>2, <1>3, CallersCounted, Numbers, DelayedFinite DEF Typed, IInv, RoomLeft,
     DelaysCounted, OneIf, Adds, Release, At, Return, Fails
<1>9. OneLossPerFault'
  <2>1. Unkept' \subseteq Unkept
    BY <1>1, <1>2 DEF Typed, Unkept, Submitted, Release, At, Return, Fails
  <2>2. errors' >= errors /\ crashes' >= crashes
    BY <1>1, Numbers DEF Typed, Release, At, Return, Fails
  <2> QED
    BY <1>1, <1>4, <2>1, <2>2, NoLoss DEF IInv
<1> QED
  BY <1>4, <1>5, <1>6, <1>7, <1>8, <1>9, TypesSpelledOut DEF IInv, Typed, TypeOK

(* The call is gone, and its right with it.                                *)
LEMMA CrashKeeps ==
  ASSUME IInv, NEW s \in Submitters, Crash(s)
  PROVE IInv'
<1>1. Typed
  BY TypesSpelledOut DEF IInv
<1>2. OnlyBy(s) /\ job[s] \in Jobs \union {NoJob} /\ (pc[s] # "idle" => job[s] \in Jobs)
  BY <1>1 DEF Typed, OnlyBy, Crash, At, Return, queueVars
<1>3. Outstanding' = Outstanding /\ Outstanding \in Nat /\ delayed' = delayed /\ backlog' = backlog
  <2>1. UNCHANGED <<backlog, delayed>>
    BY DEF Crash, At, Return, queueVars
  <2> QED
    BY <1>1, <2>1, SameQueue
<1>4. Typed'
  BY <1>1, <1>2, Numbers DEF Typed, Crash, At, Return, queueVars
<1>5. LoadBounded'
  BY <1>1, <1>2, <1>3, Numbers DEF Typed, IInv, LoadBounded, Delayed, Crash, At, Return, queueVars
<1>6. OneRight'
  BY <1>1, <1>2, <1>3, CallersCounted DEF Typed, IInv, OneRight, Delayed, Unmarked, OneIf, Tries,
     Crash, At, Return, queueVars
<1>7. DelaysCounted'
  BY <1>3 DEF IInv, DelaysCounted, Crash, At, Return, queueVars
<1>8. RoomLeft'
  BY <1>1, <1>2, <1>3, CallersCounted, Numbers, DelayedFinite DEF Typed, IInv, RoomLeft,
     DelaysCounted, OneIf, Adds, Crash, At, Return, queueVars
<1>9. OneLossPerFault'
  <2>1. job[s] \in Jobs /\ Unkept' \subseteq Unkept \union {job[s]}
    BY <1>1, <1>2 DEF Typed, Unkept, Submitted, Crash, At, Return, queueVars
  <2>2. errors' + crashes' = errors + crashes + 1
    BY <1>1, Numbers DEF Typed, Crash, At, Return
  <2> QED
    BY <1>1, <1>4, <2>1, <2>2, OneLoss DEF IInv
<1> QED
  BY <1>4, <1>5, <1>6, <1>7, <1>8, <1>9, TypesSpelledOut DEF IInv, Typed, TypeOK

(* An entry less.                                                          *)
LEMMA FinishKeeps ==
  ASSUME IInv, NEW j \in Jobs, Finish(j)
  PROVE IInv'
<1>1. Typed
  BY TypesSpelledOut DEF IInv
<1>2. UNCHANGED callVars
  BY DEF Finish
<1>3. Outstanding' = Outstanding - 1 /\ Outstanding \in Nat
  BY <1>1, EntryGone, EntriesFinite, Numbers DEF Typed, Finish
<1>4. LoadBounded'
  BY <1>1, Numbers DEF Typed, IInv, LoadBounded, Delayed, Finish
<1>5. Typed'
  <2>1. backlog' \in [Jobs -> 0 .. MaxEntries + Cardinality(Submitters)]
    BY <1>1, <1>4, Numbers DEF Typed, LoadBounded, Delayed, Finish
  <2> QED
    BY <1>1, <1>2, <2>1, Numbers DEF Typed, callVars, Finish
<1>6. OneRight'
  BY <1>1, <1>2, CallersCountedSame DEF Typed, IInv, OneRight, Delayed, Unmarked, Finish
<1>7. DelaysCounted'
  BY <1>1, DelayedFinite DEF Typed, IInv, DelaysCounted, Delayed, Finish
<1>8. RoomLeft'
  BY <1>1, <1>2, <1>3, CallersCountedSame, Numbers, DelayedFinite
     DEF Typed, IInv, RoomLeft, Delayed, Finish
<1>9. OneLossPerFault'
  <2>1. Unkept' \subseteq Unkept
    BY <1>1, <1>2 DEF Typed, Unkept, Submitted, callVars, Finish
  <2>2. errors' >= errors /\ crashes' >= crashes
    BY <1>1, Numbers DEF Typed, callVars, Finish
  <2> QED
    BY <1>1, <1>5, <2>1, <2>2, NoLoss DEF IInv
<1> QED
  BY <1>4, <1>5, <1>6, <1>7, <1>8, <1>9, TypesSpelledOut DEF IInv, Typed, TypeOK

(* The entry goes to the retry set, which the scheduled retry pays for.    *)
LEMMA DelayKeeps ==
  ASSUME IInv, NEW j \in Jobs, Delay(j)
  PROVE IInv'
<1>1. Typed
  BY TypesSpelledOut DEF IInv
<1>2. UNCHANGED callVars
  BY DEF Delay
<1>3. Outstanding' = Outstanding - 1 /\ Outstanding \in Nat
  BY <1>1, EntryGone, EntriesFinite, Numbers DEF Typed, Delay
<1>4. LoadBounded'
  BY <1>1, Numbers DEF Typed, IInv, LoadBounded, Delayed, Delay
<1>5. Typed'
  <2>1. backlog' \in [Jobs -> 0 .. MaxEntries + Cardinality(Submitters)]
    BY <1>1, <1>4, Numbers DEF Typed, LoadBounded, Delayed, Delay
  <2> QED
    BY <1>1, <1>2, <2>1, Numbers DEF Typed, callVars, Delay
<1>6. OneRight'
  <2>1. UNCHANGED <<marker, errors>> /\ \A k \in Jobs : Trying(k)' = Trying(k)
    BY <1>2, CallersCountedSame DEF Delay
  <2>2. ASSUME NEW k \in Jobs
        PROVE backlog'[k] + Delayed(k)' <= backlog[k] + Delayed(k) /\ Unmarked(k)' = Unmarked(k)
    BY <1>1, <2>1 DEF Typed, Delayed, Unmarked, Delay
  <2>3. \A k \in Jobs : Delayed(k)' \in Nat /\ backlog'[k] \in Nat /\ Cardinality(Trying(k)) \in Nat
    BY <1>5, <1>2, CallersCountedSame, Numbers DEF Typed, Delayed
  <2> QED
    BY <1>1, <2>1, <2>2, <2>3 DEF Typed, IInv, OneRight, Delayed, Unmarked
<1>7. DelaysCounted'
  <2>1. delayed' = delayed \union {j} /\ retries' = retries + 1
    BY DEF Delay
  <2>2. /\ Cardinality(delayed) \in Nat
        /\ Cardinality(delayed \union {j}) \in Nat
        /\ Cardinality(delayed \union {j}) <= Cardinality(delayed) + 1
    BY <1>1, DelayedFinite DEF Typed, Delayed
  <2>3. Cardinality(delayed') \in Nat /\ Cardinality(delayed') <= Cardinality(delayed) + 1
    BY <2>1, <2>2
  <2> QED
    BY <1>1, <2>1, <2>2, <2>3, Numbers DEF Typed, IInv, DelaysCounted
<1>8. RoomLeft'
  <2>1. delayed' = delayed \union {j} /\ retries' = retries + 1 /\ errors' = errors
    BY DEF Delay
  <2>2. /\ Cardinality(delayed) \in Nat /\ Cardinality(delayed \union {j}) \in Nat
        /\ Cardinality(delayed \union {j}) <= Cardinality(delayed) + 1
    BY <1>1, DelayedFinite DEF Typed, Delayed
  <2>3. Admitted' = Admitted /\ Cardinality(Admitted) \in Nat
    BY <1>2, CallersCountedSame
  <2> QED
    BY <1>1, <1>3, <2>1, <2>2, <2>3, Numbers DEF Typed, IInv, RoomLeft
<1>9. OneLossPerFault'
  <2>1. Unkept' \subseteq Unkept
    BY <1>1, <1>2 DEF Typed, Unkept, Submitted, callVars, Delay
  <2>2. errors' >= errors /\ crashes' >= crashes
    BY <1>1, Numbers DEF Typed, callVars, Delay
  <2> QED
    BY <1>1, <1>5, <2>1, <2>2, NoLoss DEF IInv
<1> QED
  BY <1>4, <1>5, <1>6, <1>7, <1>8, <1>9, TypesSpelledOut DEF IInv, Typed, TypeOK

(* It comes back from there.                                               *)
LEMMA PromoteKeeps ==
  ASSUME IInv, NEW j \in Jobs, Promote(j)
  PROVE IInv'
<1>1. Typed
  BY TypesSpelledOut DEF IInv
<1>2. UNCHANGED callVars
  BY DEF Promote
<1>3. Outstanding' = Outstanding + 1 /\ Outstanding \in Nat
  BY <1>1, EntryAdded, EntriesFinite, Numbers DEF Typed, Promote
<1>4. LoadBounded'
  BY <1>1, Numbers DEF Typed, IInv, LoadBounded, Delayed, Promote
<1>5. Typed'
  <2>1. backlog' \in [Jobs -> 0 .. MaxEntries + Cardinality(Submitters)]
    BY <1>1, <1>4, Numbers DEF Typed, LoadBounded, Delayed, Promote
  <2> QED
    BY <1>1, <1>2, <2>1, Numbers DEF Typed, callVars, Promote
<1>6. OneRight'
  BY <1>1, <1>2, CallersCountedSame DEF Typed, IInv, OneRight, Delayed, Unmarked, Promote
<1>7. DelaysCounted'
  BY <1>1, DelayedFinite DEF Typed, IInv, DelaysCounted, Delayed, Promote
<1>8. RoomLeft'
  BY <1>1, <1>2, <1>3, CallersCountedSame, Numbers, DelayedFinite
     DEF Typed, IInv, RoomLeft, Delayed, Promote
<1>9. OneLossPerFault'
  <2>1. Unkept' \subseteq Unkept
    BY <1>1, <1>2 DEF Typed, Unkept, Submitted, callVars, Promote
  <2>2. errors' >= errors /\ crashes' >= crashes
    BY <1>1, Numbers DEF Typed, callVars, Promote
  <2> QED
    BY <1>1, <1>5, <2>1, <2>2, NoLoss DEF IInv
<1> QED
  BY <1>4, <1>5, <1>6, <1>7, <1>8, <1>9, TypesSpelledOut DEF IInv, Typed, TypeOK

(* A marker expires when nothing is left of its job.                       *)
LEMMA MarkerExpiresKeeps ==
  ASSUME IInv, NEW j \in Jobs, MarkerExpires(j)
  PROVE IInv'
<1>1. Typed
  BY TypesSpelledOut DEF IInv
<1>2. UNCHANGED callVars
  BY DEF MarkerExpires
<1>3. Outstanding' = Outstanding /\ Outstanding \in Nat /\ backlog' = backlog /\ delayed' = delayed
  BY <1>1, SameQueue DEF MarkerExpires, MayExpire
<1>4. LoadBounded'
  BY <1>1, Numbers DEF Typed, IInv, LoadBounded, Delayed, MarkerExpires, MayExpire
<1>5. Typed'
  <2>1. backlog' \in [Jobs -> 0 .. MaxEntries + Cardinality(Submitters)]
    BY <1>1, <1>4, Numbers DEF Typed, LoadBounded, Delayed, MarkerExpires, MayExpire
  <2> QED
    BY <1>1, <1>2, <2>1, Numbers DEF Typed, callVars, MarkerExpires, MayExpire
<1>6. OneRight'
  <2>1. Trying(j) = {}
    BY DEF MarkerExpires, MayExpire, Submitting, Trying, Tries
  <2>2. Cardinality(Trying(j)) = 0 /\ backlog[j] = 0 /\ j \notin delayed
    BY <1>1, <2>1, FS_EmptySet DEF Typed, MarkerExpires, MayExpire, Live
  <2> QED
    BY <1>1, <1>2, <1>3, <2>2, CallersCountedSame
       DEF Typed, IInv, OneRight, Delayed, Unmarked, MarkerExpires
<1>7. DelaysCounted'
  BY <1>1, DelayedFinite DEF Typed, IInv, DelaysCounted, Delayed, MarkerExpires, MayExpire
<1>8. RoomLeft'
  BY <1>1, <1>2, <1>3, CallersCountedSame, Numbers, DelayedFinite
     DEF Typed, IInv, RoomLeft, Delayed, MarkerExpires, MayExpire
<1>9. OneLossPerFault'
  <2>1. Unkept' \subseteq Unkept
    BY <1>1, <1>2 DEF Typed, Unkept, Submitted, callVars, MarkerExpires, MayExpire
  <2>2. errors' >= errors /\ crashes' >= crashes
    BY <1>1, Numbers DEF Typed, callVars, MarkerExpires, MayExpire
  <2> QED
    BY <1>1, <1>5, <2>1, <2>2, NoLoss DEF IInv
<1> QED
  BY <1>4, <1>5, <1>6, <1>7, <1>8, <1>9, TypesSpelledOut DEF IInv, Typed, TypeOK

(* The invariant holds at first ...                                        *)
LEMMA InitHolds == Init => IInv
<1> SUFFICES ASSUME Init PROVE IInv
  OBVIOUS
<1>1. Typed
  BY Numbers DEF Init, Typed
<1>2. Cardinality({}) = 0
  BY FS_EmptySet
<1>3. Outstanding = 0
  <2>1. \A j \in Jobs : {j} \X (1 .. backlog[j]) = {}
    BY DEF Init
  <2>2. Entries = {}
    BY <2>1 DEF Entries
  <2> QED
    BY <1>2, <2>2 DEF Outstanding
<1>4. (\A j \in Jobs : Trying(j) = {}) /\ Admitted = {}
  BY DEF Init, Trying, Tries, Admitted, Adds
<1>5. LoadBounded /\ DelaysCounted /\ OneLossPerFault
  <2>1. Unkept = {}
    BY DEF Init, Unkept
  <2> QED
    BY <1>2, <2>1, Numbers DEF Init, LoadBounded, Delayed, DelaysCounted, OneLossPerFault
<1>6. OneRight
  BY <1>2, <1>4 DEF Init, OneRight, Delayed, Unmarked
<1>7. RoomLeft
  BY <1>2, <1>3, <1>4, Numbers DEF Init, RoomLeft
<1> QED
  BY <1>1, <1>5, <1>6, <1>7, TypesSpelledOut DEF IInv

(* ... and as long as nothing happens.                                     *)
LEMMA StutterKeeps == IInv /\ UNCHANGED vars => IInv'
<1> SUFFICES ASSUME IInv, UNCHANGED vars PROVE IInv'
  OBVIOUS
<1>1. UNCHANGED <<marker, backlog, delayed, pc, job, told, everQueued, retries, errors, crashes>>
  BY DEF vars, queueVars, callVars
<1>2. Outstanding' = Outstanding
  BY <1>1 DEF Outstanding, Entries
<1>3. (\A j \in Jobs : Trying(j)' = Trying(j)) /\ Admitted' = Admitted
  BY <1>1 DEF Trying, Tries, Admitted, Adds
<1>4. TypeOK' /\ LoadBounded'
  BY <1>1 DEF IInv, TypeOK, LoadBounded, Delayed
<1>5. OneRight' /\ DelaysCounted' /\ RoomLeft'
  BY <1>1, <1>2, <1>3 DEF IInv, OneRight, Delayed, Unmarked, DelaysCounted, RoomLeft
<1>6. OneLossPerFault'
  <2>1. Unkept' = Unkept
    BY <1>1 DEF Unkept, Submitted
  <2> QED
    BY <1>1, <2>1 DEF IInv, OneLossPerFault
<1> QED
  BY <1>4, <1>5, <1>6 DEF IInv

(* The invariant holds of every behaviour.                                 *)
THEOREM InvariantHolds == Spec => []IInv
<1>1. Init => IInv
  BY InitHolds
<1>2. IInv /\ [Next]_vars => IInv'
  <2> SUFFICES ASSUME IInv, [Next]_vars PROVE IInv'
    OBVIOUS
  <2>1. ASSUME NEW s \in Submitters, (\E j \in Jobs : Admit(s, j)) \/ Submit(s) \/ Crash(s)
        PROVE IInv'
    BY <2>1, AdmitKeeps, MarkKeeps, MarkFailsKeeps, SuppressKeeps, XaddKeeps, XaddFailsKeeps,
       ReleaseKeeps, CrashKeeps DEF Submit
  <2>2. ASSUME NEW j \in Jobs, Finish(j) \/ Delay(j) \/ Promote(j) \/ MarkerExpires(j)
        PROVE IInv'
    BY <2>2, FinishKeeps, DelayKeeps, PromoteKeeps, MarkerExpiresKeeps
  <2> QED
    BY <2>1, <2>2, StutterKeeps DEF Next
<1> QED
  BY <1>1, <1>2, PTL DEF Spec

---------------------------------------------------------------------------
(* Every variable keeps its type, and no job has more entries than the     *)
(* bound of Xadd and the submitters explain.                               *)
THEOREM TypeCorrect == Spec => []TypeOK
<1>1. IInv => TypeOK
  BY DEF IInv
<1> QED
  BY <1>1, InvariantHolds, PTL

(* However many processes submit one candidate, and whatever fails between *)
(* the marker and the XADD: one entry, and one more for each failed call.  *)
THEOREM MarkersAdmitOne == Spec => []OneEntryPerJob
<1>1. IInv => OneEntryPerJob
  <2> SUFFICES ASSUME IInv, NEW j \in Jobs PROVE backlog[j] + Delayed(j) <= 1 + errors
    BY DEF OneEntryPerJob, Delayed
  <2>1. Typed
    BY TypesSpelledOut DEF IInv
  <2>2. Trying(j) \subseteq Submitters /\ IsFiniteSet(Submitters)
    BY SubmissionAssumption DEF Trying
  <2>3. Cardinality(Trying(j)) \in Nat
    BY <2>2, FS_Subset, FS_CardinalityType
  <2> QED
    BY <2>1, <2>3, Numbers DEF IInv, OneRight, Typed, Delayed, Unmarked
<1> QED
  BY <1>1, InvariantHolds, PTL

(* The limit on the backlog is overshot by the submitters that had passed  *)
(* the check, the retries and the failed calls, and by nothing else.       *)
THEOREM LimitIsNearlyKept == Spec => []BacklogBounded
<1>1. IInv => BacklogBounded
  <2> SUFFICES ASSUME IInv PROVE BacklogBounded
    OBVIOUS
  <2>1. Typed
    BY TypesSpelledOut DEF IInv
  <2>2. Admitted \subseteq Submitters /\ IsFiniteSet(Submitters)
    BY SubmissionAssumption DEF Admitted
  <2>3. Cardinality(Admitted) \in Nat
    BY <2>2, FS_Subset, FS_CardinalityType
  <2>4. Cardinality(delayed) \in Nat /\ Outstanding \in Nat
    BY <2>1, DelayedFinite, EntriesFinite, Numbers DEF Typed
  <2> QED
    BY <2>1, <2>3, <2>4, Numbers DEF IInv, RoomLeft, BacklogBounded, Typed
<1> QED
  BY <1>1, InvariantHolds, PTL

(* Whatever fails, and however many callers share a marker: every marker   *)
(* and every answer without a submission behind it has a fault of its own  *)
(* (submission.py:121-142).                                                *)
THEOREM FaultsCostOneEach == Spec => []OneLossPerFault
<1>1. IInv => OneLossPerFault
  BY DEF IInv
<1> QED
  BY <1>1, InvariantHolds, PTL
=============================================================================
