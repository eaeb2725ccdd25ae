------------------------ MODULE TemporalMatcherProofs ------------------------
(***************************************************************************)
(* Whatever the segments and the configuration, match_segments reports     *)
(* only alignments, and with tolerance 0 it misses none on the dominant    *)
(* offset.                                                                 *)
(***************************************************************************)
EXTENDS TemporalMatcher, FiniteSetTheorems, TLAPS

(* What the paragraphs hand on: run is empty until it is chosen, ordered   *)
(* until it is computed, hits reach the threshold, ordered pairs lie near  *)
(* the dominant offset.                                                    *)
Handed ==
  /\ pc \in {"screen", "raised", "offset", "best"} => ordered = {}
  /\ pc # "done" => run = {}
  /\ pc = "screen" => hits = {}
  /\ \A h \in hits : similarity[h] >= Threshold
  /\ \A h \in ordered : Near(h)

IInv == TypeOK /\ Handed /\ RunIsAlignment

(* Two pairs that are neighbours in the piece of ordered starting at s do  *)
(* not break the run: a break would have started a piece between them.     *)
LEMMA RunIsAligned ==
  ASSUME TypeOK, NEW s \in ordered
  PROVE  Aligned(RunFrom(s))
<1> DEFINE R == RunFrom(s)
<1> USE MatcherAssumption
<1>1. \A h \in ordered : h[1] \in Nat /\ h[2] \in Nat
  BY DEF TypeOK
<1>2. SUFFICES ASSUME NEW p \in R, NEW h \in R, Follows(p, h, R)
               PROVE  h[1] - p[1] <= config.max_index_gap /\ p[2] <= h[2]
  BY DEF Aligned
<1>3. p \in ordered /\ h \in ordered /\ s[1] <= p[1] /\ p[1] < h[1]
  BY <1>2 DEF RunFrom, Follows
<1>4. \A q \in ordered : p[1] < q[1] /\ q[1] < h[1] => q \in R
  BY <1>1, <1>2, <1>3 DEF RunFrom
<1>5. Predecessor(p, h)
  BY <1>2, <1>3, <1>4 DEF Predecessor, Follows
<1>6. ~StartsRun(h)
  BY <1>1, <1>2, <1>3 DEF RunFrom
<1>7. PICK q \in ordered : Predecessor(q, h) /\ ~Breaks(q, h)
  BY <1>3, <1>6 DEF StartsRun
<1>8. q[1] = p[1]
  BY <1>1, <1>3, <1>5, <1>7 DEF Predecessor
<1>9. q = p
  BY <1>3, <1>7, <1>8 DEF TypeOK
<1>10. config.max_index_gap \in Nat
  BY DEF TypeOK
<1> QED
  BY <1>1, <1>3, <1>7, <1>9, <1>10 DEF Breaks

(* best_per_candidate keeps one pair of each candidate segment.            *)
LEMMA OneBestEach ==
  ASSUME TypeOK, NEW K \in SUBSET hits,
         NEW g \in K, NEW h \in K, g[1] = h[1], Preferred(g, h), Preferred(h, g)
  PROVE  g = h
<1> USE MatcherAssumption
<1>1. g \in candidate \X target /\ h \in candidate \X target
  BY DEF TypeOK
<1>2. g[2] \in Nat /\ h[2] \in Nat /\ g = <<g[1], g[2]>> /\ h = <<h[1], h[2]>>
  BY <1>1 DEF TypeOK
<1>3. similarity[g] \in Int /\ similarity[h] \in Int
  BY <1>1 DEF TypeOK, Matrices
<1>4. g[2] = h[2]
  BY <1>2, <1>3 DEF Preferred
<1> QED
  BY <1>2, <1>4

(* What is handed on is there at the start, and kept by every paragraph.   *)
LEMMA InitHands == Init => IInv
<1> SUFFICES ASSUME Init PROVE IInv
  OBVIOUS
<1>1. hits = {} /\ ordered = {} /\ run = {} /\ pc = "screen" /\ matched = FALSE
  BY DEF Init
<1>2. /\ candidate \in CandidateLists /\ target \in TargetLists
      /\ similarity = <<>> /\ config \in Configs /\ offset \in Int
  BY DEF Init
<1>3. TypeOK
  BY <1>1, <1>2 DEF TypeOK
<1> QED
  BY <1>1, <1>3 DEF IInv, Handed, RunIsAlignment, Aligned

LEMMA NextHands == IInv /\ [Next]_vars => IInv'
<1> SUFFICES ASSUME IInv, [Next]_vars PROVE IInv'
  OBVIOUS
<1> USE MatcherAssumption
<1>1. CASE UNCHANGED vars
  BY <1>1 DEF IInv, TypeOK, Matrices, Handed, RunIsAlignment, Aligned, Follows, Near, Offset,
              Distance, vars, input
<1>2. CASE Reject
  BY <1>2 DEF Reject, IInv, TypeOK, Matrices, Handed, RunIsAlignment, Aligned, Follows, input
<1>3. CASE Raise
  BY <1>3 DEF Raise, IInv, TypeOK, Matrices, Handed, RunIsAlignment, Aligned, Follows, input
<1>4. CASE FindHits
  <2>1. ordered = {} /\ run = {} /\ pc' \in {"done", "offset"}
    BY <1>4 DEF FindHits, IInv, Handed, TypeOK
  <2>2. /\ similarity' \in Matrices /\ hits' \subseteq candidate \X target
        /\ \A h \in hits' : similarity'[h] >= Threshold
        /\ UNCHANGED <<candidate, target, config, offset, ordered, run, matched>>
    BY <1>4 DEF FindHits
  <2>3. TypeOK'
    BY <2>1, <2>2 DEF IInv, TypeOK, Matrices
  <2> QED
    BY <2>1, <2>2, <2>3 DEF IInv, Handed, RunIsAlignment, Aligned
<1>5. CASE VoteOnOffset
  <2>1. offset' \in Int
    BY <1>5, MatcherAssumption DEF VoteOnOffset, IInv, TypeOK, Offsets, Offset
  <2>2. ordered' = {} /\ run' = {} /\ pc' = "best" /\ UNCHANGED <<input, hits, matched>>
    BY <1>5 DEF VoteOnOffset, IInv, Handed
  <2>3. matched' = FALSE \/ Cardinality(run) >= config.min_matched_segments
    BY <2>2 DEF IInv, TypeOK, RunIsAlignment
  <2>4. TypeOK'
    BY <2>1, <2>2 DEF IInv, TypeOK, Matrices, input
  <2> QED
    BY <1>5, <2>2, <2>3, <2>4
    DEF VoteOnOffset, IInv, Handed, RunIsAlignment, Aligned, input
<1>6. CASE BestPerCandidate
  <2>1. ordered' \subseteq hits /\ UNCHANGED <<input, hits, offset, run, matched>>
    BY <1>6 DEF BestPerCandidate
  <2>2. \A g, h \in ordered' : g[1] = h[1] => g = h
    BY <1>6, OneBestEach DEF BestPerCandidate, IInv
  <2>3. TypeOK'
    <3>1. run = {} /\ pc' = "runs"
      BY <1>6 DEF BestPerCandidate, IInv, Handed
    <3> QED
      BY <2>1, <2>2, <3>1 DEF IInv, TypeOK, Matrices, input
  <2>4. \A h \in ordered' : Near(h)'
    BY <1>6, <2>1 DEF BestPerCandidate, Near, Offset, Distance, input
  <2> QED
    BY <1>6, <2>1, <2>3, <2>4
    DEF BestPerCandidate, IInv, Handed, RunIsAlignment, Aligned, Follows, input
<1>7. CASE ChooseRun
  <2>1. PICK s \in ordered : run' = RunFrom(s)
    BY <1>7 DEF ChooseRun, Runs
  <2>2. UNCHANGED <<input, hits, offset, ordered>> /\ pc' = "done" /\ run' \subseteq ordered
    BY <1>7, <2>1 DEF ChooseRun, RunFrom
  <2>3. TypeOK'
    BY <1>7, <2>2 DEF ChooseRun, IInv, TypeOK, Matrices, input, Enough
  <2>4. Handed'
    BY <2>2 DEF IInv, Handed, Near, Offset, Distance, input
  <2>5. Aligned(run)'
    BY <2>1, <2>2, RunIsAligned DEF IInv, Aligned, Follows, input
  <2>6. \A h \in run' : similarity[h] >= Threshold /\ Near(h)
    BY <2>2 DEF IInv, Handed, TypeOK
  <2>7. (matched => Cardinality(run) >= config.min_matched_segments)'
    BY <1>7, <2>2 DEF ChooseRun, Enough, input
  <2> QED
    BY <2>2, <2>3, <2>4, <2>5, <2>6, <2>7
    DEF IInv, RunIsAlignment, Near, Offset, Distance, input
<1>8. CASE Done
  BY <1>1, <1>8 DEF Done
<1> QED
  BY <1>1, <1>2, <1>3, <1>4, <1>5, <1>6, <1>7, <1>8 DEF Next

(* Type correctness, with one pair per candidate segment: the loop over    *)
(* consistent and the rest of match_segments, for segment lists, scores    *)
(* and configurations of any size.                                         *)
THEOREM TypeCorrect == Spec => []TypeOK
<1>1. IInv => TypeOK
  BY DEF IInv
<1> QED
  BY <1>1, InitHands, NextHands, PTL DEF Spec

(* A run that match_segments reports is one alignment of the two videos    *)
(* and a match is long enough, for segment lists, scores and               *)
(* configurations of any size.                                             *)
THEOREM ReportsAlignments == Spec => []RunIsAlignment
<1>1. IInv => RunIsAlignment
  BY DEF IInv
<1> QED
  BY <1>1, InitHands, NextHands, PTL DEF Spec

---------------------------------------------------------------------------
(* Of sets of parts of a finite set, one has no other below it.            *)
LEMMA SmallestPart ==
  ASSUME NEW S, IsFiniteSet(S), NEW B, B \subseteq SUBSET S, B # {}
  PROVE  \E T \in B : \A U \in B : U \subseteq T => U = T
<1>1. B \subseteq FiniteSubsetsOf(S)
  BY FS_Subset DEF FiniteSubsetsOf
<1>2. IsWellFoundedOn(StrictSubsetOrdering(S), FiniteSubsetsOf(S))
  BY FS_StrictSubsetOrderingWellFounded
<1>3. PICK T \in B : \A U \in B : ~(<<U, T>> \in StrictSubsetOrdering(S))
  BY <1>1, <1>2, WFMin
<1>4. ASSUME NEW U \in B, U \subseteq T, U # T
      PROVE  <<U, T>> \in StrictSubsetOrdering(S)
  BY <1>4 DEF StrictSubsetOrdering
<1>5. \A U \in B : U \subseteq T => U = T
  BY <1>3, <1>4
<1> QED
  BY <1>5

---------------------------------------------------------------------------
(***************************************************************************)
(* The first and the last of finitely many pairs, by candidate index.      *)
(***************************************************************************)
LEMMA LastPair ==
  ASSUME NEW T, IsFiniteSet(T), T # {}, \A h \in T : h[1] \in Nat
  PROVE  \E h \in T : \A g \in T : g[1] <= h[1]
<1> DEFINE Later(h) == {g \in T : g[1] > h[1]}
           Tails == {Later(h) : h \in T}
<1>1. PICK U \in Tails : \A V \in Tails : V \subseteq U => V = U
  <2>1. Tails \subseteq SUBSET T /\ Tails # {}
    OBVIOUS
  <2> HIDE DEF Tails
  <2> QED
    BY <2>1, SmallestPart
<1>2. PICK h \in T : U = Later(h)
  OBVIOUS
<1>3. ASSUME NEW g \in T, g[1] > h[1]
      PROVE  FALSE
  <2>1. Later(g) \subseteq Later(h) /\ g \in Later(h) /\ g \notin Later(g)
    BY <1>3
  <2> QED
    BY <1>1, <1>2, <2>1
<1> QED
  BY <1>3

LEMMA FirstPair ==
  ASSUME NEW T, IsFiniteSet(T), T # {}, \A h \in T : h[1] \in Nat
  PROVE  \E h \in T : \A g \in T : h[1] <= g[1]
<1> DEFINE Before(h) == {g \in T : g[1] < h[1]}
           Heads == {Before(h) : h \in T}
<1>1. PICK U \in Heads : \A V \in Heads : V \subseteq U => V = U
  <2>1. Heads \subseteq SUBSET T /\ Heads # {}
    OBVIOUS
  <2> HIDE DEF Heads
  <2> QED
    BY <2>1, SmallestPart
<1>2. PICK h \in T : U = Before(h)
  OBVIOUS
<1>3. ASSUME NEW g \in T, g[1] < h[1]
      PROVE  FALSE
  <2>1. Before(g) \subseteq Before(h) /\ g \in Before(h) /\ g \notin Before(g)
    BY <1>3
  <2> QED
    BY <1>1, <1>2, <2>1
<1> QED
  BY <1>3

(* The hits are finitely many pairs of indexes.                            *)
LEMMA HitsAreFinite ==
  ASSUME TypeOK
  PROVE  IsFiniteSet(hits) /\ \A h \in hits : h[1] \in Nat /\ h[2] \in Nat
<1>1. hits \subseteq candidate \X target /\ candidate \subseteq Nat /\ target \subseteq Nat
  BY MatcherAssumption DEF TypeOK
<1>2. IsFiniteSet(candidate) /\ IsFiniteSet(target)
  BY MatcherAssumption DEF TypeOK
<1>3. IsFiniteSet(candidate \X target)
  BY <1>2, FS_Product
<1>4. IsFiniteSet(hits)
  BY <1>1, <1>3, FS_Subset
<1> QED
  BY <1>1, <1>4

(***************************************************************************)
(* On one offset, an alignment lies within one piece of ordered: a break   *)
(* between two of its pairs would be a gap the alignment does not have.    *)
(***************************************************************************)
LEMMA AlignmentsAreNotCut ==
  ASSUME TypeOK, NEW A, A # {}, A \subseteq ordered, Aligned(A),
         \A h \in ordered : h[2] - h[1] = offset
  PROVE  \E R \in Runs : A \subseteq R
<1>1. /\ ordered \subseteq hits /\ offset \in Int /\ config.max_index_gap \in Nat
  BY MatcherAssumption DEF TypeOK
<1>2. \A T \in SUBSET ordered : IsFiniteSet(T) /\ \A h \in T : h[1] \in Nat /\ h[2] \in Nat
  BY <1>1, HitsAreFinite, FS_Subset
<1>3. PICK a0 \in A : \A g \in A : a0[1] <= g[1]
  BY <1>2, FirstPair
<1>4. PICK first \in ordered : \A g \in ordered : first[1] <= g[1]
  BY <1>2, <1>3, FirstPair
<1>5. first[1] \in Nat /\ a0[1] \in Nat
  BY <1>2, <1>3
<1>6. StartsRun(first)
  <2>1. ASSUME NEW p \in ordered
        PROVE  ~(p[1] < first[1])
    <3>1. p[1] \in Nat /\ first[1] \in Nat /\ first[1] <= p[1]
      BY <1>2, <1>4
    <3> QED
      BY <3>1
  <2> QED
    BY <2>1 DEF StartsRun, Predecessor
<1> DEFINE Starts == {s \in ordered : StartsRun(s) /\ s[1] <= a0[1]}
<1>7. first \in Starts /\ Starts \subseteq ordered
  BY <1>3, <1>4, <1>6
<1>8. PICK s \in Starts : \A g \in Starts : g[1] <= s[1]
  <2> HIDE DEF Starts
  <2>1. Starts # {} /\ IsFiniteSet(Starts) /\ \A h \in Starts : h[1] \in Nat
    BY <1>2, <1>7
  <2> QED
    BY <2>1, LastPair
<1>9. ASSUME NEW h \in A, NEW b \in ordered, StartsRun(b), s[1] < b[1], b[1] <= h[1]
      PROVE  FALSE
  <2>1. b[1] \in Nat /\ s[1] \in Nat /\ h[1] \in Nat /\ b[2] \in Nat
    BY <1>2
  <2>2. a0[1] < b[1]
    <3>1. b[1] <= a0[1] => b \in Starts
      BY <1>9
    <3> QED
      BY <1>5, <1>8, <1>9, <2>1, <3>1
  <2>3. PICK a \in A : a[1] < b[1] /\ \A g \in A : g[1] < b[1] => g[1] <= a[1]
    <3> DEFINE T == {g \in A : g[1] < b[1]}
    <3>1. T # {} /\ T \subseteq ordered
      BY <1>3, <2>2
    <3>2. \E x \in T : \A g \in T : g[1] <= x[1]
      <4> HIDE DEF T
      <4> QED
        BY <1>2, <3>1, LastPair
    <3> QED
      BY <3>2
  <2>4. PICK n \in A : b[1] <= n[1] /\ \A g \in A : b[1] <= g[1] => n[1] <= g[1]
    <3> DEFINE T == {g \in A : b[1] <= g[1]}
    <3>1. T # {} /\ T \subseteq ordered
      BY <1>9
    <3>2. \E x \in T : \A g \in T : x[1] <= g[1]
      <4> HIDE DEF T
      <4> QED
        BY <1>2, <3>1, FirstPair
    <3> QED
      BY <3>2
  <2>5. PICK p \in ordered : p[1] < b[1] /\ \A g \in ordered : g[1] < b[1] => g[1] <= p[1]
    <3> DEFINE T == {g \in ordered : g[1] < b[1]}
    <3>1. T # {} /\ T \subseteq ordered
      BY <2>3
    <3>2. \E x \in T : \A g \in T : g[1] <= x[1]
      <4> HIDE DEF T
      <4> QED
        BY <1>2, <3>1, LastPair
    <3> QED
      BY <3>2
  <2>6. /\ a[1] \in Nat /\ n[1] \in Nat /\ p[1] \in Nat /\ p[2] \in Nat
        /\ \A g \in A : g[1] \in Nat
    BY <1>2
  <2>7. n[1] - a[1] <= config.max_index_gap
    <3>1. Follows(a, n, A)
      BY <2>1, <2>3, <2>4, <2>6 DEF Follows
    <3> QED
      BY <3>1 DEF Aligned
  <2>8. Predecessor(p, b)
    <3>1. \A q \in ordered : q[1] \in Nat
      BY <1>2
    <3> QED
      BY <2>1, <2>5, <2>6, <3>1 DEF Predecessor
  <2>9. Breaks(p, b)
    BY <1>9, <2>8 DEF StartsRun
  <2>10. a[1] <= p[1]
    BY <2>3, <2>5
  <2>11. p[2] - p[1] = offset /\ b[2] - b[1] = offset
    OBVIOUS
  <2>12. b[1] - p[1] <= config.max_index_gap
    BY <1>1, <2>1, <2>4, <2>6, <2>7, <2>10
  <2>13. p[2] <= b[2]
    BY <1>1, <2>1, <2>5, <2>6, <2>11
  <2> QED
    BY <1>1, <2>1, <2>6, <2>9, <2>12, <2>13 DEF Breaks
<1>10. A \subseteq RunFrom(s)
  <2> SUFFICES ASSUME NEW h \in A PROVE h \in RunFrom(s)
    OBVIOUS
  <2>1. s[1] <= a0[1] /\ a0[1] <= h[1] /\ s[1] \in Nat /\ h[1] \in Nat
    BY <1>2, <1>3
  <2>2. s[1] <= h[1]
    BY <1>5, <2>1
  <2> QED
    BY <1>9, <2>2 DEF RunFrom
<1>11. RunFrom(s) \in Runs
  BY DEF Runs
<1> QED
  BY <1>10, <1>11

---------------------------------------------------------------------------
(***************************************************************************)
(* The sum of match_segments' scores over a run.  MapThenSumSet folds with *)
(* a recursive function that removes one chosen element at a time: Adds    *)
(* says that g is such a function on the parts of S.  There is one, and on *)
(* a common part two of them agree: a smallest part to the contrary would  *)
(* have a smaller one.                                                     *)
(***************************************************************************)
Some(s) == CHOOSE x \in s : TRUE
Adds(g, f, S) ==
  g = [s \in SUBSET S |-> IF s = {} THEN 0 ELSE f[Some(s)] + g[s \ {Some(s)}]]

(* The element taken next, and what the sum is at one part.                *)
LEMMA SomeIsIn ==
  ASSUME NEW s, s # {}
  PROVE  Some(s) \in s
BY Zenon DEF Some

LEMMA AddsAt ==
  ASSUME NEW S, NEW f, NEW g, Adds(g, f, S), NEW s \in SUBSET S
  PROVE  g[s] = IF s = {} THEN 0 ELSE f[Some(s)] + g[s \ {Some(s)}]
<1> DEFINE R == [s0 \in SUBSET S |-> IF s0 = {} THEN 0 ELSE f[Some(s0)] + g[s0 \ {Some(s0)}]]
<1>1. g = R
  BY DEF Adds
<1>2. R[s] = IF s = {} THEN 0 ELSE f[Some(s)] + g[s \ {Some(s)}]
  OBVIOUS
<1> QED
  BY <1>1, <1>2

(* On a common part two sums agree.                                        *)
LEMMA SumsAgree ==
  ASSUME NEW S, NEW T, NEW f, NEW g, NEW k, IsFiniteSet(T), T \subseteq S,
         Adds(g, f, S), Adds(k, f, T)
  PROVE  g[T] = k[T]
<1> DEFINE B == {U \in SUBSET T : g[U] # k[U]}
<1>1. SUFFICES ASSUME B # {} PROVE FALSE
  OBVIOUS
<1>2. PICK U \in B : \A V \in B : V \subseteq U => V = U
  <2>1. B \subseteq SUBSET T
    OBVIOUS
  <2> HIDE DEF B
  <2> QED
    BY <1>1, <2>1, SmallestPart
<1>3. /\ g[U] = IF U = {} THEN 0 ELSE f[Some(U)] + g[U \ {Some(U)}]
      /\ k[U] = IF U = {} THEN 0 ELSE f[Some(U)] + k[U \ {Some(U)}]
  BY AddsAt
<1>4. CASE U = {}
  BY <1>3, <1>4
<1>5. CASE U # {}
  <2>1. Some(U) \in U
    BY <1>5, SomeIsIn
  <2>2. U \ {Some(U)} \notin B /\ U \ {Some(U)} \in SUBSET T
    BY <1>2, <2>1
  <2> QED
    BY <1>3, <1>5, <2>2
<1> QED
  BY <1>4, <1>5

(* There is a sum: each part adds one element to the sum of a smaller one. *)
LEMMA SumsExist ==
  ASSUME NEW S, IsFiniteSet(S), NEW f
  PROVE  \E g : Adds(g, f, S)
<1> DEFINE B == {T \in SUBSET S : ~\E g : Adds(g, f, T)}
<1>1. SUFFICES ASSUME B # {} PROVE FALSE
  OBVIOUS
<1>2. PICK T \in B : \A U \in B : U \subseteq T => U = T
  <2>1. B \subseteq SUBSET S
    OBVIOUS
  <2> HIDE DEF B
  <2> QED
    BY <1>1, <2>1, SmallestPart
<1> DEFINE G(u) == CHOOSE g : Adds(g, f, u)
           val(u) == G(u)[u]
           g0 == [s \in SUBSET T |-> IF s = {} THEN 0 ELSE f[Some(s)] + val(s \ {Some(s)})]
<1>3. ASSUME NEW u \in SUBSET T, u # T
      PROVE  Adds(G(u), f, u)
  <2>1. \E g : Adds(g, f, u)
    BY <1>2, <1>3
  <2> QED
    BY <2>1, Zenon
<1>4. ASSUME NEW u \in SUBSET T, u # T
      PROVE  g0[u] = val(u)
  <2>1. val(u) = IF u = {} THEN 0 ELSE f[Some(u)] + G(u)[u \ {Some(u)}]
    <3>1. Adds(G(u), f, u) /\ u \in SUBSET u
      BY <1>3, <1>4
    <3> HIDE DEF G
    <3> QED
      BY <3>1, AddsAt
  <2>2. ASSUME u # {}
        PROVE  G(u)[u \ {Some(u)}] = val(u \ {Some(u)})
    <3> DEFINE w == u \ {Some(u)}
    <3>1. w \subseteq u /\ w # T
      BY <1>4, <2>2, SomeIsIn
    <3>2. Adds(G(u), f, u) /\ Adds(G(w), f, w)
      BY <1>3, <1>4, <3>1
    <3>3. IsFiniteSet(w)
      BY <1>4, <3>1, FS_Subset
    <3> HIDE DEF G, w
    <3>4. G(u)[w] = G(w)[w]
      BY <3>1, <3>2, <3>3, SumsAgree
    <3> QED
      BY <3>4 DEF w
  <2>3. g0[u] = IF u = {} THEN 0 ELSE f[Some(u)] + val(u \ {Some(u)})
    <3> HIDE DEF val
    <3> QED
      OBVIOUS
  <2> HIDE DEF G, g0, val
  <2> QED
    BY <2>1, <2>2, <2>3
<1>5. Adds(g0, f, T)
  <2>1. ASSUME NEW s \in SUBSET T, s # {}
        PROVE  g0[s \ {Some(s)}] = val(s \ {Some(s)})
    <3>1. s \ {Some(s)} \in SUBSET T /\ s \ {Some(s)} # T
      BY <2>1, SomeIsIn
    <3> HIDE DEF g0, val
    <3> QED
      BY <1>4, <3>1
  <2>2. g0 = [s \in SUBSET T |-> IF s = {} THEN 0 ELSE f[Some(s)] + g0[s \ {Some(s)}]]
    <3> HIDE DEF val
    <3>1. ASSUME NEW h, h = g0, \A s \in SUBSET T : s # {} => h[s \ {Some(s)}] = val(s \ {Some(s)})
          PROVE  h = [s \in SUBSET T |-> IF s = {} THEN 0 ELSE f[Some(s)] + h[s \ {Some(s)}]]
      BY <3>1
    <3> QED
      BY <2>1, <3>1
  <2> QED
    BY <2>2 DEF Adds
<1> QED
  BY <1>2, <1>5

(* A sum of numbers that are t or more is t or more for each of them.      *)
LEMMA SumAtLeast ==
  ASSUME NEW S, IsFiniteSet(S), NEW f, NEW k, Adds(k, f, S),
         NEW t \in Int, \A h \in S : f[h] \in Int /\ f[h] >= t
  PROVE  k[S] >= t * Cardinality(S)
<1> DEFINE B == {U \in SUBSET S : ~(k[U] \in Int /\ k[U] >= t * Cardinality(U))}
<1>1. SUFFICES ASSUME B # {} PROVE FALSE
  OBVIOUS
<1>2. PICK U \in B : \A V \in B : V \subseteq U => V = U
  <2>1. B \subseteq SUBSET S
    OBVIOUS
  <2> HIDE DEF B
  <2> QED
    BY <1>1, <2>1, SmallestPart
<1>3. k[U] = IF U = {} THEN 0 ELSE f[Some(U)] + k[U \ {Some(U)}]
  <2>1. U \in SUBSET S
    OBVIOUS
  <2> HIDE DEF B
  <2> QED
    BY <2>1, AddsAt
<1>4. CASE U = {}
  BY <1>3, <1>4, FS_EmptySet
<1>5. CASE U # {}
  <2> DEFINE V == U \ {Some(U)}
  <2>1. Some(U) \in U /\ Some(U) \in S
    BY <1>5, SomeIsIn
  <2>2. V \in SUBSET S /\ V \notin B
    BY <1>2, <2>1
  <2>3. k[V] \in Int /\ k[V] >= t * Cardinality(V)
    BY <2>2
  <2>4. Cardinality(V) = Cardinality(U) - 1 /\ Cardinality(U) \in Nat
    BY <2>1, FS_Subset, FS_RemoveElement, FS_CardinalityType
  <2>5. k[U] = f[Some(U)] + k[V] /\ f[Some(U)] \in Int /\ f[Some(U)] >= t
    BY <1>3, <1>5, <2>1
  <2> HIDE DEF V
  <2>6. ASSUME NEW n \in Nat, NEW a \in Int, NEW b \in Int, a >= t, b >= t * (n - 1)
        PROVE  a + b >= t * n
    BY <2>6
  <2> QED
    BY <2>3, <2>4, <2>5, <2>6
<1> QED
  BY <1>4, <1>5

(* The mean over pairs that reach the threshold reaches it: the second     *)
(* test of a match only repeats the first, pair by pair.                   *)
LEMMA HitsAreSimilar ==
  ASSUME IInv, NEW R \in SUBSET hits
  PROVE  MeanIsSimilar(R)
<1> DEFINE k == CHOOSE k : k = [s \in SUBSET R |-> IF s = {} THEN 0
                                ELSE LET x == CHOOSE x \in s : TRUE
                                     IN  similarity[x] + k[s \ {x}]]
<1>1. MapThenSumSet(LAMBDA h : similarity[h], R) = k[R]
  BY Zenon DEF MapThenSumSet, MapThenFoldSet
<1>2. IsFiniteSet(R)
  BY HitsAreFinite, FS_Subset DEF IInv
<1>3. Adds(k, similarity, R)
  <2>1. PICK g : Adds(g, similarity, R)
    BY <1>2, SumsExist
  <2> QED
    BY <2>1, Zenon DEF Adds, Some
<1> HIDE DEF k
<1>4. \A h \in R : similarity[h] \in Int /\ similarity[h] >= Threshold
  BY MatcherAssumption DEF IInv, TypeOK, Matrices, Handed
<1>5. k[R] >= Threshold * Cardinality(R)
  BY <1>2, <1>3, <1>4, MatcherAssumption, SumAtLeast
<1> QED
  BY <1>1, <1>5, Zenon DEF MeanIsSimilar

---------------------------------------------------------------------------
(* With tolerance 0, ordered is every hit on the offset; the run is one of *)
(* the longest pieces, and its length alone decides.                       *)
OrderedIsOffset ==
  pc \in {"runs", "done"} /\ hits # {} /\ config.offset_tolerance_segments = 0 =>
    ordered = {h \in hits : h[2] - h[1] = offset}

RunIsLongest ==
  pc = "done" /\ hits # {} =>
    /\ \A S \in Runs : Cardinality(S) <= Cardinality(run)
    /\ matched <=> Cardinality(run) >= config.min_matched_segments

(* With tolerance 0 the best pairs are all pairs: none has a rival in its row. *)
LEMMA NextKeepsOffset == IInv /\ OrderedIsOffset /\ [Next]_vars => OrderedIsOffset'
<1> SUFFICES ASSUME IInv, OrderedIsOffset, [Next]_vars PROVE OrderedIsOffset'
  OBVIOUS
<1>1. CASE UNCHANGED vars
  BY <1>1 DEF OrderedIsOffset, vars, input
<1>2. CASE Reject
  BY <1>2 DEF Reject, IInv, Handed, OrderedIsOffset
<1>3. CASE Raise
  BY <1>3 DEF Raise, OrderedIsOffset
<1>4. CASE FindHits
  BY <1>4 DEF FindHits, OrderedIsOffset
<1>5. CASE VoteOnOffset
  BY <1>5 DEF VoteOnOffset, OrderedIsOffset
<1>6. CASE BestPerCandidate
  <2>1. SUFFICES ASSUME config.offset_tolerance_segments = 0
                 PROVE  ordered' = {h \in hits : h[2] - h[1] = offset}
    BY <1>6 DEF BestPerCandidate, OrderedIsOffset, input
  <2>2. ASSUME NEW h \in hits
        PROVE  h[1] \in Nat /\ h[2] \in Nat /\ h = <<h[1], h[2]>>
               /\ (Near(h) <=> h[2] - h[1] = offset)
    <3>1. h \in candidate \X target /\ offset \in Int
      BY DEF IInv, TypeOK
    <3>2. h[1] \in Nat /\ h[2] \in Nat /\ h = <<h[1], h[2]>>
      BY <3>1, MatcherAssumption DEF IInv, TypeOK
    <3> QED
      BY <2>1, <3>1, <3>2 DEF Near, Offset, Distance
  <2>3. ASSUME NEW g \in hits, NEW h \in hits, Near(g), Near(h), g[1] = h[1]
        PROVE  Preferred(g, h)
    <3>1. g = h
      BY <2>2, <2>3, MatcherAssumption DEF IInv, TypeOK
    <3> QED
      BY <2>2, <3>1 DEF Preferred
  <2> QED
    BY <1>6, <2>2, <2>3 DEF BestPerCandidate
<1>7. CASE ChooseRun
  BY <1>7 DEF ChooseRun, OrderedIsOffset, input
<1>8. CASE Done
  BY <1>1, <1>8 DEF Done
<1> QED
  BY <1>1, <1>2, <1>3, <1>4, <1>5, <1>6, <1>7, <1>8 DEF Next

(* ChooseRun takes a longest piece, and its mean is never in question.     *)
LEMMA NextKeepsLongest == IInv /\ RunIsLongest /\ [Next]_vars => RunIsLongest'
<1> SUFFICES ASSUME IInv, RunIsLongest, [Next]_vars PROVE RunIsLongest'
  OBVIOUS
<1>1. CASE UNCHANGED vars
  <2>1. pc' = pc /\ hits' = hits /\ run' = run /\ matched' = matched
    BY <1>1 DEF vars
  <2>2. Runs' = Runs /\ config' = config
    BY <1>1 DEF vars, input, Runs, RunFrom, StartsRun, Predecessor, Breaks
  <2> QED
    BY <2>1, <2>2 DEF RunIsLongest
<1>2. CASE Reject
  BY <1>2 DEF Reject, IInv, Handed, RunIsLongest
<1>3. CASE Raise
  BY <1>3 DEF Raise, RunIsLongest
<1>4. CASE FindHits
  BY <1>4 DEF FindHits, RunIsLongest
<1>5. CASE VoteOnOffset
  BY <1>5 DEF VoteOnOffset, RunIsLongest
<1>6. CASE BestPerCandidate
  BY <1>6 DEF BestPerCandidate, RunIsLongest
<1>7. CASE ChooseRun
  <2>1. PICK R \in Runs : /\ \A S \in Runs : Wins(R, S)
                          /\ run' = R /\ matched' = Enough(R)
    BY <1>7 DEF ChooseRun
  <2>2. Runs' = Runs /\ config' = config
    BY <1>7 DEF ChooseRun, input, Runs, RunFrom, StartsRun, Predecessor, Breaks
  <2>3. ASSUME NEW S \in Runs
        PROVE  Cardinality(S) <= Cardinality(R)
    <3>1. S \subseteq hits /\ R \subseteq hits
      BY DEF Runs, RunFrom, IInv, TypeOK
    <3>2. Cardinality(S) \in Nat /\ Cardinality(R) \in Nat
      BY <3>1, HitsAreFinite, FS_Subset, FS_CardinalityType DEF IInv
    <3> QED
      BY <2>1, <3>2 DEF Wins
  <2>4. MeanIsSimilar(R)
    BY HitsAreSimilar DEF Runs, RunFrom, IInv, TypeOK
  <2>5. matched' <=> Cardinality(R) >= config.min_matched_segments
    BY <2>1, <2>4 DEF Enough
  <2> QED
    BY <2>1, <2>2, <2>3, <2>5 DEF RunIsLongest
<1>8. CASE Done
  BY <1>1, <1>8 DEF Done
<1> QED
  BY <1>1, <1>2, <1>3, <1>4, <1>5, <1>6, <1>7, <1>8 DEF Next

(* With tolerance 0, match_segments misses no alignment on the dominant    *)
(* offset: the run it reports is as long as any, and when one is long      *)
(* enough the answer is a match.  For segment lists, scores and            *)
(* configurations of any size.                                             *)
THEOREM LongestIsReported == Spec => []NothingSustainedIsMissed
<1> DEFINE Both == IInv /\ OrderedIsOffset /\ RunIsLongest
<1>1. Init => Both
  BY InitHands DEF Init, OrderedIsOffset, RunIsLongest
<1>2. Both /\ [Next]_vars => Both'
  BY NextHands, NextKeepsOffset, NextKeepsLongest
<1>3. Both => NothingSustainedIsMissed
  <2> SUFFICES ASSUME Both, pc = "done", hits # {}, config.offset_tolerance_segments = 0,
                      NEW A \in SUBSET {h \in hits : h[2] - h[1] = offset}, Aligned(A)
               PROVE  /\ Cardinality(A) <= Cardinality(run)
                      /\ Cardinality(A) >= config.min_matched_segments => matched
    BY DEF NothingSustainedIsMissed
  <2>1. ordered = {h \in hits : h[2] - h[1] = offset}
    BY DEF OrderedIsOffset
  <2>2. \A T \in SUBSET hits : IsFiniteSet(T) /\ Cardinality(T) \in Nat
    BY HitsAreFinite, FS_Subset, FS_CardinalityType DEF IInv
  <2>3. run \subseteq hits /\ A \subseteq hits
    BY DEF IInv, TypeOK
  <2>4. Cardinality(A) <= Cardinality(run)
    <3>1. CASE A = {}
      BY <2>2, <2>3, <3>1, FS_EmptySet
    <3>2. CASE A # {}
      <4>1. PICK R \in Runs : A \subseteq R
        BY <2>1, <3>2, AlignmentsAreNotCut DEF IInv
      <4>2. R \subseteq hits
        BY <2>1 DEF Runs, RunFrom
      <4>3. Cardinality(A) <= Cardinality(R)
        BY <2>2, <4>1, <4>2, FS_Subset
      <4>4. Cardinality(R) <= Cardinality(run)
        BY DEF RunIsLongest
      <4> QED
        BY <2>2, <2>3, <4>2, <4>3, <4>4
    <3> QED
      BY <3>1, <3>2
  <2>5. config.min_matched_segments \in Nat
    BY MatcherAssumption DEF IInv, TypeOK
  <2>6. Cardinality(A) >= config.min_matched_segments => matched
    BY <2>2, <2>3, <2>4, <2>5 DEF RunIsLongest
  <2> QED
    BY <2>4, <2>6
<1> QED
  BY <1>1, <1>2, <1>3, PTL DEF Spec

=============================================================================
