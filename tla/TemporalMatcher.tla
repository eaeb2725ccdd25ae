--------------------------- MODULE TemporalMatcher ---------------------------
(***************************************************************************)
(* match_segments of matching/matcher.py: does a candidate video contain a *)
(* stretch of the target?  Segments are known by their segment_index, and  *)
(* of two vectors only their cosine similarity matters.  Each variable is  *)
(* one local of the function, each action one of its paragraphs.           *)
(***************************************************************************)
EXTENDS Integers, FiniteSets, FiniteSetsExt

CONSTANTS
  CandidateLists, TargetLists,   (* sets of segment indexes                *)
  Similarities,                  (* the values cosine similarity takes     *)
  Threshold,                     (* segment_similarity_threshold           *)
  Screens,                       (* what the checks before the matrix say  *)
  Configs                        (* the other fields of MatcherConfig      *)

ASSUME MatcherAssumption ==
  /\ CandidateLists \union TargetLists \subseteq SUBSET Nat
  /\ \A list \in CandidateLists \union TargetLists : IsFiniteSet(list)
  /\ Similarities \subseteq Int /\ Threshold \in Int
  /\ Screens \subseteq {"passed", "failed", "malformed"}
  /\ Configs \subseteq [min_matched_segments : Nat, offset_tolerance_segments : Nat,
                        max_index_gap : Nat]

VARIABLES
  candidate, target,   (* the segment indexes of the two videos            *)
  similarity,          (* sim_matrix, <<>> before it is computed           *)
  config,
  pc,                  (* the next paragraph; done and raised are the ends *)
  hits,                (* <<candidate index, target index>> pairs          *)
  offset,              (* dominant_offset                                  *)
  ordered,             (* best_per_candidate, sorted                       *)
  run,                 (* best_run                                         *)
  matched

input == <<candidate, target, similarity, config>>
vars == <<input, pc, hits, offset, ordered, run, matched>>

Init ==
  /\ candidate \in CandidateLists /\ target \in TargetLists
  /\ config \in Configs
  /\ similarity = <<>>
  /\ pc = "screen"
  /\ hits = {} /\ offset = 0 /\ ordered = {} /\ run = {} /\ matched = FALSE

Offset(h) == h[2] - h[1]
Distance(m, n) == IF m > n THEN m - n ELSE n - m

\* hits is filled row by row.
Earlier(g, h) == g[1] < h[1] \/ (g[1] = h[1] /\ g[2] <= h[2])

---------------------------------------------------------------------------
(* Slips the runs must notice: wrong versions of operators below.          *)
PreferredTies(g, h) == similarity[g] >= similarity[h]
BreaksNever(p, h) == FALSE
WinsFirst(R, S) == \E h \in R : \A g \in S : h[1] <= g[1]

---------------------------------------------------------------------------
(* Empty input and a coarse_screen that fails give _empty_result; segments *)
(* out of order or of mixed dimensions raise ValueError.                   *)

Nothing == candidate = {} \/ target = {}

Reject ==
  /\ pc = "screen"
  /\ Nothing \/ "failed" \in Screens
  /\ pc' = "done"
  /\ UNCHANGED <<input, hits, offset, ordered, run, matched>>

Raise ==
  /\ pc = "screen" /\ ~Nothing /\ "malformed" \in Screens
  /\ pc' = "raised"
  /\ UNCHANGED <<input, hits, offset, ordered, run, matched>>

Matrices == [candidate \X target -> Similarities]

FindHits ==
  /\ pc = "screen" /\ ~Nothing /\ "passed" \in Screens
  /\ similarity' \in Matrices
  /\ hits' = {h \in candidate \X target : similarity'[h] >= Threshold}
  /\ pc' = IF hits' = {} THEN "done" ELSE "offset"
  /\ UNCHANGED <<candidate, target, config, offset, ordered, run, matched>>

---------------------------------------------------------------------------
(* The dominant offset: max over a Counter, so the first of several.       *)

Votes(d) == Cardinality({h \in hits : Offset(h) = d})

Offsets == {Offset(h) : h \in hits}

SeenFirst(d, e) ==
  \E h \in hits : Offset(h) = d /\ \A g \in hits : Offset(g) = e => Earlier(h, g)

Dominant(d) ==
  \A e \in Offsets : \/ Votes(e) < Votes(d)
                     \/ Votes(e) = Votes(d) /\ SeenFirst(d, e)

VoteOnOffset ==
  /\ pc = "offset"
  /\ \E d \in Offsets : Dominant(d) /\ offset' = d
  /\ pc' = "best"
  /\ UNCHANGED <<input, hits, ordered, run, matched>>

---------------------------------------------------------------------------
(* One target per candidate segment, the most similar of those that are    *)
(* consistent with the offset; the first one wins a tie.                   *)

Near(h) == Distance(Offset(h), offset) <= config.offset_tolerance_segments

Preferred(g, h) ==
  similarity[g] > similarity[h] \/ (similarity[g] = similarity[h] /\ g[2] <= h[2])

BestPerCandidate ==
  /\ pc = "best"
  /\ LET consistent == {h \in hits : Near(h)} IN
     ordered' = {h \in consistent : \A g \in consistent : g[1] = h[1] => Preferred(h, g)}
  /\ pc' = "runs"
  /\ UNCHANGED <<input, hits, offset, run, matched>>

---------------------------------------------------------------------------
(* ordered is cut where the candidate index jumps or the target goes back; *)
(* the first of the longest pieces is the match.                           *)

Predecessor(p, h) ==
  p \in ordered /\ p[1] < h[1] /\ ~\E q \in ordered : p[1] < q[1] /\ q[1] < h[1]

Breaks(p, h) == h[1] - p[1] > config.max_index_gap \/ h[2] < p[2]

StartsRun(h) == h \in ordered /\ \A p \in ordered : Predecessor(p, h) => Breaks(p, h)

RunFrom(s) ==
  {h \in ordered : s[1] <= h[1] /\ ~\E b \in ordered :
                     StartsRun(b) /\ s[1] < b[1] /\ b[1] <= h[1]}

Runs == {RunFrom(s) : s \in {h \in ordered : StartsRun(h)}}

\* max(runs, key=len): R wins against S.
Wins(R, S) ==
  \/ Cardinality(R) > Cardinality(S)
  \/ Cardinality(R) = Cardinality(S) /\ \E h \in R : \A g \in S : h[1] <= g[1]

MeanIsSimilar(R) == MapThenSumSet(LAMBDA h : similarity[h], R) >= Threshold * Cardinality(R)

Enough(R) == Cardinality(R) >= config.min_matched_segments /\ MeanIsSimilar(R)

ChooseRun ==
  /\ pc = "runs"
  /\ \E R \in Runs : /\ \A S \in Runs : Wins(R, S)
                     /\ run' = R
                     /\ matched' = Enough(R)
  /\ pc' = "done"
  /\ UNCHANGED <<input, hits, offset, ordered>>

Done == pc \in {"done", "raised"} /\ UNCHANGED vars

Next == Reject \/ Raise \/ FindHits \/ VoteOnOffset \/ BestPerCandidate \/ ChooseRun \/ Done

Spec == Init /\ [][Next]_vars

---------------------------------------------------------------------------
(* The match is made of hits, and of one pair per candidate segment: this  *)
(* is what best_per_candidate is for.                                      *)
TypeOK ==
  /\ candidate \in CandidateLists /\ target \in TargetLists
  /\ config \in Configs
  /\ similarity \in Matrices \union {<<>>} /\ (hits # {} => similarity \in Matrices)
  /\ pc \in {"screen", "offset", "best", "runs", "done", "raised"}
  /\ hits \subseteq candidate \X target /\ offset \in Int
  /\ ordered \subseteq hits /\ run \subseteq ordered /\ matched \in BOOLEAN
  /\ \A g, h \in ordered : g[1] = h[1] => g = h

Follows(p, h, R) == p[1] < h[1] /\ ~\E q \in R : p[1] < q[1] /\ q[1] < h[1]

Aligned(R) ==
  \A p, h \in R : Follows(p, h, R) => h[1] - p[1] <= config.max_index_gap /\ p[2] <= h[2]

(* A reported run is one alignment of the two videos: every pair reaches   *)
(* the threshold and lies within the tolerance of one offset, and from one *)
(* pair to the next the candidate advances by at most max_index_gap and    *)
(* the target never goes back.  A match has the required number of them.   *)
(* (match_segments, from the vote to the decision)                         *)
RunIsAlignment ==
  /\ \A h \in run : /\ similarity[h] >= Threshold
                    /\ Distance(h[2] - h[1], offset) <= config.offset_tolerance_segments
  /\ Aligned(run)
  /\ matched => Cardinality(run) >= config.min_matched_segments

(* With tolerance 0 no alignment on the dominant offset is longer than the *)
(* reported run, so a copy with enough segments on that offset is matched. *)
(* (the cut into runs and max(runs, key=len))                              *)
NothingSustainedIsMissed ==
  pc = "done" /\ hits # {} /\ config.offset_tolerance_segments = 0 =>
    \A A \in SUBSET {h \in hits : h[2] - h[1] = offset} : Aligned(A) =>
      /\ Cardinality(A) <= Cardinality(run)
      /\ Cardinality(A) >= config.min_matched_segments => matched

=============================================================================
