------------------------- MODULE MCTemporalMatcher -------------------------
(* Small instances of TemporalMatcher for TLC. *)
EXTENDS TemporalMatcher

\* A contiguous list, a filtered one, and no segments at all.
SomeCandidates == {{0, 1, 2}, {0, 2, 3}, {}}
SomeTargets == {{0, 1, 2}, {0, 2, 3}, {}}
Scores == 0..2
SomeConfigs ==
  {[min_matched_segments |-> 2, offset_tolerance_segments |-> t, max_index_gap |-> g] :
     t \in 0..1, g \in 1..2}
=============================================================================
