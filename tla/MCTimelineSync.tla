--------------------------- MODULE MCTimelineSync ---------------------------
(* TimelineSync with interchangeable requests, for its safety properties.  *)
EXTENDS TimelineSync, TLC

RequestSymmetry == Permutations(Requests)
=============================================================================
