--------------------------- MODULE MCNewCacheMemory ---------------------------
(***************************************************************************)
(* Model checking of NewCacheMemory: two requesters with a half of the     *)
(* memory each, lines of both that have the same logical index, two lines  *)
(* of one requester that compete for one, and interchangeable slots.       *)
(***************************************************************************)
EXTENDS NewCacheMemory, TLC

MCOwnerOf == [l \in Line |-> IF l < 3 THEN 0 ELSE 1]

Symmetry == Permutations(Slot)
=============================================================================
