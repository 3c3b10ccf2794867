------------------------- MODULE MCLocationRecovery -------------------------
(* LocationRecovery with placements that are alike.  An engine that a      *)
(* failed load left half filled stays one until its process dies, and the  *)
(* properties say nothing of it or of the files it writes: such states are *)
(* reached and not followed further.                                       *)
EXTENDS LocationRecovery, TLC

PlacementSymmetry == Permutations(Placements)

NotHalfLoaded == ~halfLoaded

=============================================================================
