------------------------- MODULE MCStateIndexEngine -------------------------
(* Small instances of StateIndexEngine.  Record ids, boots and workers are *)
(* interchangeable: no operation compares or orders them.                  *)
EXTENDS StateIndexEngine, TLC

Symmetry == Permutations(RecordIds) \cup Permutations(Boots) \cup Permutations(Workers)

=============================================================================
