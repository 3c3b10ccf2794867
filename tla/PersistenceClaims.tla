------------------------- MODULE PersistenceClaims -------------------------
(***************************************************************************)
(* Statements of the documentation and the tests about saving and          *)
(* recovering that the code does not keep, each refuted by a behaviour of  *)
(* Persistence in a run of its own.                                        *)
(***************************************************************************)
EXTENDS Persistence

(* tests/test_persistence.cpp:86 "Logical query results identical" after a *)
(* save and a load: what save wrote, load accepts.  load refuses two       *)
(* records of one state and generation, which the engine itself accepts    *)
(* after an invalidation or a restart.                                     *)
SavedImageLoads ==
  disk.kind = "image" => Repeated(disk) = {}

(* README.md:163 "Writes are atomic: temp, flush, close, rename": a whole  *)
(* image on disk is only ever replaced by a whole image.  A write that     *)
(* fails is renamed over it all the same.                                  *)
WritesAreAtomic ==
  [][disk.kind = "image" => disk'.kind = "image"]_persistVars

=============================================================================
