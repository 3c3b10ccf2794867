--------------------------- MODULE MCCoordinator ---------------------------
(* Small instances of Coordinator: two workers, one of which is started    *)
(* again under the boot id it had.                                         *)
EXTENDS Coordinator

CONSTANTS w1, w2, b1, b2

MCProcs ==
  { [worker |-> w1, boot |-> b1, nr |-> 1],
    [worker |-> w1, boot |-> b1, nr |-> 2],
    [worker |-> w2, boot |-> b2, nr |-> 1] }

=============================================================================
