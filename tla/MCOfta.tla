-------------------------------- MODULE MCOfta --------------------------------
(* Two places in the target; segments of two records, so that the         *)
(* file grows twice.                                                       *)
EXTENDS Ofta
CONSTANTS b1, b2
TwoBacktraces == {b1, b2}
=============================================================================
