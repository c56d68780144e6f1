--------------------------- MODULE MCRuntimeGate ---------------------------
(***************************************************************************)
(* An instance of RuntimeGate for TLC: four requests, r1 and r2 without a   *)
(* deadline.                                                                *)
(***************************************************************************)
EXTENDS RuntimeGate

CONSTANTS r1, r2, r3, r4

=============================================================================
