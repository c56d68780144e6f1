----------------------- MODULE MCModelRuntimeManager -----------------------
(***************************************************************************)
(* The instance of ModelRuntimeManager for TLC: two attempts for model A    *)
(* and one for B, which share a model id.  The budget has room for one      *)
(* engine of a known size, so that a2 and b1 exclude each other; the size   *)
(* of a1 is not known, so that each of a1 and a2 may replace the other.     *)
(***************************************************************************)
EXTENDS ModelRuntimeManager

CONSTANTS a1, a2, b1, A, B, C, idA, idB, idC

MCKeyOf == [l \in Load |-> IF l \in {a1, a2} THEN A ELSE B]

MCModelIdOf == [k \in Key |-> IF k \in {A, B} THEN idA ELSE idC]

MCSize == [l \in Load |-> IF l = a1 THEN None ELSE 1]

=============================================================================
