------------------------- MODULE MCWorkerTransport -------------------------
(***************************************************************************)
(* A constructor, a generation with a long line, a drain and two threads    *)
(* that close.                                                              *)
(***************************************************************************)
EXTENDS WorkerTransport

CONSTANTS load, g1, d1, s1, s2

MCCommandOf == [c \in Requests |-> IF c = d1 THEN "drain" ELSE "generate"]

=============================================================================
