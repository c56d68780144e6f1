--------------------- MODULE MCGlobalExecutionGovernor ---------------------
(***************************************************************************)
(* Instances of GlobalExecutionGovernor for TLC: up to four submissions    *)
(* (w1, w2, w3 for runtime A, w4 for runtime B).                           *)
(***************************************************************************)
EXTENDS GlobalExecutionGovernor

CONSTANTS w1, w2, w3, w4, i1, i2, i3, i4, A, B

\* Every submission has its own id, as the uuids of the callers.
MCIdDistinct ==
  [w \in Waiter |-> CASE w = w1 -> i1 [] w = w2 -> i2 [] w = w3 -> i3 [] OTHER -> i4]

\* w2 uses the id of w1 again, for the same runtime.
MCIdReused ==
  [w \in Waiter |-> CASE w \in {w1, w2} -> i1 [] w = w3 -> i3 [] OTHER -> i4]

MCRuntimeOf == [w \in Waiter |-> IF w = w4 THEN B ELSE A]

\* Every runtime runs one execution at a time.
MCCapOne == [w \in Waiter |-> 1]

\* A reload has raised the limit of A from 1 to 2 before w3 is submitted.
MCCapRaised == [w \in Waiter |-> IF w = w3 THEN 2 ELSE 1]

=============================================================================
