------------------------ MODULE MCRequestExecution ------------------------
(***************************************************************************)
(* Instances of RequestExecution for TLC.                                  *)
(***************************************************************************)
EXTENDS RequestExecution

CONSTANTS h1, h2, h3, t1, e1, ka, kb

MCKeyOf == [r \in Request |-> IF r \in {h3} THEN kb ELSE ka]

MCCap == [k \in Key |-> 1]

MCMaxResidency == [k \in Key |-> IF k = ka THEN 2 ELSE 1]

MCNeed == [r \in Request |-> IF r = h3 THEN None ELSE 1]

=============================================================================
