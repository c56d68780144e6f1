------------------------ MODULE GovernorRoundRobin ------------------------
(***************************************************************************)
(* GlobalExecutionGovernor with a history of the turns runtimes have taken, *)
(* to state its fairness between runtimes (test_global_execution_governor,  *)
(* test_round_robin_fairness_prevents_one_runtime_from_starving_another).   *)
(***************************************************************************)
EXTENDS GlobalExecutionGovernor

VARIABLE
  turns  \* the runtimes that had a turn while a runtime was eligible and had none

CanRun == {rt \in Runtime : Eligible(Pool, rt, clock)}

TookTurn == {rt \in Runtime : RunningOn(rt)' \ RunningOn(rt) # {}}

RRInit == Init /\ turns = [rt \in Runtime |-> {}]

RRNext ==
  /\ Next
  /\ turns' = [rt \in Runtime |->
       IF rt \in CanRun \cap CanRun' /\ rt \notin TookTurn
       THEN turns[rt] \cup TookTurn ELSE {}]

RRSpec == RRInit /\ [][RRNext]_<<vars, turns>>

\* What takes a turn, when a runtime that could run has none.
TurnIsDue == \A rt \in CanRun \cap CanRun' : rt \notin TookTurn => turns[rt] \cap TookTurn = {}

\* Round robin: while a runtime has work that could run, no other runtime takes
\* a second turn before it has had its own.
NoSecondTurn == [][TurnIsDue]_<<vars, turns>>

=============================================================================
