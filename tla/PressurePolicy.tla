--------------------------- MODULE PressurePolicy ---------------------------
(***************************************************************************)
(* residency_pressure.py: the policy that turns sampled memory pressure     *)
(* into at most one attempt at an eviction per episode of pressure.  The    *)
(* samples are kept beside it, so that the episodes can be told from them.  *)
(***************************************************************************)
EXTENDS Integers, Sequences

CONSTANTS
    Trigger, Clear,                \* ranks of trigger_pressure and clear_pressure
    TriggerSamples, ClearSamples,
    MaxSamples                     \* bound: samples taken

VARIABLES
    policy,   \* [state, trigger, clear]: PressureEvictionPolicy
    samples,  \* ranks 0 to 2, or Unknown
    attempts  \* samples at which the policy triggered

vars == <<policy, samples, attempts>>

Unknown == -1
Ranks == 0..2

TypeOK ==
    /\ policy.state \in {"normal", "watching", "triggered"}
    /\ policy.trigger \in 0..TriggerSamples /\ policy.clear \in 0..ClearSamples
    /\ samples \in Seq(Ranks \cup {Unknown}) /\ attempts \subseteq 1..Len(samples)

\* PressurePolicySettings refuses any others.
Settings == Clear < Trigger /\ TriggerSamples >= 1 /\ ClearSamples >= 1

Init ==
    /\ Settings
    /\ policy = [state |-> "normal", trigger |-> 0, clear |-> 0]
    /\ samples = <<>> /\ attempts = {}

\* An unknown sample breaks the streaks and ends no episode.
Unsure(p) == [p EXCEPT !.trigger = 0, !.clear = 0]

\* While triggered: re-armed after enough samples at or below Clear.
Calming(p, rank) ==
    IF rank > Clear THEN [p EXCEPT !.clear = 0]
    ELSE IF p.clear + 1 < ClearSamples THEN [p EXCEPT !.clear = @ + 1]
    ELSE [state |-> "normal", trigger |-> 0, clear |-> 0]

\* Otherwise: enough samples at or above Trigger begin an episode.
Rising(p, rank) ==
    IF rank < Trigger THEN [state |-> "normal", trigger |-> 0, clear |-> 0]
    ELSE [state |-> IF p.trigger + 1 >= TriggerSamples THEN "triggered" ELSE "watching",
          trigger |-> p.trigger + 1, clear |-> 0]

Observed(rank) ==
    IF rank = Unknown THEN Unsure(policy)
    ELSE IF policy.state = "triggered" THEN Calming(policy, rank)
    ELSE Rising(policy, rank)

Observe ==
    /\ Len(samples) < MaxSamples
    /\ \E rank \in Ranks \cup {Unknown} :
          /\ samples' = Append(samples, rank)
          /\ policy' = Observed(rank)
    /\ attempts' = IF policy.state # "triggered" /\ policy'.state = "triggered"
                   THEN attempts \cup {Len(samples')} ELSE attempts

Next == Observe

Spec == Init /\ [][Next]_vars

-----------------------------------------------------------------------------
(* Properties. *)

\* The n samples up to the i-th lie within the ranks R.
Streak(i, n, R) == i >= n /\ \A j \in (i - n + 1)..i : samples[j] \in R

High == Trigger..2
Low == 0..Clear

\* The policy acts exactly where the samples say that an episode begins: after enough
\* high samples in a row, once, and again only after enough low ones in a row; unknown
\* samples neither begin nor end an episode ("one bounded action per pressure episode").
EpisodesAreOfTheSamples ==
    \A i \in 1..Len(samples) :
        LET earlier == {a \in attempts : a < i}
            cleared(a) == \E c \in (a + ClearSamples)..(i - TriggerSamples) :
                             Streak(c, ClearSamples, Low)
        IN  i \in attempts <=> /\ Streak(i, TriggerSamples, High)
                               /\ \A a \in earlier : cleared(a)

=============================================================================
