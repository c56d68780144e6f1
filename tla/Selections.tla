----------------------------- MODULE Selections -----------------------------
(***************************************************************************)
(* The elements of a sequence that belong to a set, in their order: what a *)
(* list comprehension with a filter leaves of a queue.                     *)
(***************************************************************************)
EXTENDS Integers, Sequences

Only(s, S) ==
  LET kept[i \in 0..Len(s)] ==
        IF i = 0 THEN << >>
        ELSE IF s[i] \in S THEN Append(kept[i - 1], s[i]) ELSE kept[i - 1]
  IN  kept[Len(s)]

=============================================================================
