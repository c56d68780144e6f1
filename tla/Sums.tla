-------------------------------- MODULE Sums --------------------------------
(***************************************************************************)
(* What a function adds up to over a finite set.                           *)
(***************************************************************************)
EXTENDS FiniteSetsExt

Total(f, S) == MapThenSumSet(LAMBDA x : f[x], S)

=============================================================================
