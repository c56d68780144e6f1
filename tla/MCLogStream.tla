----------------------------- MODULE MCLogStream -----------------------------
(* One listener of the live log, for the subscriptions that are refused.       *)
EXTENDS LogStream

CONSTANT l1

=============================================================================
