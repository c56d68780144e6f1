------------------------- MODULE MCEvidenceCampaign -------------------------
(* A campaign in a new directory, for the identity of the models it accepts. *)
EXTENDS EvidenceCampaign

=============================================================================
