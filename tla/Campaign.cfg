\* One fault and one interrupt, neither of which the counterexample needs.
SPECIFICATION Spec
CONSTANTS
    Cycles = 3
    MaxCampaigns = 1
    MaxInterrupts = 1
    MaxFaults = 1
INVARIANT ReclamationIsVerified
CHECK_DEADLOCK FALSE
