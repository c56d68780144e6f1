\* Downloads and receipts, backup and restore, reports, model sources, evidence, memory.
SPECIFICATION StoresSpec
CONSTANTS
    Runtimes = {"ka", "kb"}
    Requests = {"r1"}
    RuntimeConfigs <- MCRuntimeConfigs
    RequestConfigs <- MCRequestConfigs
    Limit = 8
    Headroom = 1
    Observed = {1, 4}
    Downloaders = {"d1", "d2"}
    Revisions = {"r1", "r2"}
    Pinned = "r1"
    NoDigest = "none"
    VerifyExisting = TRUE
    Size = 2
    MaxRetries = 2
    Tries = 2
    Edits = 1
    Kept = {"one", "future"}
    Values = {1, 2}
    MaxSaves = 1
    MaxJobs = 2
    Runs = {"ra", "rb"}
    Samples = {"s1"}
    TestSets = {"c1", "c2"}
    Configs <- MCConfigs
    AskedPolicies = {"off"}
    MaxLoads = 2
    MaxEdits = 1
    Entries <- MCEntries
    Explicit = {"none", "local", "hub"}
    MaxChanges = 1
    \* A second campaign finds the files of the first.
    Cycles = 3
    MaxCampaigns = 2
    MaxInterrupts = 2
    MaxFaults = 1
    \* Two reports are enough for a review, and one fault, and one change of identity.
    ReportCycles = 2
    MinReports = 2
    MinCycles = 4
    MaxReports = 2
    ReportFaults = 1
    IdentityChanges = 1
INVARIANTS
    PublishedIsWhole
    FilesAreWhole
    AttributionIsSound
    SourcesAgree
    EvidenceIsEarned
    WithinBudget
    OwnersAreAccounted
\* Exhausted bounds leave nothing to do.
CHECK_DEADLOCK FALSE
