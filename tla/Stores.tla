-------------------------------- MODULE Stores --------------------------------
(***************************************************************************)
(* The components that keep files, side by side: each is an instance over   *)
(* constants and variables of its own, and they share no state.  A          *)
(* behaviour is of the one that `component` names; the variables of the      *)
(* others stay as they are.                                                  *)
(***************************************************************************)
EXTENDS Integers, Sequences, FiniteSets

CONSTANTS
    Downloaders, Revisions, Pinned, NoDigest, VerifyExisting, Size,    \* ArtifactDownload
    MaxRetries, Tries, Edits,
    Kept, Values, MaxSaves, MaxJobs,                                   \* StateBackup
    Runs, Samples, TestSets, Configs, AskedPolicies, MaxLoads, MaxEdits,  \* EvaluationRuns
    Entries, Explicit, MaxChanges,                                     \* ModelSources
    Cycles, MaxCampaigns, MaxInterrupts, MaxFaults,                    \* EvidenceCampaign
    ReportCycles, MinReports, MinCycles, MaxReports,                   \* MultiModelEvidence
    ReportFaults, IdentityChanges

VARIABLES
    component,
    content, part, dest, proc, tries, edits, hashing, receipt, doubts,
    online, file, temp, staged, writer, archive, job, before, saves, jobs,
    data, current, runtime, resident, loads, replaced, run, saved,
    entry, explicit, offered, disk, cfg, kept, engine, changes,
    step, phases, verdict, dir, server, draft, exit, tally,
    stage, manager, asked, report, reports, world

Download == INSTANCE ArtifactDownload

Backup == INSTANCE StateBackup

Evaluations == INSTANCE EvaluationRuns WITH
    Contents <- TestSets, disk <- current, edits <- replaced

Sources == INSTANCE ModelSources

Campaign == INSTANCE EvidenceCampaign

MultiModel == INSTANCE MultiModelEvidence WITH
    Cycles <- ReportCycles, MaxFaults <- ReportFaults, MaxChanges <- IdentityChanges,
    requests <- asked

-----------------------------------------------------------------------------
(* Which component a behaviour is of. *)

downloadVars == <<content, part, dest, proc, tries, edits, hashing, receipt, doubts>>
backupVars == <<online, file, temp, staged, writer, archive, job, before, saves, jobs>>
evaluationVars == <<data, current, runtime, resident, loads, replaced, run, saved>>
sourceVars == <<entry, explicit, offered, disk, cfg, kept, engine, changes>>
campaignVars == <<step, phases, verdict, dir, server, draft, exit, tally>>
multiModelVars == <<stage, manager, asked, report, reports, world>>
storesVars == <<component, downloadVars, backupVars, evaluationVars, sourceVars, campaignVars,
                multiModelVars>>

\* The variables of a component that the behaviour is not of.
NoDownload == /\ content = 0 /\ part = 0 /\ dest = 0 /\ proc = 0
              /\ tries = 0 /\ edits = 0 /\ hashing = 0 /\ receipt = 0 /\ doubts = 0
NoBackup == /\ online = 0 /\ file = 0 /\ temp = 0 /\ staged = 0 /\ writer = 0
            /\ archive = 0 /\ job = 0 /\ before = 0 /\ saves = 0 /\ jobs = 0
NoEvaluations == /\ data = 0 /\ current = 0 /\ runtime = 0 /\ resident = 0
                 /\ loads = 0 /\ replaced = 0 /\ run = 0 /\ saved = 0
NoSources == /\ entry = 0 /\ explicit = 0 /\ offered = 0 /\ disk = 0
             /\ cfg = 0 /\ kept = 0 /\ engine = 0 /\ changes = 0
NoCampaign == /\ step = 0 /\ phases = 0 /\ verdict = 0 /\ dir = 0
              /\ server = 0 /\ draft = 0 /\ exit = 0 /\ tally = 0
NoMultiModel == stage = 0 /\ manager = 0 /\ asked = 0 /\ report = 0 /\ reports = 0 /\ world = 0

KeptInit ==
    /\ IF component = "download" THEN Download!Init ELSE NoDownload
    /\ IF component = "backup" THEN Backup!Init ELSE NoBackup
    /\ IF component = "evaluations" THEN Evaluations!Init ELSE NoEvaluations
    /\ IF component = "sources" THEN Sources!Init ELSE NoSources
    /\ IF component = "campaign" THEN Campaign!Init ELSE NoCampaign
    /\ IF component = "multimodel" THEN MultiModel!Init ELSE NoMultiModel

KeptNext ==
    \/ /\ component = "download" /\ Download!Next
       /\ UNCHANGED <<component, backupVars, evaluationVars, sourceVars, campaignVars, multiModelVars>>
    \/ /\ component = "backup" /\ Backup!Next
       /\ UNCHANGED <<component, downloadVars, evaluationVars, sourceVars, campaignVars, multiModelVars>>
    \/ /\ component = "evaluations" /\ Evaluations!Next
       /\ UNCHANGED <<component, downloadVars, backupVars, sourceVars, campaignVars, multiModelVars>>
    \/ /\ component = "sources" /\ Sources!Next
       /\ UNCHANGED <<component, downloadVars, backupVars, evaluationVars, campaignVars, multiModelVars>>
    \/ /\ component = "campaign" /\ Campaign!Next
       /\ UNCHANGED <<component, downloadVars, backupVars, evaluationVars, sourceVars, multiModelVars>>
    \/ /\ component = "multimodel" /\ MultiModel!Next
       /\ UNCHANGED <<component, downloadVars, backupVars, evaluationVars, sourceVars, campaignVars>>

KeptSpec == KeptInit /\ [][KeptNext]_storesVars

-----------------------------------------------------------------------------
(* Properties: those of the components. *)

\* What bears a model's name is whole, whatever dropped connections, retries and kills
\* led to it, but for the doubts about it that are named (downloader.py), and a receipt
\* that matches a file and was not overtaken vouches for what it holds
\* (artifact_verification.py).
PublishedIsWhole ==
    component = "download" => Download!PublishedIsWhole /\ Download!ReceiptIsTruthful

\* No file of the server is half written at any point of a save or a restore that is
\* interrupted; a restore that reports success has made the files those of the archive,
\* and one that reports a conflict has touched none (state_backup.py and the stores).
FilesAreWhole == component = "backup" => Backup!FilesAreWhole /\ Backup!RestoreIsFaithful

\* Reports that the comparison calls attribution_safe come from the same configuration,
\* test set and reasoning, and from the same file unless its digest was only vouched for
\* (evaluation.py, evaluation_history.py, runtime_identity_capture.py).
AttributionIsSound == component = "evaluations" => Evaluations!AttributionIsSound

\* Engines start on whole models, and on those that the configuration shows as
\* downloaded without network (model_sources.py, config.py).
SourcesAgree == component = "sources" => Sources!SourcesAgree

\* Reports that show that two models can share the device are of procedures that have
\* shown it (multi_model_device_evidence.py, multi_model_evidence_review.py).  A campaign
\* that ends as complete is one of good evidence, and one that ends has stopped its
\* server or says that it has not (device_evidence_campaign.py).
EvidenceIsEarned ==
    /\ component = "multimodel" => MultiModel!EvidenceIsEarned
    /\ component = "campaign" => Campaign!CompleteIsEarned

=============================================================================
