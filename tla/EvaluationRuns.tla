---------------------------- MODULE EvaluationRuns ----------------------------
(***************************************************************************)
(* Evaluation runs: a run reads a test set, takes the resident runtime,     *)
(* sends one sample after the other through it and saves a report; reports  *)
(* are compared afterwards.  Meanwhile runtimes are loaded, reloaded and    *)
(* unloaded, the model file and the custom test set are replaced.  How a    *)
(* sample gets its slot and its memory is in RequestExecution.              *)
(***************************************************************************)
EXTENDS Integers, FiniteSets

CONSTANTS
    Runs,
    Samples,   \* of the test set, in any order
    Contents,  \* what the custom test set may hold
    Configs,   \* of runtimes: a subset of Settings
    AskedPolicies, \* reasoning policies that are asked for: a subset of Policies
    MaxLoads,  \* bound: loads and reloads
    MaxEdits   \* bound: replacements of the model file or of the test set

VARIABLES
    data,      \* the custom test set
    disk,      \* which model file lies on the disk
    runtime,   \* runtime[g]: the g-th runtime
    resident,  \* the one requests resolve to, or Cold
    loads, edits,
    run,       \* run[r]
    saved      \* runs whose report is in the store

vars == <<data, disk, runtime, resident, loads, edits, run, saved>>

Cold == 0
Unknown == "unknown"
Policies == {"off", "on", "runtime_default"}
NoPin == 0
\* thinking: what the model's mode allows; default: the configured enable_thinking; pin: the
\* file that artifact_sha256 is the digest of.
Settings == [thinking : {"none", "switchable", "always"}, default : BOOLEAN, pin : {NoPin, 1, 2}]
\* moved: the file was replaced between the load of the engine and its identification.
NoRuntime == [config |-> Unknown, file |-> 0, print |-> Unknown, moved |-> FALSE, pc |-> "none"]
NoRun == [pc |-> "idle", policy |-> "off", data |-> Unknown, gen |-> Cold, print |-> Unknown,
          profile |-> Unknown, sample |-> Unknown, result |-> [s \in {} |-> Unknown]]

Init ==
    /\ data \in Contents /\ disk = 1
    /\ runtime = [g \in 1..MaxLoads |-> NoRuntime]
    /\ resident = Cold /\ loads = 0 /\ edits = 0
    /\ run = [r \in Runs |-> NoRun] /\ saved = {}

-----------------------------------------------------------------------------
(* Reasoning. *)

\* What a backend does with a request that brings a switch, or none.
Thinks(config, override) ==
    CASE config.thinking = "none" -> FALSE
      [] config.thinking = "always" -> TRUE
      [] config.thinking = "switchable" -> IF override = "unset" THEN config.default
                                           ELSE override = "on"

\* resolve_evaluation_reasoning_profile; a policy "on" for a model without it raises.
Refused(policy, config) == policy = "on" /\ config.thinking = "none"

\* Mutant of Effective: the profile says what was asked for.
EffectiveAsAsked(policy, config) == IF policy = "on" THEN "on" ELSE "off"

Effective(policy, config) ==
    CASE config.thinking = "none" -> "off"
      [] config.thinking = "always" -> "on"
      [] config.thinking = "switchable" ->
            IF policy = "runtime_default" THEN (IF config.default THEN "on" ELSE "off")
            ELSE policy

Override(policy, config) ==
    CASE config.thinking = "none" -> IF policy = "off" THEN "off" ELSE "unset"
      [] config.thinking = "always" -> "unset"
      [] config.thinking = "switchable" -> IF policy = "runtime_default" THEN "unset" ELSE policy

Profile(policy, config) ==
    [requested |-> policy, mode |-> config.thinking,
     effective |-> Effective(policy, config), override |-> Override(policy, config)]

-----------------------------------------------------------------------------
(* Runtimes. *)

\* Mutant of Executor: a sample goes to the runtime that is resident by now.
ExecutorResolves(r) == resident

\* The executor is pinned to the runtime of the manifest.
Executor(r) == run[r].gen

Executing(g) == \E r \in Runs : run[r].pc = "execute" /\ Executor(r) = g
Capturing == \E g \in 1..MaxLoads : runtime[g].pc = "published"

\* An engine is built from the file and published; it has no identity yet.  A reload
\* gives its replacement none.
Publish ==
    /\ loads < MaxLoads /\ ~Capturing
    /\ resident # Cold => ~Executing(resident)
    /\ loads' = loads + 1 /\ resident' = loads'
    /\ \E config \in Configs :
          runtime' = [runtime EXCEPT ![loads'] =
             [config |-> config, file |-> disk, print |-> Unknown, moved |-> FALSE,
              pc |-> IF resident = Cold THEN "published" ELSE "captured"]]
    /\ UNCHANGED <<data, disk, edits, run, saved>>

\* The digest that is configured, which no file is compared with, or else that of a receipt
\* which matches the file that lies there now.
ArtifactDigest(config) == IF config.pin # NoPin THEN config.pin ELSE disk

\* capture_verified_runtime_identity: the digest of the artifact and that of the
\* configuration; or nothing, without strong evidence.
Capture(g) ==
    /\ runtime[g].pc = "published"
    /\ \E print \in {Unknown, <<ArtifactDigest(runtime[g].config), runtime[g].config>>} :
          runtime' = [runtime EXCEPT ![g].print = print, ![g].pc = "captured"]
    /\ UNCHANGED <<data, disk, resident, loads, edits, run, saved>>

Unload ==
    /\ resident # Cold /\ ~Executing(resident)
    /\ resident' = Cold
    /\ UNCHANGED <<data, disk, runtime, loads, edits, run, saved>>

ReplaceFile ==
    /\ edits < MaxEdits
    /\ edits' = edits + 1 /\ disk' = 3 - disk
    /\ runtime' = [g \in 1..MaxLoads |->
          [runtime[g] EXCEPT !.moved = @ \/ runtime[g].pc = "published"]]
    /\ UNCHANGED <<data, resident, loads, run, saved>>

ImportSet ==
    /\ edits < MaxEdits
    /\ edits' = edits + 1
    /\ data' \in Contents \ {data}
    /\ UNCHANGED <<disk, runtime, resident, loads, run, saved>>

-----------------------------------------------------------------------------
(* One run. *)

Set(r, value) == run' = [run EXCEPT ![r] = value]
Unchanged == UNCHANGED <<data, disk, runtime, resident, loads, edits>>

\* EvaluationService.run: the test set, as it is in the store or built in.
ResolveSet(r) ==
    /\ run[r].pc = "idle"
    /\ \E policy \in AskedPolicies :
          Set(r, [NoRun EXCEPT !.pc = "resolve", !.policy = policy, !.data = data])
    /\ UNCHANGED saved /\ Unchanged

\* Mutant of Identity: whatever identity the file has now.
IdentityOfFile(g) == <<disk, runtime[g].config>>

\* attached_runtime_identity
Identity(g) == runtime[g].print

\* The runtime, the reasoning profile and the manifest.
Prepare(r) ==
    /\ run[r].pc = "resolve"
    /\ IF resident # Cold => Refused(run[r].policy, runtime[resident].config)
       THEN Set(r, [NoRun EXCEPT !.pc = "refused"])
       ELSE Set(r, [run[r] EXCEPT !.pc = "next", !.gen = resident, !.print = Identity(resident),
                       !.profile = Profile(run[r].policy, runtime[resident].config)])
    /\ UNCHANGED saved /\ Unchanged

Left(r) == Samples \ DOMAIN run[r].result

Recorded(r, outcome) ==
    [run[r] EXCEPT !.pc = "next", !.sample = Unknown,
        !.result = [s \in DOMAIN @ \cup {run[r].sample} |->
                       IF s = run[r].sample THEN outcome ELSE @[s]]]

Failure == [ok |-> FALSE, by |-> Cold, thought |-> FALSE]

NextSample(r) ==
    /\ run[r].pc = "next"
    /\ \E s \in Left(r) : Set(r, [run[r] EXCEPT !.pc = "admit", !.sample = s])
    /\ UNCHANGED saved /\ Unchanged

\* The slot of the governor; the runtime may be gone by then, and memory is refused.
Admit(r) ==
    /\ run[r].pc = "admit"
    /\ \/ Set(r, Recorded(r, Failure))
       \/ /\ resident # Cold /\ resident = Executor(r)
          /\ Set(r, [run[r] EXCEPT !.pc = "lease"])
    /\ UNCHANGED saved /\ Unchanged

Lease(r) ==
    /\ run[r].pc = "lease"
    /\ Set(r, IF resident # Cold /\ resident = Executor(r) THEN [run[r] EXCEPT !.pc = "execute"]
              ELSE Recorded(r, Failure))
    /\ UNCHANGED saved /\ Unchanged

\* complete, normalize_application_output and the scores; an error of the backend or
\* an invalid structured answer is the sample's result.
Execute(r) ==
    /\ run[r].pc = "execute"
    /\ \E outcome \in {Failure, [ok |-> TRUE, by |-> Executor(r),
                         thought |-> Thinks(runtime[Executor(r)].config, run[r].profile.override)]} :
          Set(r, Recorded(r, outcome))
    /\ UNCHANGED saved /\ Unchanged

\* EvaluationStore.save, of a complete report only.
Save(r) ==
    /\ run[r].pc = "next" /\ Left(r) = {}
    /\ Set(r, [run[r] EXCEPT !.pc = "saved"])
    /\ saved' = saved \cup {r}
    /\ Unchanged

\* The server stops: nothing of an unfinished run is kept.
Abort(r) ==
    /\ run[r].pc \in {"resolve", "next", "admit", "lease", "execute"}
    /\ Set(r, [NoRun EXCEPT !.pc = "refused"])
    /\ UNCHANGED saved /\ Unchanged

Next ==
    \/ Publish \/ Unload \/ ReplaceFile \/ ImportSet
    \/ \E g \in 1..MaxLoads : Capture(g)
    \/ \E r \in Runs : ResolveSet(r) \/ Prepare(r) \/ NextSample(r) \/ Admit(r) \/ Lease(r)
                       \/ Execute(r) \/ Save(r) \/ Abort(r)

Spec == Init /\ [][Next]_vars

-----------------------------------------------------------------------------
(* Comparison of two reports. *)

Summary(r) == [data |-> run[r].data, samples |-> DOMAIN run[r].result, print |-> run[r].print,
               profile |-> run[r].profile, complete |-> Left(r) = {}]

Comparable(a, b) == a.complete /\ b.complete /\ a.data = b.data /\ a.samples = b.samples

EvidenceGrade(a, b) == Comparable(a, b) /\ Unknown \notin {a.print, b.print}

AttributionSafe(a, b) ==
    EvidenceGrade(a, b) /\ a.print = b.print /\ a.profile = b.profile

-----------------------------------------------------------------------------
(* Properties. *)

TypeOK ==
    /\ data \in Contents /\ disk \in {1, 2} /\ resident \in 0..loads /\ saved \subseteq Runs
    /\ \A g \in 1..loads : runtime[g].config \in Settings
    /\ \A r \in Runs : DOMAIN run[r].result \subseteq Samples

Answers(r) == {x \in {run[r].result[s] : s \in DOMAIN run[r].result} : x.ok}

\* An engine that may not be of the file its identity names: its configuration vouches for
\* a digest that nobody compares, or the file was replaced while it was identified.
Vouched(g) == runtime[g].config.pin # NoPin \/ runtime[g].moved

\* Two runs whose difference the comparison attributes to chance, attribution_safe,
\* really did the same: every sample that succeeded was answered by the engine of the
\* run's manifest, which is of the configuration that the identity of both names and of
\* the file it names, unless the digest was vouched for; thinking or not as the reports
\* say, on the same test set; whatever was loaded, reloaded, replaced or imported while
\* they ran.
AttributionIsSound ==
    \A a, b \in saved : AttributionSafe(Summary(a), Summary(b)) =>
        /\ run[a].data = run[b].data
        /\ \A r \in {a, b} : \A x \in Answers(r) :
              /\ x.by = run[r].gen
              /\ runtime[x.by].config = run[a].print[2]
              /\ runtime[x.by].file = run[a].print[1] \/ Vouched(x.by)
              /\ x.thought = (run[a].profile.effective = "on")

=============================================================================
