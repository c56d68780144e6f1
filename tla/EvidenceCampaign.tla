-------------------------- MODULE EvidenceCampaign --------------------------
(***************************************************************************)
(* The campaign that collects the evidence of a device in one directory      *)
(* (device_evidence_campaign.py, started by                                  *)
(* scripts/run_device_evidence_campaign.py) and the bundle it is judged by   *)
(* (l2_evidence_bridge.py).  A campaign runs its phases one after the other: *)
(* it verifies the models, starts a server of its own, asks it, stops it,    *)
(* loads and unloads workers of its own, and reads the directory.  It may be *)
(* interrupted anywhere, and run again in the same directory.                *)
(***************************************************************************)
EXTENDS Integers, Sequences, FiniteSets

CONSTANTS
    Cycles,         \* of a reclamation report
    MaxCampaigns,   \* bound: campaigns in one directory
    MaxInterrupts,  \* bound: of a campaign, by the operator
    MaxFaults       \* bound: of a campaign, of what may fail

VARIABLES
    step,       \* <<scope, phase that is next>>
    phases,     \* summary["phases"]: their statuses
    verdict,    \* minimum_l2_complete, rrg5_complete
    dir,        \* the directory: evidence -> what it says, of which campaign
    server,     \* the representative server
    draft,      \* the reclamation report that is made
    exit,       \* "none" while the campaign runs, else its exit code
    tally       \* campaigns, interrupts, faults, and workers that are left running

vars == <<step, phases, verdict, dir, server, draft, exit, tally>>

Phases == {"backend", "preflight", "primary", "secondary", "start", "thinking",
           "evaluation", "stop", "reclamation", "resource", "bundle", "multimodel"}
Evidence == {"thinking", "evaluation", "reclamation a", "reclamation b", "review", "resource"}

Running == exit = "none"
At(phase) == Running /\ step[2] = phase

\* The order of run().
NextPhase ==
    [p \in Phases |->
       CASE p = "backend" -> "preflight" [] p = "preflight" -> "primary"
         [] p = "primary" -> "secondary" [] p = "secondary" -> "start"
         [] p = "start" -> "thinking" [] p = "thinking" -> "evaluation"
         [] p = "evaluation" -> "stop" [] p = "stop" -> "reclamation"
         [] p = "reclamation" -> "resource" [] p = "resource" -> "bundle"
         [] p = "bundle" -> "multimodel" [] p = "multimodel" -> "finalize"]

Written(report) == [by |-> tally.campaigns, report |-> report]
Missing == [by |-> 0, report |-> "missing"]
NoDraft == [windows |-> 0, errors |-> 0, cycles |-> 0]
\* What a fault costs; leaving workers running as well.
Fault == tally.faults < MaxFaults /\ tally' = [tally EXCEPT !.faults = @ + 1]

Init ==
    /\ step = <<"full", "finalize">> /\ phases = [p \in Phases |-> "none"]
    /\ verdict = [minimum |-> FALSE, rrg5 |-> FALSE]
    /\ dir = [e \in Evidence |-> Missing]
    /\ server = "none" /\ draft = NoDraft /\ exit = "0"
    /\ tally = [campaigns |-> 0, interrupts |-> 0, faults |-> 0, workers |-> 0]

\* _record, and the phase that comes next.
Record(phase, status) ==
    /\ phases' = [phases EXCEPT ![phase] = status]
    /\ step' = <<step[1], NextPhase[phase]>>

-----------------------------------------------------------------------------
(* Phases. *)

Begin(scope) ==
    /\ ~Running /\ tally.campaigns < MaxCampaigns
    /\ step' = <<scope, IF scope = "full" THEN "backend" ELSE "preflight">>
    /\ phases' = [p \in Phases |-> "none"] /\ verdict' = [minimum |-> FALSE, rrg5 |-> FALSE]
    /\ server' = "none" /\ draft' = NoDraft /\ exit' = "none"
    /\ tally' = [campaigns |-> tally.campaigns + 1, interrupts |-> 0, faults |-> 0, workers |-> 0]
    /\ UNCHANGED dir

\* What has to hold before anything is started: without it the campaign is over.
Prepare(phase) ==
    /\ At(phase)
    /\ \/ phase = "secondary" /\ step[1] = "minimum" /\ Record(phase, "SKIPPED") /\ UNCHANGED tally
       \/ (phase = "secondary" => step[1] = "full") /\ Record(phase, "PASS") /\ UNCHANGED tally
       \/ /\ (phase = "secondary" => step[1] = "full") /\ Fault
          /\ phases' = [phases EXCEPT ![phase] = "INCONCLUSIVE"]
          /\ step' = <<step[1], "finalize">>
    /\ UNCHANGED <<verdict, dir, server, draft, exit>>

\* _OwnedServer.start: the port may be taken by now, and the process may exit or not
\* become healthy in time.
Start ==
    /\ At("start")
    /\ \/ Record("start", "PASS") /\ server' = "ready" /\ UNCHANGED tally
       \/ Fault /\ Record("start", "FAIL") /\ server' \in {"none", "gone", "starting"}
    /\ UNCHANGED <<verdict, dir, draft, exit>>

Crash ==
    /\ Running /\ server = "ready" /\ Fault /\ server' = "gone"
    /\ UNCHANGED <<step, phases, verdict, dir, draft, exit>>

\* A phase that asks the server: with an answer it leaves a report.
Asks(phase, report, status) ==
    /\ At(phase) /\ phases["start"] = "PASS"
    /\ Record(phase, status)
    /\ dir' = IF report = "missing" THEN dir ELSE [dir EXCEPT ![phase] = Written(report)]
    /\ UNCHANGED <<verdict, server, draft, exit>>

\* Both ways to answer, without and with hidden reasoning.
Thinking ==
    \/ server = "ready" /\ Asks("thinking", "good", "PASS") /\ UNCHANGED tally
    \/ Fault /\ \E report \in {"bad", "missing"} :
         (server = "gone" => report = "missing") /\ Asks("thinking", report, "FAIL")

\* Two evaluations without reasoning.  The phase looks at the envelopes of the reports
\* too, the bundle at the reasoning that was effective.
Evaluation ==
    \/ server = "ready" /\ Asks("evaluation", "good", "PASS") /\ UNCHANGED tally
    \/ /\ server = "ready" /\ Fault
       /\ Asks("evaluation", "reasoning", "PASS") \/ Asks("evaluation", "good", "FAIL")
    \/ Fault /\ \E report \in {"bad", "missing"} :
         (server = "gone" => report = "missing") /\ Asks("evaluation", report, "FAIL")

\* A server that is gone is found out by the phase, without a further fault.
Unreachable(phase) ==
    /\ server = "gone" /\ Asks(phase, "missing", "FAIL") /\ UNCHANGED tally

Skip(phase) ==
    /\ At(phase) /\ phases["start"] # "PASS" /\ Record(phase, "SKIPPED")
    /\ UNCHANGED <<verdict, dir, server, draft, exit, tally>>

\* _OwnedServer.stop: SIGINT, SIGTERM, SIGKILL.  A server that has to be killed, that
\* survives even this, or whose listener is still open fails the phase.
StopServer ==
    \/ server' = (IF server = "none" THEN "none" ELSE "gone") /\ phases' = [phases EXCEPT !["stop"] = "PASS"]
       /\ UNCHANGED tally
    \/ /\ server \in {"ready", "starting"} /\ Fault
       /\ server' \in {"gone", server} /\ phases' = [phases EXCEPT !["stop"] = "FAIL"]

Stop ==
    /\ At("stop") /\ StopServer /\ step' = <<step[1], "reclamation">>
    /\ UNCHANGED <<verdict, dir, draft, exit>>

\* The `finally` of run(), after an interrupt or a summary that could not be written.
StopFinally ==
    /\ Running /\ step[2] \in {"leave 1", "leave 130"} /\ StopServer
    /\ exit' = (IF step[2] = "leave 1" THEN "1" ELSE "130")
    /\ UNCHANGED <<step, verdict, dir, draft>>

-----------------------------------------------------------------------------
(* Reclamation: two reports, of workers that are started, asked and stopped. *)

\* The review of the reports in the directory: review_hardware_evidence.
ReviewOf(a, b) ==
    IF a.grade # b.grade THEN [compatible |-> 1, windows |-> a.windows, errors |-> a.errors]
    ELSE [compatible |-> 2, windows |-> a.windows + b.windows, errors |-> a.errors + b.errors]

\* Mutant of Accepted: errors in between are forgiven.
AcceptedWithErrors(review) == review.compatible = 2 /\ review.windows >= 2 * Cycles

\* The gate: of the identity it only wants that it is the same.
Accepted(review) == review.compatible = 2 /\ review.windows >= 2 * Cycles /\ review.errors = 0

Current == IF dir["reclamation a"].by = tally.campaigns THEN "reclamation b" ELSE "reclamation a"

\* run_reclamation_cycle: what fails first decides whether the window is complete; a
\* worker that has been started is stopped, which may fail as well.
Cycle ==
    /\ At("reclamation") /\ draft.cycles < Cycles
    /\ \E failing \in {"none", "start", "ready", "exercise", "stop"}, leftover \in BOOLEAN :
        /\ leftover => failing \in {"ready", "exercise", "stop"}
        /\ failing = "stop" => leftover
        /\ failing # "none" => tally.faults < MaxFaults
        /\ tally' = [tally EXCEPT !.faults = @ + (IF failing = "none" THEN 0 ELSE 1),
                                  !.workers = @ + (IF leftover THEN 1 ELSE 0)]
        /\ draft' = [windows |-> draft.windows + (IF failing \in {"start", "ready"} THEN 0 ELSE 1),
                     errors |-> draft.errors + (IF failing = "none" THEN 0 ELSE 1),
                     cycles |-> draft.cycles + 1]
    /\ UNCHANGED <<step, phases, verdict, dir, server, exit>>

\* A report is as good as the receipt of the model and the version of the backend are
\* known; after the second one both are reviewed.
Reclaimed ==
    /\ At("reclamation") /\ draft.cycles = Cycles /\ draft' = NoDraft
    /\ \E grade \in {"verified", "exploratory"} :
        LET report == [windows |-> draft.windows, errors |-> draft.errors, grade |-> grade]
            review == ReviewOf(dir["reclamation a"].report, report)
        IN IF Current = "reclamation a"
           THEN dir' = [dir EXCEPT !["reclamation a"] = Written(report)] /\ UNCHANGED <<step, phases>>
           ELSE /\ dir' = [dir EXCEPT !["reclamation b"] = Written(report),
                                      !["review"] = Written(review)]
                /\ Record("reclamation", IF Accepted(review) THEN "PASS" ELSE "INCONCLUSIVE")
    /\ UNCHANGED <<verdict, server, exit, tally>>

-----------------------------------------------------------------------------
(* What comes after. *)

\* A phase that raises: reports that are missing stay as they are in the directory.
Raises(phase) ==
    /\ At(phase) /\ phase \in {"reclamation", "resource", "multimodel"}
    /\ phase = "multimodel" => step[1] = "full"
    /\ Fault /\ Record(phase, "FAIL") /\ draft' = NoDraft
    /\ UNCHANGED <<verdict, dir, server, exit>>

\* The smoke of the resource policy: its checks raise, a refusal leaves no report.
Resource ==
    /\ At("resource")
    /\ \/ /\ Record("resource", "PASS") /\ dir' = [dir EXCEPT !["resource"] = Written("good")]
          /\ UNCHANGED tally
       \/ Fault /\ Record("resource", "INCONCLUSIVE") /\ UNCHANGED dir
    /\ UNCHANGED <<verdict, server, draft, exit>>

\* validate_hardware_bundle: it reads the files, whoever wrote them.
BundleComplete ==
    /\ \A e \in Evidence : dir[e].by # 0
    /\ \A e \in {"thinking", "evaluation", "resource"} : dir[e].report = "good"
    /\ LET recomputed == ReviewOf(dir["reclamation a"].report, dir["reclamation b"].report)
       IN Accepted(recomputed) /\ dir["review"].report = recomputed

Validate ==
    /\ At("bundle")
    /\ verdict' = [verdict EXCEPT !.minimum = BundleComplete]
    /\ LET others == {phases[p] : p \in {"thinking", "evaluation", "reclamation", "resource"}}
       IN Record("bundle",
            CASE BundleComplete -> "PASS"
              [] ~BundleComplete /\ ("FAIL" \in others \/ phases["start"] = "FAIL") -> "FAIL"
              [] OTHER -> IF others \cap {"INCONCLUSIVE", "SKIPPED"} # {} THEN "INCONCLUSIVE" ELSE "FAIL")
    /\ UNCHANGED <<dir, server, draft, exit, tally>>

\* Two reports of the procedure with two models, and their review.
MultiModel ==
    /\ At("multimodel")
    /\ \/ step[1] = "minimum" /\ Record("multimodel", "SKIPPED") /\ UNCHANGED <<verdict, tally>>
       \/ /\ step[1] = "full" /\ Record("multimodel", "PASS")
          /\ verdict' = [verdict EXCEPT !.rrg5 = TRUE] /\ UNCHANGED tally
       \/ /\ step[1] = "full" /\ Fault /\ UNCHANGED verdict
          /\ Record("multimodel", "FAIL") \/ Record("multimodel", "INCONCLUSIVE")
    /\ UNCHANGED <<dir, server, draft, exit>>

Finalize ==
    /\ At("finalize")
    /\ exit' = (CASE verdict.minimum /\ (step[1] = "minimum" \/ verdict.rrg5) -> "0"
                  [] OTHER -> IF \E p \in Phases : phases[p] = "FAIL" THEN "1" ELSE "2")
    /\ UNCHANGED <<step, phases, verdict, dir, server, draft, tally>>

-----------------------------------------------------------------------------
(* What may come between. *)

Leave(code, within) ==
    IF step[2] \in within
    THEN step' = <<step[1], IF code = "1" THEN "leave 1" ELSE "leave 130">> /\ UNCHANGED exit
    ELSE exit' = code /\ UNCHANGED step

\* The operator, who does not reach the server's process group.
Interrupt ==
    /\ Running /\ tally.interrupts < MaxInterrupts
    /\ tally' = [tally EXCEPT !.interrupts = @ + 1]
    /\ IF step[2] \in {"leave 1", "leave 130"} THEN exit' = "130" /\ UNCHANGED step
       ELSE Leave("130", {"start", "thinking", "evaluation", "stop"})
    /\ UNCHANGED <<phases, verdict, dir, server, draft>>

\* While the server is being started, it may have come up before the interrupt.
InterruptStart ==
    /\ At("start") /\ tally.interrupts < MaxInterrupts
    /\ tally' = [tally EXCEPT !.interrupts = @ + 1]
    /\ server' = "starting" /\ Leave("130", {"start"})
    /\ UNCHANGED <<phases, verdict, dir, draft>>

\* A summary that cannot be written, after the phase before.
SummaryFails ==
    /\ Running /\ step[2] \in Phases /\ Fault
    /\ Leave("1", {"thinking", "evaluation", "stop", "reclamation"})
    /\ UNCHANGED <<phases, verdict, dir, server, draft>>

Next ==
    \/ \E scope \in {"minimum", "full"} : Begin(scope)
    \/ \E phase \in {"backend", "preflight", "primary", "secondary"} : Prepare(phase)
    \/ Start \/ Crash \/ Thinking \/ Evaluation \/ Stop \/ StopFinally
    \/ \E phase \in {"thinking", "evaluation"} : Skip(phase) \/ Unreachable(phase)
    \/ Cycle \/ Reclaimed \/ Resource \/ Validate \/ MultiModel \/ Finalize
    \/ \E phase \in {"reclamation", "resource", "multimodel"} : Raises(phase)
    \/ Interrupt \/ InterruptStart \/ SummaryFails

Spec == Init /\ [][Next]_vars

-----------------------------------------------------------------------------
(* Properties. *)

Statuses == {phases[p] : p \in Phases}
Unattended == server \in {"starting", "ready"}

\* A campaign that says it is complete is one of evidence that is good, by files of its
\* own where the directory was new or none of its phases complains, and then has left
\* no worker running; and a campaign leaves its server running only if it says so or
\* was interrupted while it was stopping it (docs/device-evidence-campaign.md, "owns
\* the temporary HTTP server it starts").
CompleteIsEarned ==
    /\ exit = "0" /\ tally.campaigns > 0 =>
        /\ BundleComplete /\ phases["primary"] = "PASS"
        /\ (tally.campaigns = 1 \/ Statuses \subseteq {"PASS", "SKIPPED", "none"}) =>
             (\A e \in Evidence : dir[e].by = tally.campaigns) /\ tally.workers = 0
        /\ step[1] = "full" => phases["multimodel"] = "PASS" /\ phases["secondary"] = "PASS"
    /\ exit = "2" => "FAIL" \notin Statuses
    /\ ~Running /\ Unattended =>
         phases["stop"] = "FAIL" \/ (exit = "130" /\ tally.interrupts + tally.faults >= 2)
    /\ step[2] \in {"reclamation", "resource", "bundle", "multimodel", "finalize"} /\ Unattended =>
         phases["stop"] = "FAIL"

\* The procedure for the device says of these reports "Do not use
\* --allow-exploratory-identity for HE-2 acceptance", and the bundle that reports of
\* verified models are required (docs/device-evidence-runbook.md,
\* l2_evidence_bridge.py).
ReclamationIsVerified ==
    exit = "0" /\ tally.campaigns > 0 =>
      \A e \in {"reclamation a", "reclamation b"} : dir[e].report.grade = "verified"

=============================================================================
