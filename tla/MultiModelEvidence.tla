-------------------------- MODULE MultiModelEvidence --------------------------
(***************************************************************************)
(* The procedure that demonstrates on a device that two models can share it *)
(* (multi_model_device_evidence.py), and the review of its reports           *)
(* (multi_model_evidence_review.py).  A report is of some cycles, in each of *)
(* which two runtimes are loaded, asked at the same time and unloaded, and   *)
(* of a shutdown while a request holds a runtime.  Each cycle and the        *)
(* shutdown have a manager and a ledger of their own, whose budget has room  *)
(* for both runtimes and two requests.                                       *)
(***************************************************************************)
EXTENDS Integers, Sequences, FiniteSets, SequencesExt

CONSTANTS
    Cycles,         \* of a report
    MinReports, MinCycles,   \* of the review
    MaxReports,     \* bound
    MaxFaults,      \* bound: loads, teardowns and answers that fail
    MaxChanges      \* bound: changes of what the runtimes are identified by

VARIABLES
    stage,      \* <<procedure, step>>
    manager,    \* runtimes and ledger of the procedure's manager
    requests,   \* the two requests of a cycle
    report,     \* of the report that is made
    reports,    \* those that are finished
    world       \* identity of the runtimes, engines without an owner, and bounds

vars == <<stage, manager, requests, report, reports, world>>

Models == {"a", "b"}
Unidentified == 0
NoReport == [cycles |-> <<>>, overlaps |-> <<>>, first |-> "clean", retained |-> FALSE,
             accounted |-> FALSE, complete |-> FALSE, refused |-> FALSE, lost |-> 0]

NewManager ==
    [state |-> [m \in Models |-> "none"], pending |-> {}, ledger |-> {}, peak |-> 0,
     prints |-> [m \in Models |-> Unidentified], held |-> FALSE, overlap |-> FALSE]

\* The engines the manager tracks, published or not.
Engines == {m \in Models : manager.state[m] # "none"} \cup manager.pending

Transient(ledger) == {m \in Models : <<"transient", m>> \in ledger}

\* Mutant of Recorded: what requests reserve is added up.
RecordedTotal(peak, ledger) == peak + Cardinality(Transient(ledger))

\* _record_peak
Recorded(peak, ledger) ==
    IF Cardinality(Transient(ledger)) > peak THEN Cardinality(Transient(ledger)) ELSE peak

\* The manager with another ledger, as _EvidenceResourceManager observes it.
Accounting(ledger) ==
    [manager EXCEPT !.ledger = ledger, !.peak = Recorded(manager.peak, ledger),
                    !.overlap = @ \/ Transient(ledger) = Models]

Init ==
    /\ stage = <<"report", "begin">> /\ manager = NewManager
    /\ requests = [m \in Models |-> "none"]
    /\ report = NoReport /\ reports = <<>>
    /\ world = [identity |-> 1, lost |-> 0, faults |-> 0, changes |-> 0]

\* Steps that concern one runtime.
LoadOf == [a |-> "load a", b |-> "load b"]
UnloadOf == [a |-> "unload a", b |-> "unload b"]
CloseOf == [a |-> "close a", b |-> "close b"]

At(procedures, step) == stage[1] \in procedures /\ stage[2] = step
GoTo(step) == stage' = <<stage[1], step>>
Fault == world.faults < MaxFaults /\ world' = [world EXCEPT !.faults = @ + 1]

-----------------------------------------------------------------------------
(* The report. *)

\* execute_multi_model_device_evidence, when the host has room for both models: else
\* the refusal is the report.
Begin ==
    /\ At({"report"}, "begin") /\ Len(reports) < MaxReports
    /\ \/ stage' = <<"cycle", "load a">> /\ report' = NoReport /\ UNCHANGED <<reports, world>>
       \/ /\ Fault /\ reports' = Append(reports, [NoReport EXCEPT !.refused = TRUE])
          /\ UNCHANGED <<stage, report>>
    /\ UNCHANGED <<manager, requests>>

\* What a cycle leaves in the report: the outcome, the identities, and the accounting.
CycleEnds(complete, verified, clean) ==
    /\ report' = [report EXCEPT
         !.cycles = Append(@, [complete |-> complete, verified |-> verified, clean |-> clean,
                               prints |-> manager.prints, overlap |-> manager.peak >= 2]),
         !.overlaps = Append(@, manager.overlap)]
    /\ GoTo("final")

\* An error in a cycle is a cycle that is not complete, in the other procedure a
\* procedure that is not.
Raise ==
    IF stage[1] = "cycle" THEN CycleEnds(FALSE, FALSE, FALSE)
    ELSE GoTo("final") /\ UNCHANGED report

\* The `finally`: a shutdown whose failure nobody looks at, and a manager that is
\* forgotten.  A cycle that is not complete is the last one, but both models are loaded
\* once more for the shutdown procedure.
Final ==
    /\ At({"cycle", "shutdown"}, "final")
    /\ \E survivors \in SUBSET Engines :
        /\ world.faults + Cardinality(survivors) <= MaxFaults
        /\ world' = [world EXCEPT !.lost = @ + Cardinality(survivors),
                                  !.faults = @ + Cardinality(survivors)]
        /\ LET all == Len(report.cycles) = Cycles /\ \A i \in 1..Cycles : report.cycles[i].complete
               done == [report EXCEPT !.lost = @ + Cardinality(survivors)]
           IN IF stage[1] = "cycle"
              THEN /\ stage' = <<IF Last(report.cycles).complete /\ Len(report.cycles) < Cycles
                                 THEN "cycle" ELSE "shutdown", "load a">>
                   /\ report' = done /\ UNCHANGED reports
              ELSE /\ reports' = Append(reports, [done EXCEPT !.complete = all /\ @])
                   /\ report' = NoReport /\ stage' = <<"report", "begin">>
    /\ manager' = NewManager /\ requests' = [m \in Models |-> "none"]

-----------------------------------------------------------------------------
(* A cycle, and the loads of both procedures. *)

\* manager.load, which publishes the runtime with its identity or without one.
Load(m) ==
    /\ At({"cycle", "shutdown"}, LoadOf[m])
    /\ \E print \in {Unidentified, world.identity} :
         manager' = [Accounting(manager.ledger \cup {<<"resident", m>>}) EXCEPT
                       !.state[m] = "ready", !.prints[m] = print]
    /\ GoTo(IF m = "a" THEN "load b" ELSE IF stage[1] = "cycle" THEN "ask" ELSE "hold")
    /\ requests' = IF m = "b" /\ stage[1] = "cycle" THEN [x \in Models |-> "sent"] ELSE requests
    /\ UNCHANGED <<report, reports, world>>

\* A load that fails, and may leave an engine that cannot be closed.
LoadFails(m) ==
    /\ At({"cycle", "shutdown"}, LoadOf[m])
    /\ Fault /\ Raise
    /\ \/ UNCHANGED manager
       \/ manager' = [Accounting(manager.ledger \cup {<<"resident", m>>}) EXCEPT
                        !.pending = @ \cup {m}]
    /\ UNCHANGED <<requests, reports>>

\* The memory middleware, in the event loop.
Reserve(m) ==
    /\ At({"cycle"}, "ask") /\ requests[m] = "sent"
    /\ requests' = [requests EXCEPT ![m] = "holds"]
    /\ manager' = Accounting(manager.ledger \cup {<<"transient", m>>})
    /\ UNCHANGED <<stage, report, reports, world>>

Answer(m) ==
    /\ At({"cycle"}, "ask") /\ requests[m] = "holds"
    /\ \/ requests' = [requests EXCEPT ![m] = "ok"] /\ UNCHANGED world
       \/ Fault /\ \E bad \in {"error", "raised"} : requests' = [requests EXCEPT ![m] = bad]
    /\ manager' = Accounting(manager.ledger \ {<<"transient", m>>})
    /\ UNCHANGED <<stage, report, reports>>

\* The results of both requests.
Asked ==
    /\ At({"cycle"}, "ask") /\ \A m \in Models : requests[m] \notin {"sent", "holds"}
    /\ IF \E m \in Models : requests[m] = "raised" THEN Raise
       ELSE GoTo("unload a") /\ UNCHANGED report
    /\ UNCHANGED <<manager, requests, reports, world>>

\* DELETE of a model, whose engine may fail to close.
Unload(m) ==
    /\ At({"cycle"}, UnloadOf[m])
    /\ \/ /\ manager' = [Accounting(manager.ledger \ {<<"resident", m>>}) EXCEPT !.state[m] = "none"]
          /\ GoTo(IF m = "a" THEN "unload b" ELSE "settle")
          /\ UNCHANGED <<report, world>>
       \/ Fault /\ Raise /\ manager' = [manager EXCEPT !.state[m] = "failed"]
    /\ UNCHANGED <<requests, reports>>

Settle ==
    /\ At({"cycle"}, "settle")
    /\ LET verified == \A m \in Models : manager.prints[m] # Unidentified
           clean == manager.ledger = {} /\ \A m \in Models : manager.state[m] = "none"
       IN CycleEnds(/\ \A m \in Models : requests[m] = "ok"
                    /\ manager.peak >= 2 /\ clean /\ verified, verified, clean)
    /\ UNCHANGED <<manager, requests, reports, world>>

-----------------------------------------------------------------------------
(* Shutdown under load: one runtime is held beyond the time a shutdown waits. *)

Hold ==
    /\ At({"shutdown"}, "hold")
    /\ manager' = [manager EXCEPT !.held = TRUE] /\ GoTo("close a")
    /\ UNCHANGED <<requests, report, reports, world>>

\* The holder gives up after 30 s, wherever the procedure is.
Lapse ==
    /\ manager.held /\ manager' = [manager EXCEPT !.held = FALSE]
    /\ UNCHANGED <<stage, requests, report, reports, world>>

\* shutdown(), for one runtime after the other, once its time has passed.
CloseFirst(m) ==
    /\ At({"shutdown"}, CloseOf[m])
    /\ GoTo(IF m = "a" THEN "close b" ELSE "look")
    /\ \/ /\ m = "a" /\ manager.held
          /\ manager' = [manager EXCEPT !.state[m] = "failed"]
          /\ report' = [report EXCEPT !.first = "incomplete"] /\ UNCHANGED world
       \/ /\ m = "a" => ~manager.held
          /\ \/ /\ manager' = [Accounting(manager.ledger \ {<<"resident", m>>}) EXCEPT
                                 !.state[m] = "none"]
                /\ UNCHANGED <<report, world>>
             \/ /\ Fault /\ manager' = [manager EXCEPT !.state[m] = "failed"]
                /\ report' = [report EXCEPT !.first = "incomplete"]
    /\ UNCHANGED <<requests, reports>>

\* What remains: the runtime that is held has to be owned and accounted.
Look ==
    /\ At({"shutdown"}, "look") /\ GoTo("release")
    /\ report' = [report EXCEPT
         !.retained = manager.state["a"] = "failed" /\ manager.held,
         !.accounted = \E m \in Models : <<"resident", m>> \in manager.ledger]
    /\ UNCHANGED <<manager, requests, reports, world>>

Release ==
    /\ At({"shutdown"}, "release") /\ GoTo("retry")
    /\ manager' = [manager EXCEPT !.held = FALSE]
    /\ UNCHANGED <<requests, report, reports, world>>

\* The second shutdown, of what is left; a failure raises.
Retry ==
    /\ At({"shutdown"}, "retry") /\ ~manager.held
    /\ \E failing \in SUBSET Engines :
        /\ manager' = [Accounting({entry \in manager.ledger : entry[2] \in failing}) EXCEPT
                         !.state = [m \in Models |-> IF m \in failing THEN "failed" ELSE "none"]]
        /\ IF failing = {}
           THEN /\ report' = [report EXCEPT !.complete = report.first = "incomplete"
                                                         /\ report.retained]
                /\ UNCHANGED world
           ELSE Fault /\ UNCHANGED report
    /\ GoTo("final")
    /\ UNCHANGED <<requests, reports>>

\* What the runtimes are identified by may change, which shows when one is loaded.
Change ==
    /\ stage[2] \in {"begin", "load a", "load b"} /\ world.changes < MaxChanges
    /\ world' = [world EXCEPT !.identity = @ + 1, !.changes = @ + 1]
    /\ UNCHANGED <<stage, manager, requests, report, reports>>

Next ==
    \/ Begin \/ Final \/ Asked \/ Settle \/ Hold \/ Lapse \/ Look \/ Release \/ Retry \/ Change
    \/ \E m \in Models : Load(m) \/ LoadFails(m) \/ Reserve(m) \/ Answer(m) \/ Unload(m) \/ CloseFirst(m)

Spec == Init /\ [][Next]_vars

-----------------------------------------------------------------------------
(* The review. *)

Identified(cycle) == \A m \in Models : cycle.prints[m] # Unidentified

\* The identities of a report: of all of its cycles that have some.
PrintsOf(r) == {r.cycles[i].prints : i \in {j \in DOMAIN r.cycles : Identified(r.cycles[j])}}

\* _parse_report: a report is refused, or its verdicts are computed once more.
Valid(r) == ~r.refused /\ Cardinality(PrintsOf(r)) <= 1

CycleCounts(c) == c.complete /\ c.verified /\ Identified(c) /\ c.overlap /\ c.clean

ReportCounts(r) ==
    /\ r.complete /\ Len(r.cycles) = Cycles
    /\ \A i \in DOMAIN r.cycles : CycleCounts(r.cycles[i])
    /\ r.first = "incomplete" /\ r.retained /\ r.accounted

\* The cycles, each as <<its report, its number>>, of reports of that many.
CompleteCycles(rs) ==
    {c \in (1..Len(rs)) \X (1..Cycles) :
        c[2] \in DOMAIN rs[c[1]].cycles /\ CycleCounts(rs[c[1]].cycles[c[2]])}

\* review_multi_model_evidence
Review(rs) ==
    LET valid == {r \in ToSet(rs) : Valid(r)}
    IN CASE valid = {} -> "insufficient"
         [] \E r1, r2 \in valid : PrintsOf(r1) # PrintsOf(r2) -> "incompatible"
         [] OTHER -> IF /\ valid = ToSet(rs) /\ Len(rs) >= MinReports
                        /\ Cardinality(CompleteCycles(rs)) >= MinCycles
                        /\ \A r \in valid : ReportCounts(r)
                     THEN "sufficient" ELSE "insufficient"

-----------------------------------------------------------------------------
(* Properties. *)

\* A report that is complete tells of cycles in which two requests really held their
\* memory at the same time, of a shutdown that kept the runtime that was held, and of
\* managers that have left no engine behind, although their last shutdown is not looked
\* at; and reports are sufficient only together, when all of them are and the same two
\* runtimes were in all of them (docs/device-evidence-runbook.md, "A
\* sufficient_observation_set means only that the same attributable models/runtime
\* procedure repeatedly exercised identity, transient overlap, cleanup and bounded
\* shutdown successfully").
EvidenceIsEarned ==
    /\ \A r \in ToSet(reports) : r.complete =>
        /\ Len(r.overlaps) = Cycles /\ \A i \in 1..Cycles : r.overlaps[i]
        /\ r.lost = 0 /\ r.retained /\ r.accounted
    /\ Review(reports) = "sufficient" =>
        /\ Len(reports) >= MinReports /\ Len(reports) * Cycles >= MinCycles
        /\ \A r \in ToSet(reports) : r.complete
        /\ At({"report"}, "begin") => world.lost = 0
        /\ Cardinality(UNION {PrintsOf(r) : r \in ToSet(reports)}) = 1

=============================================================================
