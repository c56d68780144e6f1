---------------------------- MODULE RequestMetrics ----------------------------
(***************************************************************************)
(* What is measured of a chat request and on which runtime it is kept:      *)
(* the scheduler's queue wait (request_scheduler.py), the recorder of a     *)
(* stream (streaming_metrics.py), the capture of a JSON answer              *)
(* (completion_metrics.py) and the numbers they take from the backend's     *)
(* events (stream_contract.py, metrics_adapters.py).  One model; a runtime  *)
(* is a generation of it.                                                   *)
(***************************************************************************)
EXTENDS Integers, Sequences, SequencesExt, FiniteSets, FiniteSetsExt

CONSTANTS
    Requests,
    Script(_),   \* of a request: whether it streams, and what its backend answers
    MaxChunk,    \* pieces in a chunk of a stream
    MaxLoads     \* bound: generations

VARIABLES
    current,     \* the resident generation, or Cold
    loads,       \* generations there have been
    proc,        \* proc[r]: where the request is and what is known of it
    latest       \* latest[g]: latest_inference_metrics of generation g, or Nothing

vars == <<current, loads, proc, latest>>

Cold == 0
Unknown == -1
Nothing == <<>>
Generations == 1..MaxLoads
NoCounts == [input |-> Unknown, output |-> Unknown]

-----------------------------------------------------------------------------
(* The events of an answer, and the lines they are sent in. *)

\* metrics_from_completion_response: `usage` before `timings`.
Reported(e) ==
    [input |-> IF e.usage.input # Unknown THEN e.usage.input ELSE e.timings.input,
     output |-> IF e.usage.output # Unknown THEN e.usage.output ELSE e.timings.output]

\* StreamContractEngine.stream: an event with numbers has a choice, if an empty one.
Normalised(e) == IF Reported(e) # NoCounts THEN [e EXCEPT !.choices = TRUE] ELSE e

\* The route sends the events that have a choice (the reasoning boundary has it show
\* everything, and hides what is to be hidden later).
Events(r) ==
    IF Script(r).stream
    THEN SelectSeq([i \in DOMAIN Script(r).events |-> Normalised(Script(r).events[i])],
                   LAMBDA e : e.choices)
    ELSE Script(r).events

\* An event is a line of three pieces: after the second it can be decoded, the third
\* ends it.  A line without numbers and content stands for [DONE] and blank ones, too.
Pieces == 3
Length(r) == Pieces * Len(Events(r))

Init ==
    /\ loads \in {0, 1} /\ current = loads
    /\ proc = [r \in Requests |->
                 [pc |-> "new", scheduled |-> Cold, gen |-> Cold, noted |-> Cold, sent |-> 0,
                  buffer |-> 0, first |-> Unknown, counts |-> NoCounts, whole |-> FALSE]]
    /\ latest = [g \in Generations |-> Nothing]

Goes(r, pc) == proc' = [proc EXCEPT ![r].pc = pc]

\* record_runtime_metrics
Record(g, m) == latest' = [latest EXCEPT ![g] = m]

Measured(r, ttft, total, counts) ==
    [of |-> r, queue |-> proc[r].scheduled # Cold, ttft |-> ttft, total |-> total,
     counts |-> counts]

-----------------------------------------------------------------------------
(* Numbers of the backend. *)

\* merge_metrics
Merge(a, b) ==
    [input |-> IF a.input # Unknown THEN a.input ELSE b.input,
     output |-> IF a.output # Unknown THEN a.output ELSE b.output]

\* Mutant of Complete: a line that a chunk cuts is taken in two.
CompleteInChunk(p, n) == {i \in 1..Len(p.events) : /\ p.sent < Pieces * i - 2
                                                   /\ Pieces * i <= p.sent + n}

\* The lines that the line buffer and n more pieces complete.
Complete(p, n) == {i \in 1..Len(p.events) : /\ p.sent - p.buffer < Pieces * i
                                            /\ Pieces * i <= p.sent + n}

\* _observe_line, for lines in their order: the newest number of a kind wins, and the
\* first content stamps the time, which is counted in pieces here.
After(p, lines, now) ==
    [first |-> IF p.first = Unknown /\ \E i \in lines : p.events[i].content THEN now ELSE p.first,
     counts |-> FoldLeft(LAMBDA c, i : Merge(Reported(p.events[i]), c), p.counts,
                         SetToSortSeq(lines, <))]

-----------------------------------------------------------------------------
(* A request. *)

\* The scheduler, once the request has its slots (RequestExecution has the waiting).
Schedule(r) ==
    /\ proc[r].pc = "new"
    /\ proc' = [proc EXCEPT ![r].pc = "route", ![r].scheduled = current]
    /\ UNCHANGED <<current, loads, latest>>

\* The route resolves the model again; a refusal passes the scheduler, which records
\* the wait of all but streams.
Refuse(r) ==
    /\ Goes(r, "done")
    /\ IF ~Script(r).stream /\ proc[r].scheduled # Cold
       THEN Record(proc[r].scheduled, Measured(r, Unknown, FALSE, NoCounts))
       ELSE UNCHANGED latest

Route(r) ==
    /\ proc[r].pc = "route"
    /\ IF current = Cold
       THEN Refuse(r)
       ELSE /\ proc' = [proc EXCEPT ![r].gen = current,
                                    ![r].pc = IF Script(r).stream THEN "answered" ELSE "lease"]
            /\ UNCHANGED latest
    /\ UNCHANGED <<current, loads>>

\* lease_runtime: of a JSON answer in the route, where an error is not an answer.
Lease(r) ==
    /\ proc[r].pc = "lease"
    /\ Goes(r, IF current = proc[r].gen THEN "executes" ELSE "done")
    /\ UNCHANGED <<current, loads, latest>>

Execute(r) ==
    /\ proc[r].pc = "executes"
    /\ \/ Goes(r, "executed")
       \/ Goes(r, "failed")
    /\ UNCHANGED <<current, loads, latest>>

Fail(r) == proc[r].pc = "failed" /\ Refuse(r) /\ UNCHANGED <<current, loads>>

\* The scheduler gives the slots back and records the wait.
Leave(r) ==
    /\ proc[r].pc = "executed"
    /\ Goes(r, "answered")
    /\ IF proc[r].scheduled # Cold
       THEN Record(proc[r].scheduled, Measured(r, Unknown, FALSE, NoCounts))
       ELSE UNCHANGED latest
    /\ UNCHANGED <<current, loads>>

\* The metrics middleware resolves the model when the response has come.  (A
\* scheduled_runtime, which would be preferred, is never set.)
Observe(r) ==
    /\ proc[r].pc = "answered"
    /\ proc' = [proc EXCEPT ![r].pc = "body", ![r].noted = current]
    /\ UNCHANGED <<current, loads, latest>>

\* The body is never asked for.
Drop(r) == proc[r].pc = "body" /\ Goes(r, "done") /\ UNCHANGED <<current, loads, latest>>

\* _metrics_from_captured_json, of a whole answer within the limit of the capture.
Captured(r, whole, fits) ==
    IF whole /\ fits THEN Reported(Events(r)[1]) ELSE NoCounts

\* observed_body of a JSON answer, which comes or does not.
Deliver(r) ==
    /\ proc[r].pc = "body" /\ ~Script(r).stream
    /\ \E whole, fits \in BOOLEAN :
         LET m == Measured(r, Unknown, whole, Captured(r, whole, fits))
         IN /\ proc' = [proc EXCEPT ![r].pc = "done", ![r].whole = whole]
            /\ IF proc[r].noted # Cold /\ (m.queue \/ whole)
               THEN Record(proc[r].noted, m)
               ELSE UNCHANGED latest
    /\ UNCHANGED <<current, loads>>

Line(r) == proc[r] @@ [events |-> Events(r)]

\* finish(): what is left of a line is observed, too.
StreamEnds(r, whole) ==
    LET p == Line(r)
        left == IF p.buffer = 2 THEN {(p.sent + 1) \div Pieces} ELSE {}
        a == After(p, left, p.sent)
        m == Measured(r, a.first, whole, a.counts)
    IN /\ proc' = [proc EXCEPT ![r].pc = "done", ![r].whole = whole]
       /\ IF p.noted # Cold /\ (m.queue \/ whole \/ a.first # Unknown \/ a.counts # NoCounts)
          THEN Record(p.noted, m)
          ELSE UNCHANGED latest

\* A stream leases its runtime when its body is first asked for.
StreamLease(r) ==
    /\ proc[r].pc = "body" /\ Script(r).stream
    /\ IF current = proc[r].gen
       THEN Goes(r, "streams") /\ UNCHANGED latest
       ELSE StreamEnds(r, FALSE)
    /\ UNCHANGED <<current, loads>>

\* observe()
Chunk(r, n) ==
    /\ proc[r].pc = "streams" /\ proc[r].sent + n <= Length(r)
    /\ \E lines \in {Complete(Line(r), n)} :
         \E a \in {After(Line(r), lines, proc[r].sent + n)} :
            proc' = [proc EXCEPT ![r].sent = @ + n, ![r].buffer = (proc[r].sent + n) % Pieces,
                                 ![r].first = a.first, ![r].counts = a.counts]
    /\ UNCHANGED <<current, loads, latest>>

\* The stream ends, or its client or its engine cuts it.
End(r) ==
    /\ proc[r].pc = "streams"
    /\ \E whole \in {FALSE, proc[r].sent = Length(r)} : StreamEnds(r, whole)
    /\ UNCHANGED <<current, loads>>

\* Loads, reloads and unloads, which wait until no request holds the runtime.
Change ==
    /\ \A r \in Requests : proc[r].pc \notin {"executes", "streams"}
    /\ \/ loads < MaxLoads /\ loads' = loads + 1 /\ current' = loads + 1
       \/ current # Cold /\ current' = Cold /\ UNCHANGED loads
    /\ UNCHANGED <<proc, latest>>

Next ==
    \/ \E r \in Requests :
        \/ Schedule(r) \/ Route(r) \/ Lease(r) \/ Execute(r) \/ Fail(r) \/ Leave(r)
        \/ Observe(r) \/ Drop(r) \/ Deliver(r) \/ StreamLease(r) \/ End(r)
        \/ \E n \in 1..MaxChunk : Chunk(r, n)
    \/ Change

Spec == Init /\ [][Next]_vars

-----------------------------------------------------------------------------
(* Properties. *)

\* The events of a stream that its client could decode.
Delivered(r) == {i \in 1..Len(Events(r)) : Pieces * i - 1 <= proc[r].sent}

\* The last number of a kind in the first n of some events.
LastKnown(events, n, Number(_)) ==
    LET known == {i \in 1..n : Number(Reported(events[i])) # Unknown}
    IN IF known = {} THEN Unknown
       ELSE Number(Reported(events[CHOOSE i \in known : \A j \in known : j <= i]))

Counts(events, n) ==
    [input |-> LastKnown(events, n, LAMBDA c : c.input),
     output |-> LastKnown(events, n, LAMBDA c : c.output)]

FirstContent(r) == {i \in Delivered(r) : Events(r)[i].content /\
                        \A j \in 1..(i - 1) : ~Events(r)[j].content}

\* The numbers kept for a runtime are those of one request (streaming_metrics.py,
\* "this snapshot belongs to this request only"), as its answer gave them, however the
\* chunks cut it and although the route drops events without a choice; the first output
\* is timed at the chunk that completes it, and only a whole body has a total.  What a
\* stream tells of its execution is kept on the runtime that executed it, although it is
\* resolved when the lease is not yet taken.
MeasuredAsServed ==
    \A g \in Generations : latest[g] # Nothing =>
        LET m == latest[g]
            r == m.of
        IN /\ m.total => proc[r].whole
           /\ Script(r).stream =>
                /\ m.counts = Counts(Events(r), Cardinality(Delivered(r)))
                /\ m.total => m.counts = Counts(Script(r).events, Len(Script(r).events))
                /\ (m.ttft = Unknown) <=> (FirstContent(r) = {})
                /\ \A i \in FirstContent(r) : m.ttft \in (Pieces * i - 1)..(Pieces * i + MaxChunk - 1)
                /\ proc[r].sent > 0 => g = proc[r].gen
           /\ ~Script(r).stream =>
                /\ m.ttft = Unknown
                /\ m.counts # NoCounts => m.total /\ m.counts = Reported(Events(r)[1])

=============================================================================
