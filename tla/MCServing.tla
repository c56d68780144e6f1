------------------------------ MODULE MCServing ------------------------------
(* Instances of the components between a request and its answer, of those that    *)
(* keep its runtime, and of what is measured of both.  They share no state here,   *)
(* so one run checks their sum: the initial state chooses which of them the        *)
(* behaviour is of.  The components of Serving have variables of their own, which   *)
(* stay as they are in the behaviours of the others; v1 to v12 stand for the        *)
(* variables of the governor's rotation, of the reasoning boundary or of the       *)
(* metrics, 0 where there are none.                                                *)
EXTENDS Serving

CONSTANT NoTimeout

VARIABLES v1, v2, v3, v4, v5, v6, v7, v8, v9, v10, v11, v12

\* Three runtimes with queued work: a with two submissions, b and c with one each.  a
\* runs two executions at a time, the others one.
Turns == INSTANCE GovernorRoundRobin WITH
    Waiter <- {"a1", "a2", "b1", "c1"}, Id <- {"a1", "a2", "b1", "c1"},
    Runtime <- {"a", "b", "c"}, IdOf <- [w \in {"a1", "a2", "b1", "c1"} |-> w],
    RuntimeOf <- [w \in {"a1", "a2", "b1", "c1"} |->
                    CASE w = "b1" -> "b" [] w = "c1" -> "c" [] OTHER -> "a"],
    CapOf <- [w \in {"a1", "a2", "b1", "c1"} |-> IF w \in {"a1", "a2"} THEN 2 ELSE 1],
    MaxRunning <- 1, QueueCapacity <- 4, Timeouts <- {NoTimeout}, None <- NoTimeout, MaxClock <- 0,
    waiters <- v1, state <- v2, deadline <- v3, queues <- v4, order <- v5,
    runtimeInflight <- v6, inflight <- v7, owner <- v8, thread <- v9, notified <- v10,
    clock <- v11, turns <- v12

\* r3 streams an answer with thinking on, to the prompt of the others.
MCWants(r) == [stream |-> r = "r3", greedy |-> TRUE, image |-> FALSE, prompt |-> "a",
               thinking |-> IF r = "r3" THEN "on" ELSE "unset"]

\* A runtime that cannot think, and one that can and sees images.
MCConfigs == {[thinking |-> "none", forwards |-> TRUE, image |-> FALSE],
              [thinking |-> "switchable", forwards |-> TRUE, image |-> TRUE]}

MCKind == [e \in {"e1", "e2"} |-> IF e = "e1" THEN "llama" ELSE "vlm"]

Boundary == INSTANCE ReasoningBoundary WITH
    MaxRaw <- 5, MaxChunk <- 3, Faults <- TRUE,
    req <- v1, raw <- v2, parser <- v3, parts <- v4, filter <- v5, shown <- v6, told <- v7,
    pc <- v8

Unread == [input |-> -1, output |-> -1]
Counted(i, o) == [input |-> i, output |-> o]
Event(choices, content, usage, timings) ==
    [choices |-> choices, content |-> content, usage |-> usage, timings |-> timings]

Script(r) ==
    IF r = "r1"
    THEN [stream |-> TRUE,
          events |-> <<Event(FALSE, FALSE, Unread, Unread),
                       Event(FALSE, FALSE, Counted(1, -1), Unread),
                       Event(TRUE, TRUE, Unread, Counted(3, 1)),
                       Event(FALSE, FALSE, Counted(-1, 2), Unread)>>]
    ELSE [stream |-> FALSE, events |-> <<Event(TRUE, TRUE, Counted(1, -1), Counted(2, 2))>>]

Metrics == INSTANCE RequestMetrics WITH
    Requests <- {"r1", "r2"}, MaxChunk <- 4, MaxLoads <- 2,
    current <- v1, loads <- v2, proc <- v3, latest <- v4

others == <<v1, v2, v3, v4, v5, v6, v7, v8, v9, v10, v11, v12>>

OthersInit ==
    \/ component = "turns" /\ Turns!RRInit
    \/ component = "boundary" /\ Boundary!Init /\ v9 = 0 /\ v10 = 0 /\ v11 = 0 /\ v12 = 0
    \/ /\ component = "metrics" /\ Metrics!Init
       /\ v5 = 0 /\ v6 = 0 /\ v7 = 0 /\ v8 = 0 /\ v9 = 0 /\ v10 = 0 /\ v11 = 0 /\ v12 = 0
    \/ /\ component \in {"log", "pressure", "residency", "images", "backends", "chat"}
       /\ v1 = 0 /\ v2 = 0 /\ v3 = 0 /\ v4 = 0 /\ v5 = 0 /\ v6 = 0
       /\ v7 = 0 /\ v8 = 0 /\ v9 = 0 /\ v10 = 0 /\ v11 = 0 /\ v12 = 0

OthersNext ==
    \/ component = "turns" /\ Turns!RRNext
    \/ component = "boundary" /\ Boundary!Next /\ UNCHANGED <<v9, v10, v11, v12>>
    \/ /\ component = "metrics" /\ Metrics!Next
       /\ UNCHANGED <<v5, v6, v7, v8, v9, v10, v11, v12>>

ServingInit == OthersInit /\ ServedInit

ServingNext ==
    \/ OthersNext /\ UNCHANGED servingVars
    \/ ServedNext /\ UNCHANGED others

ServingSpec == ServingInit /\ [][ServingNext]_<<servingVars, others>>

-----------------------------------------------------------------------------
(* Properties: those of the components that are not in Serving. *)

\* Round robin: while a runtime has work that could run, no other runtime takes a second
\* turn before it has had its own (global_execution_governor.py,
\* test_round_robin_fairness_prevents_one_runtime_from_starving_another).
NoSecondTurn ==
    [][component = "turns" => Turns!TurnIsDue]_<<component, others>>

\* No byte of a reasoning block reaches a client that may not see it, however the
\* delimiters are cut by the chunks (reasoning_boundary.py), and a structured stream
\* delivers a valid document or an error, never part of one (reasoning_http.py).
OnlyTheAnswerIsShown ==
    component = "boundary" => Boundary!OnlyTheAnswerIsShown /\ Boundary!StructuredIsValidOrRefused

\* What is measured of a request is what its answer said, and is kept on the runtime that
\* gave it (streaming_metrics.py, completion_metrics.py).
MeasuredAsServed == component = "metrics" => Metrics!MeasuredAsServed

=============================================================================
