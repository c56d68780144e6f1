-------------------------- MODULE WorkerTransport --------------------------
(***************************************************************************)
(* An engine in a process of its own: WorkerBackedEngine (worker_engine.py) *)
(* over SubprocessWorkerTransport (worker_transport.py), the lifecycle of   *)
(* worker_protocol.py and the worker's loop (worker_entrypoint.py).         *)
(*                                                                         *)
(* The constructor starts a child, waits for its answer and has it prepare  *)
(* the engine; then any threads complete, ask for health, drain, cancel and *)
(* close.  A round trip holds a lock: one line is written to the child,     *)
(* however long that takes, and a thread of its own reads one line back.    *)
(* A reader whose round trip has timed out still takes the next line that   *)
(* comes.  The child may fail to load or generate, may never come back from *)
(* it, may die, and may be slow to die.                                     *)
(***************************************************************************)
EXTENDS Naturals, Sequences, FiniteSets

CONSTANTS
  Loader,     \* the thread that constructs the engine
  Requests,   \* calls of transport.request()
  CommandOf,  \* and their commands
  Long,       \* those of them whose line is longer than what the pipe holds
  Stops,      \* calls of close()
  Nobody

Calls == {Loader} \cup Requests \cup Stops

ASSUME WorkerAssumption ==
  /\ Loader \notin Requests \cup Stops /\ Requests \cap Stops = {} /\ Nobody \notin Calls
  /\ CommandOf \in [Requests -> {"generate", "health", "drain", "cancel"}]
  /\ Long \subseteq Requests

VARIABLES
  lifecycle,  \* the owner's view of the worker
  attached,   \* whether the transport has a process
  child,      \* that process: absent, running or dead
  session,    \* the child's state, and whether it has an engine
  hung,       \* the child does not come back from its engine
  inbox,      \* lines on their way to the child
  outbox,     \* and back
  lock,       \* who holds _io_lock
  readers,    \* calls whose reading thread waits for a line
  pc,         \* where a call is
  command,    \* the command of its round trip
  answer      \* the line a round trip has returned with

owner == <<lifecycle, attached, lock, pc, command, answer>>
worker == <<child, session, hung, inbox, outbox>>
vars == <<owner, worker, readers>>

States == {"new", "starting", "ready", "draining", "stopping", "stopped", "failed"}

\* WorkerLifecycle._TRANSITIONS
Transitions == [
  new      |-> {"starting", "stopped", "failed"},
  starting |-> {"ready", "stopping", "failed"},
  ready    |-> {"draining", "stopping", "failed"},
  draining |-> {"ready", "stopping", "failed"},
  stopping |-> {"stopped", "failed"},
  stopped  |-> {},
  failed   |-> {"stopping", "stopped"}]

May(state) == state = lifecycle \/ state \in Transitions[lifecycle]

Accepts(c) ==
  CASE c = "health" -> lifecycle # "stopped"
    [] c = "start" -> lifecycle = "new"
    [] c \in {"prepare", "generate", "drain"} -> lifecycle = "ready"
    [] c = "cancel" -> lifecycle \in {"ready", "draining"}

\* _mark_failed
Failed == IF lifecycle = "stopped" THEN lifecycle ELSE "failed"

-----------------------------------------------------------------------------
Init ==
  /\ lifecycle = "new" /\ attached = FALSE /\ child = "absent"
  /\ session = [state |-> "new", prepared |-> FALSE]
  /\ hung = FALSE
  /\ inbox = << >> /\ outbox = << >>
  /\ lock = Nobody /\ readers = {}
  /\ pc = [c \in Calls |-> "idle"]
  /\ command = [c \in Calls |-> "none"]
  /\ answer = [c \in Calls |-> << >>]

Go(c, place) == pc' = [pc EXCEPT ![c] = place]

\* The round trip of c raises: start() terminates the child, stop() does so in
\* any case, everybody else is left with the exception.
Raised(c) ==
  CASE command[c] = "stop" -> "closing"
    [] command[c] = "start" -> "killing"
    [] OTHER -> "raised"

\* start(): the child may be impossible to create.
Start ==
  /\ pc[Loader] = "idle" /\ Accepts("start")
  /\ \/ /\ child' = "running" /\ attached' = TRUE
        /\ lifecycle' = "starting"
        /\ Go(Loader, "poll")
     \/ /\ lifecycle' = "failed"
        /\ Go(Loader, "raised")
        /\ UNCHANGED <<child, attached>>
  /\ command' = [command EXCEPT ![Loader] = "start"]
  /\ UNCHANGED <<session, hung, inbox, outbox, lock, readers, answer>>

\* The engine has been constructed and is known to others.
Built == pc[Loader] = "returned"

\* request(): the state is checked before the lock is taken.
Request(c) ==
  /\ c \in Requests /\ pc[c] = "idle" /\ Built
  /\ Go(c, IF Accepts(CommandOf[c]) THEN "poll" ELSE "raised")
  /\ command' = [command EXCEPT ![c] = CommandOf[c]]
  /\ UNCHANGED <<lifecycle, attached, lock, answer, worker, readers>>

\* stop() asks a child that runs to stop.
AskToStop(c) ==
  /\ Go(c, IF child = "running" THEN "poll" ELSE "closing")
  /\ command' = [command EXCEPT ![c] = "stop"]

\* stop() up to its transition.
BeginStop(c) ==
  \/ /\ lifecycle = "stopped"
     /\ Go(c, "returned")
     /\ UNCHANGED <<lifecycle, command>>
  \/ /\ lifecycle # "stopped" /\ ~attached
     /\ lifecycle' = IF lifecycle \in {"new", "failed"} THEN "stopped" ELSE lifecycle
     /\ Go(c, "returned")
     /\ UNCHANGED command
  \/ /\ lifecycle = "stopping" /\ attached
     /\ AskToStop(c)
     /\ UNCHANGED lifecycle
  \/ /\ lifecycle \notin {"stopped", "stopping"} /\ attached
     /\ Go(c, "moving")
     /\ UNCHANGED <<lifecycle, command>>

Stop(c) ==
  /\ c \in Stops /\ pc[c] = "idle" /\ Built
  /\ BeginStop(c)
  /\ UNCHANGED <<attached, lock, answer, worker, readers>>

\* The transition of stop(), which raises when another stop has ended in between.
Move(c) ==
  /\ pc[c] = "moving"
  /\ \/ /\ lifecycle # "stopped"
        /\ lifecycle' = "stopping"
        /\ AskToStop(c)
     \/ /\ lifecycle = "stopped"
        /\ Go(c, "raised")
        /\ UNCHANGED <<lifecycle, command>>
  /\ UNCHANGED <<attached, lock, answer, worker, readers>>

\* The first lines of _exchange.
Poll(c) ==
  /\ pc[c] = "poll"
  /\ Go(c, IF attached /\ child = "running" THEN "lock" ELSE Raised(c))
  /\ lifecycle' = IF attached /\ child # "running" THEN Failed ELSE lifecycle
  /\ UNCHANGED <<attached, lock, command, answer, worker, readers>>

Lock(c) ==
  /\ pc[c] = "lock" /\ lock = Nobody
  /\ lock' = c
  /\ Go(c, "write")
  /\ UNCHANGED <<lifecycle, attached, command, answer, worker, readers>>

\* The child takes in what is written, however long: it waits for a line.
Reading == ~hung /\ inbox = << >>

\* The request is written and a thread starts to read, or the pipe is broken.  Until
\* the child reads it, a long line keeps its writer, and the writer keeps the lock.
Write(c) ==
  /\ pc[c] = "write"
  /\ \/ /\ child = "running" /\ (c \in Long => Reading)
        /\ inbox' = Append(inbox, <<c, command[c]>>)
        /\ readers' = readers \cup {c}
        /\ Go(c, "read")
        /\ UNCHANGED lock
     \/ /\ child # "running"
        /\ lock' = Nobody
        /\ Go(c, Raised(c))
        /\ UNCHANGED <<inbox, readers>>
  /\ UNCHANGED <<lifecycle, attached, command, answer, child, session, hung, outbox>>

\* Mutant of Matches: any answer is taken.
MatchesAnything(c, line) == c \in Calls

Matches(c, line) == line.id = <<c, command[c]>>

\* Where a round trip that has its answer goes on.
Accepted(c, line) ==
  CASE c \in Requests -> "answered"
    [] command[c] = "stop" -> "closing"
    [] command[c] = "start" -> IF line.accepted /\ line.state = "ready" THEN "poll" ELSE "killing"
    [] command[c] = "prepare" -> IF line.accepted THEN "returned" ELSE "refused"

\* A reader takes the next line.  When its round trip is over nobody looks at it.
Receive(c) ==
  /\ c \in readers /\ outbox # << >>
  /\ readers' = readers \ {c}
  /\ outbox' = Tail(outbox)
  /\ \E line \in {Head(outbox)} :
       IF pc[c] # "read" THEN UNCHANGED owner
       ELSE /\ lock' = Nobody
            /\ UNCHANGED attached
            /\ IF Matches(c, line)
               THEN /\ answer' = [answer EXCEPT ![c] = line]
                    /\ Go(c, Accepted(c, line))
                    /\ lifecycle' = IF command[c] = "start"
                                    THEN IF Accepted(c, line) = "poll" THEN "ready" ELSE "failed"
                                    ELSE lifecycle
                    /\ command' = IF command[c] = "start" /\ Accepted(c, line) = "poll"
                                  THEN [command EXCEPT ![c] = "prepare"] ELSE command
               ELSE /\ lifecycle' = Failed
                    /\ Go(c, Raised(c))
                    /\ UNCHANGED <<command, answer>>
  /\ UNCHANGED <<child, session, hung, inbox>>

\* The child has closed its end.
ReadNothing(c) ==
  /\ c \in readers /\ outbox = << >> /\ child = "dead"
  /\ readers' = readers \ {c}
  /\ IF pc[c] # "read" THEN UNCHANGED <<lifecycle, lock, pc>>
     ELSE lifecycle' = Failed /\ lock' = Nobody /\ Go(c, Raised(c))
  /\ UNCHANGED <<attached, command, answer, worker>>

\* Mutant of TimeOut: the lock is kept.
TimeOutLocked(c) ==
  /\ pc[c] = "read"
  /\ lifecycle' = Failed
  /\ Go(c, Raised(c))
  /\ UNCHANGED <<attached, lock, command, answer, worker, readers>>

\* The answer does not come in time.
TimeOut(c) ==
  /\ pc[c] = "read"
  /\ lifecycle' = Failed
  /\ lock' = Nobody
  /\ Go(c, Raised(c))
  /\ UNCHANGED <<attached, command, answer, worker, readers>>

\* request() after its round trip: only a drain moves the lifecycle.
Settle(c) ==
  /\ pc[c] = "answered"
  /\ \/ /\ command[c] = "drain" /\ answer[c].accepted /\ answer[c].state = "draining"
        /\ Go(c, IF May("draining") THEN "returned" ELSE "raised")
        /\ lifecycle' = IF May("draining") THEN "draining" ELSE lifecycle
     \/ /\ ~(command[c] = "drain" /\ answer[c].accepted /\ answer[c].state = "draining")
        /\ Go(c, "returned")
        /\ UNCHANGED lifecycle
  /\ UNCHANGED <<attached, lock, command, answer, worker, readers>>

\* The constructor stops a worker that refused to prepare.
GiveUp ==
  /\ pc[Loader] = "refused"
  /\ BeginStop(Loader)
  /\ UNCHANGED <<attached, lock, answer, worker, readers>>

\* Mutant of Terminated: a child that has answered STOP is not waited for.
Trusted == IF hung THEN "dead" ELSE child

\* _terminate_process: SIGTERM, and SIGKILL when that is not enough.
Terminated == IF child = "running" THEN "dead" ELSE child

\* Neither signal ends the child in time: the wait raises and the transport keeps it.
Outlived(c) ==
  /\ attached /\ child = "running"
  /\ hung' = TRUE
  /\ Go(c, "raised")
  /\ UNCHANGED <<child, attached>>

\* The end of stop(); for the constructor an exception follows.
Close(c) ==
  /\ pc[c] = "closing"
  /\ \/ /\ child' = (IF attached THEN Terminated ELSE child)
        /\ attached' = FALSE
        /\ lifecycle' = IF lifecycle \in {"stopping", "failed"} THEN "stopped" ELSE lifecycle
        /\ Go(c, IF c = Loader THEN "raised" ELSE "returned")
        /\ UNCHANGED hung
     \/ Outlived(c) /\ UNCHANGED lifecycle
  /\ UNCHANGED <<lock, command, answer, session, inbox, outbox, readers>>

\* start() fails after its child was created.
Kill ==
  /\ pc[Loader] = "killing"
  /\ lifecycle' = Failed
  /\ \/ /\ child' = Terminated
        /\ attached' = FALSE
        /\ Go(Loader, "raised")
        /\ UNCHANGED hung
     \/ Outlived(Loader)
  /\ UNCHANGED <<lock, command, answer, session, inbox, outbox, readers>>

-----------------------------------------------------------------------------
(* The child.                                                                *)

\* WorkerSession.handle: the new session and whether the command was accepted.
Handled(c) ==
  LET refused == <<session, FALSE>>
      ready == session.state = "ready"
  IN  CASE c = "start" ->
             IF session.state = "new" THEN {<<[session EXCEPT !.state = "ready"], TRUE>>} ELSE {refused}
        [] c = "health" -> {<<session, session.state # "stopped">>}
        [] c = "prepare" ->
             IF ready /\ ~session.prepared
             THEN {<<[session EXCEPT !.prepared = TRUE], TRUE>>, refused} ELSE {refused}
        [] c = "generate" ->
             IF ready /\ session.prepared THEN {<<session, TRUE>>, refused} ELSE {refused}
        [] c = "drain" ->
             IF ready THEN {<<[session EXCEPT !.state = "draining"], TRUE>>} ELSE {refused}
        [] c = "cancel" -> {refused}
        [] c = "stop" -> {<<[state |-> "stopped", prepared |-> FALSE], TRUE>>}

\* run_worker: one line in, one line out; after a stop the child exits.
Work ==
  /\ child = "running" /\ ~hung /\ inbox # << >>
  /\ inbox' = Tail(inbox)
  /\ \E h \in Handled(Head(inbox)[2]) :
       /\ session' = h[1]
       /\ outbox' = Append(outbox, [id |-> Head(inbox), accepted |-> h[2], state |-> h[1].state])
       /\ child' = IF Head(inbox)[2] = "stop" THEN "dead" ELSE "running"
  /\ UNCHANGED <<owner, hung, readers>>

\* Its engine does not come back.
Hang ==
  /\ child = "running" /\ ~hung /\ inbox # << >>
  /\ session.state = "ready"
  /\ \/ Head(inbox)[2] = "prepare" /\ ~session.prepared
     \/ Head(inbox)[2] = "generate" /\ session.prepared
  /\ hung' = TRUE
  /\ UNCHANGED <<owner, child, session, inbox, outbox, readers>>

Crash ==
  /\ child = "running"
  /\ child' = "dead"
  /\ UNCHANGED <<owner, session, hung, inbox, outbox, readers>>

\* The object of a failed constructor is collected, which closes the pipes, when
\* no reader refers to it any more; an idle child then ends.
Collect ==
  /\ pc[Loader] = "raised" /\ readers = {}
  /\ child = "running" /\ ~hung /\ inbox = << >>
  /\ child' = "dead"
  /\ UNCHANGED <<owner, session, hung, inbox, outbox, readers>>

\* What the thread of a call does once the call has begun.
Step(c) ==
  \/ Move(c)
  \/ Poll(c)
  \/ Lock(c)
  \/ Write(c)
  \/ Receive(c)
  \/ ReadNothing(c)
  \/ TimeOut(c)
  \/ Settle(c)
  \/ Close(c)

Next ==
  \/ Start \/ GiveUp \/ Kill
  \/ \E c \in Calls : Request(c) \/ Stop(c) \/ Step(c)
  \/ Work \/ Hang \/ Crash \/ Collect

Spec == Init /\ [][Next]_vars

\* Threads run and time passes; nothing is assumed of the child.
FairSpec == Spec /\ WF_vars(GiveUp \/ Kill) /\ \A c \in Calls : WF_vars(Step(c))

-----------------------------------------------------------------------------
(* Properties.                                                               *)

\* Every variable has the type the source declares for it.
TypeOK ==
  /\ lifecycle \in States /\ session.state \in States /\ session.prepared \in BOOLEAN
  /\ attached \in BOOLEAN /\ hung \in BOOLEAN
  /\ child \in {"absent", "running", "dead"}
  /\ lock \in Calls \cup {Nobody} /\ readers \subseteq Calls
  /\ pc \in [Calls -> {"idle", "moving", "poll", "lock", "write", "read", "answered", "refused",
                       "closing", "killing", "returned", "raised"}]

\* A round trip returns the answer to its own request, however late the answers
\* of earlier ones come and whoever reads them (worker_transport.py, the check
\* of request_id).
OwnAnswer ==
  \A c \in Calls : answer[c] # << >> => answer[c].id[1] = c

\* What the lifecycle says, and what stop() says by returning, is so.  A worker that is
\* stopped, and one that some thread has come back from stopping, has no process, also
\* when several threads stop it, others talk to it and the child hangs
\* (docs/architecture.md, "Worker exit can be an ownership boundary"); and an engine whose
\* constructor has returned, and whose transport is not known to have failed, is one that
\* the child has prepared.
LifecycleIsTrue ==
  /\ lifecycle = "stopped" => ~attached /\ child # "running"
  /\ \A c \in Stops : pc[c] = "returned" => child # "running"
  /\ Built /\ lifecycle \in {"ready", "draining"} => session.prepared \/ child = "dead"

\* A call is kept by its line.
Stuck == \E c \in Long : pc[c] = "write"

Ended(c) == pc[c] \in {"returned", "raised"}

\* A stop ends, whatever answers are late or lost, whoever else stops the worker and
\* however its child fails; unless a call is kept for good by its line to a child that
\* neither reads nor dies, for such a call has the lock.
StopEnds == \A c \in Stops : [](pc[c] # "idle" => <>Ended(c) \/ <>[]Stuck)

\* A stop ends in every case ("bounded round trips and shutdown semantics",
\* worker_transport.py).
StopIsBounded == \A c \in Stops : pc[c] # "idle" ~> Ended(c)

=============================================================================
