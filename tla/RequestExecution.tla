-------------------------- MODULE RequestExecution --------------------------
(***************************************************************************)
(* How a request gets from its arrival to an engine and gives back what it *)
(* took on the way: request_scheduler.py (the gate of its runtime, then    *)
(* the global governor), request_resource_admission.py (transient memory), *)
(* the route with its lease (server.py, runtime.py), and the two clients   *)
(* of the governor that are no such request, transcriptions and evaluation *)
(* samples.  Gate and governor are both configured; RuntimeGate and        *)
(* GlobalExecutionGovernor model them in detail, here they are the lines   *)
(* and slots of an AdmissionPool.                                          *)
(*                                                                         *)
(* HTTP requests are tasks of one event loop.  They wait for the governor  *)
(* in a thread of the loop's executor, of which there are few, and execute *)
(* in a thread of the route.  An evaluation has a thread of its own; a     *)
(* transcription waits and executes on the loop itself, which stands still *)
(* meanwhile.                                                              *)
(***************************************************************************)
EXTENDS Integers, Sequences, FiniteSets, Selections, Sums

CONSTANTS
  Http, Transcription, Sample,  \* the requests, each made once
  Streams,        \* HTTP requests answered by a stream
  Timed,          \* HTTP requests with a deadline for the complete wait
  Key, KeyOf,     \* runtime keys, and the model each request asks for
  Cap,            \* max_concurrent_requests of each key
  GateCapacity,   \* queue_capacity
  GlobalSlots,    \* global_max_running
  GlobalCapacity, \* global_queue_capacity
  Threads,        \* threads of the loop's default executor
  Need,           \* estimated transient bytes of a request; None when unknown
  Budget,         \* usable bytes beside the resident runtimes
  MaxResidency,   \* bounds of the model on the residencies of each key
  None

Request == Http \cup Transcription \cup Sample
Direct == Transcription \cup Sample

Runtime == UNION {{k} \X (1..MaxResidency[k]) : k \in Key}

ASSUME ExecutionAssumption ==
  /\ IsFiniteSet(Request)
  /\ Http \cap Direct = {} /\ Transcription \cap Sample = {}
  /\ Streams \subseteq Http /\ Timed \subseteq Http
  /\ KeyOf \in [Request -> Key]
  /\ Cap \in [Key -> Nat \ {0}]
  /\ {GateCapacity, GlobalSlots, GlobalCapacity, Threads} \subseteq Nat \ {0}
  /\ MaxResidency \in [Key -> Nat \ {0}]
  /\ Need \in [Request -> Nat \cup {None}] /\ None \notin Nat \cup Runtime
  /\ Budget \in Nat

VARIABLES
  resident,  \* the residency every key has now, 0 when it is not loaded
  made,      \* how many residencies it has had
  at,        \* where a request is
  retried,   \* requests in their second attempt
  uses,      \* the runtime an attempt was made for, None without admission
  gateLine,  \* who waits at the gate of a runtime, oldest first
  gateSlots, \* who holds a slot of it
  line,      \* who waits for the governor, for each key
  order,     \* the keys with a queue there, in the order of their next turns
  slots,     \* who holds a slot of the governor
  jobs,      \* calls of governor.wait() the executor has still to start
  waiting,   \* those that have a thread
  reserved,  \* requests with a transient reservation in the ledger
  serves,    \* the runtime the handler of a request has resolved
  gone,      \* requests whose task was cancelled
  due,       \* requests whose deadline has passed
  blocked    \* the transcription the event loop is busy with

admission == <<at, retried, uses, gateLine, gateSlots, line, order, slots, jobs>>
residency == <<resident, made>>
vars == <<admission, residency, waiting, reserved, serves, gone, due, blocked>>

\* Nobody has a place twice.  prepared: past the request policy.  gate,
\* governor: in a line.  refused: out of time in the second one.  admitted:
\* about to reserve memory.  route: in the handler.  body: a stream that has
\* not begun.  leased: at the semaphore of the runtime.  executing.  responded:
\* back in the memory middleware.  answered: back in the scheduler.  lost: a
\* stream whose body nobody iterates.
Places == {"new", "prepared", "gate", "governor", "refused", "admitted", "route", "body",
           "leased", "executing", "responded", "answered", "lost", "over"}

-----------------------------------------------------------------------------
(* Admission, as operators on a value w of the admission variables.          *)

Admission == [at |-> at, retried |-> retried, uses |-> uses, gateLine |-> gateLine,
              gateSlots |-> gateSlots, line |-> line, order |-> order, slots |-> slots,
              jobs |-> jobs]

Becomes(w) ==
  /\ at' = w.at /\ retried' = w.retried /\ uses' = w.uses
  /\ gateLine' = w.gateLine /\ gateSlots' = w.gateSlots
  /\ line' = w.line /\ order' = w.order /\ slots' = w.slots /\ jobs' = w.jobs

Put(w, r, place) == [w EXCEPT !.at[r] = place]

Without(s, r) == Only(s, Request \ {r})

\* The places in a line whose requests are in time.
Live(s) == {i \in DOMAIN s : s[i] \notin due}

Current(r) == <<KeyOf[r], resident[KeyOf[r]]>>

\* Mutant of Resolves: a model that is known is taken for one that is resident.
ResolvesAnyway(r) == resident[KeyOf[r]] \in Nat

\* manager.resolve finds a runtime for r's model.
Resolves(r) == resident[KeyOf[r]] # 0

\* Mutant of SlotFor: the limit of the runtime is not looked at.
SlotForAny(w, k) == Cardinality(w.slots) < GlobalSlots

\* The governor has a slot for key k.
SlotFor(w, k) ==
  /\ Cardinality(w.slots) < GlobalSlots
  /\ Cardinality({r \in w.slots : KeyOf[r] = k}) < Cap[k]

\* _admit_available_locked.  After one arrival or one departure at most one
\* waiter can be admitted: the oldest of the first runtime in the order that may
\* run one more.  That runtime goes to the end, behind those passed over.
AdmitAvailable(w) ==
  LET queued == {k \in Key : Live(w.line[k]) # {}}
      able == {i \in DOMAIN w.order : w.order[i] \in queued /\ SlotFor(w, w.order[i])}
      i == Min(able)
      k == w.order[i]
      first == w.line[k][Min(Live(w.line[k]))]
      others == Without(w.line[k], first)
  IN  IF Cardinality(w.slots) >= GlobalSlots THEN w
      ELSE IF able = {} THEN [w EXCEPT !.order = Only(@, queued)]
      ELSE [w EXCEPT !.slots = @ \cup {first},
                     !.line[k] = others,
                     !.order = SubSeq(@, i + 1, Len(@))
                               \o Only(SubSeq(@, 1, i - 1), queued)
                               \o (IF others = << >> THEN << >> ELSE <<k>>)]

\* The same as a function, for which TLC evaluates w once.
Granted(w) == [v \in {w} |-> AdmitAvailable(v)][w]

\* Mutant of LeaveGovernor: the slot that became free is offered to nobody.
LeaveQuietly(w, r) ==
  [w EXCEPT !.slots = @ \ {r}, !.line[KeyOf[r]] = Without(@, r)]

\* governor.release() or abandon().
LeaveGovernor(w, r) ==
  Granted([w EXCEPT !.slots = @ \ {r}, !.line[KeyOf[r]] = Without(@, r)])

\* gate.release() or cancel(), and forget().
LeaveGate(w, r) ==
  [w EXCEPT !.gateSlots[w.uses[r]] = @ \ {r}, !.gateLine[w.uses[r]] = Without(@, r)]

\* Mutant of Release: the slot of the gate is kept.
ReleaseGovernor(w, r) == IF w.uses[r] = None THEN w ELSE LeaveGovernor(w, r)

\* _release_admission, with the abandonment before it.
Release(w, r) ==
  IF w.uses[r] = None THEN w
  ELSE LeaveGovernor(IF r \in Http THEN LeaveGate(w, r) ELSE w, r)

Leaves(w, r, place) == Put(Release(w, r), r, place)

\* governor.submit() has room: a place in the queue, or a slot at once.
HasRoom(w, r) ==
  \/ MapThenSumSet(LAMBDA k : Cardinality(Live(w.line[k])), Key) < GlobalCapacity
  \/ SlotFor(w, KeyOf[r])

Submitted(w, r) ==
  LET k == KeyOf[r]
      kept == \E i \in DOMAIN w.order : w.order[i] = k
  IN  Granted([Put(w, r, "governor") EXCEPT !.line[k] = Append(@, r),
                                            !.order = IF kept THEN @ ELSE Append(@, k)])

\* The part of an attempt behind the gate: submit and hand wait() to a thread.
Submit(w, r) ==
  IF r \in due \/ ~HasRoom(w, r) THEN Leaves(w, r, "over")
  ELSE [Submitted(w, r) EXCEPT !.jobs = Append(@, r)]

\* The requests before r in the line of its gate that are in time.
Ahead(w, r) ==
  LET l == w.gateLine[w.uses[r]]
  IN  {i \in DOMAIN l : /\ l[i] \notin due
                        /\ \A j \in DOMAIN l : l[j] = r => i < j}

GateOpen(w, r) ==
  Cardinality(w.gateSlots[w.uses[r]]) + Cardinality(Ahead(w, r)) < Cap[KeyOf[r]]

ThroughGate(w, r) ==
  [w EXCEPT !.gateSlots[w.uses[r]] = @ \cup {r}, !.gateLine[w.uses[r]] = Without(@, r)]

\* Waits at the gate of w.uses[r], if that has room.
JoinGate(w, r) ==
  IF Cardinality(Live(w.gateLine[w.uses[r]])) >= GateCapacity THEN Put(w, r, "over")
  ELSE [Put(w, r, "gate") EXCEPT !.gateLine[w.uses[r]] = Append(@, r)]

\* Mutant of Attempt: the deadline is not looked at before the gate.
AttemptRegardless(w, r) ==
  IF Resolves(r) THEN JoinGate([w EXCEPT !.uses[r] = Current(r)], r)
  ELSE [Put(w, r, "admitted") EXCEPT !.uses[r] = None]

\* An attempt up to the first line it has to wait in: the gate of the runtime
\* that is resident now, or the governor.  Without a runtime the request goes on
\* to its route, which will say so.
Attempt(w, r) ==
  LET v == [w EXCEPT !.uses[r] = Current(r)]
  IN  IF ~Resolves(r) THEN [Put(w, r, "admitted") EXCEPT !.uses[r] = None]
      ELSE IF r \in due THEN Put(v, r, "over")
      ELSE IF GateOpen(v, r) THEN Submit(ThroughGate(v, r), r)
      ELSE JoinGate(v, r)

\* The runtime was replaced while r waited: everything is given back, and the
\* first attempt is followed by another one.
Again(w, r) ==
  IF r \in w.retried THEN Leaves(w, r, "over")
  ELSE Attempt([Release(w, r) EXCEPT !.retried = @ \cup {r}], r)

-----------------------------------------------------------------------------
(* The memory ledger.                                                        *)

\* Mutant of Fits: what others have reserved is not counted.
FitsAlone(r) == Need[r] <= Budget

Fits(r) == Total(Need, reserved) + Need[r] <= Budget

\* The loop can run a step of r: it is not busy with another request.
Loop(r) == blocked \in {None, r}

-----------------------------------------------------------------------------
Init ==
  /\ resident = [k \in Key |-> 0]
  /\ made = [k \in Key |-> 0]
  /\ at = [r \in Request |-> "new"]
  /\ retried = {}
  /\ uses = [r \in Request |-> None]
  /\ gateLine = [x \in Runtime |-> << >>]
  /\ gateSlots = [x \in Runtime |-> {}]
  /\ line = [k \in Key |-> << >>]
  /\ order = << >>
  /\ slots = {}
  /\ jobs = << >>
  /\ waiting = {}
  /\ reserved = {}
  /\ serves = [r \in Request |-> None]
  /\ gone = {}
  /\ due = {}
  /\ blocked = None

\* The request policy resolves the model; without a runtime the request passes
\* every admission and goes to its route.
Arrive(r) ==
  /\ r \in Http /\ at[r] = "new" /\ Loop(r)
  /\ Becomes(Put(Admission, r, IF Resolves(r) THEN "prepared" ELSE "route"))
  /\ UNCHANGED <<residency, waiting, reserved, serves, gone, due, blocked>>

\* The scheduler's first attempt.
Schedule(r) ==
  /\ at[r] = "prepared" /\ Loop(r)
  /\ \E w \in {Attempt(Admission, r)} : Becomes(w)
  /\ UNCHANGED <<residency, waiting, reserved, serves, gone, due, blocked>>

\* gate.acquire() returns: it is r's turn.
PassGate(r) ==
  /\ at[r] = "gate" /\ r \notin due /\ Loop(r)
  /\ GateOpen(Admission, r)
  /\ \E w \in {IF uses[r] = Current(r) THEN Submit(ThroughGate(Admission, r), r)
               ELSE Again(ThroughGate(Admission, r), r)} : Becomes(w)
  /\ UNCHANGED <<residency, waiting, reserved, serves, gone, due, blocked>>

\* gate.acquire() raises: the time is over.
TimeOutAtGate(r) ==
  /\ at[r] = "gate" /\ r \in due /\ Loop(r)
  /\ Becomes(Put(LeaveGate(Admission, r), r, "over"))
  /\ UNCHANGED <<residency, waiting, reserved, serves, gone, due, blocked>>

\* A thread of the executor takes the oldest call of wait().
StartWait ==
  /\ jobs # << >> /\ Cardinality(waiting) < Threads
  /\ waiting' = waiting \cup {Head(jobs)}
  /\ Becomes([Admission EXCEPT !.jobs = Tail(@)])
  /\ UNCHANGED <<residency, reserved, serves, gone, due, blocked>>

Queues(r) == \E i \in 1..Len(line[KeyOf[r]]) : line[KeyOf[r]][i] = r

\* The call of wait() ends: with a permit, because the waiter is out of time or
\* because the acquisition was abandoned.
EndWait(r) ==
  /\ r \in waiting
  /\ Queues(r) => r \in due
  /\ waiting' = waiting \ {r}
  /\ Becomes(IF Queues(r)
             THEN [Put(Admission, r, "refused") EXCEPT !.line[KeyOf[r]] = Without(@, r)]
             ELSE Admission)
  /\ UNCHANGED <<residency, reserved, serves, gone, due, blocked>>

\* The loop hears of it.
Deliver(r) ==
  /\ r \in Http /\ Loop(r)
  /\ \/ /\ at[r] = "governor" /\ r \in slots /\ r \notin waiting
        /\ \A i \in 1..Len(jobs) : jobs[i] # r
        /\ \E w \in {IF uses[r] = Current(r) THEN Put(Admission, r, "admitted")
                     ELSE Again(Admission, r)} : Becomes(w)
     \/ /\ at[r] = "refused"
        /\ \E w \in {Leaves(Admission, r, "over")} : Becomes(w)
  /\ UNCHANGED <<residency, waiting, reserved, serves, gone, due, blocked>>

\* A transcription or an evaluation sample asks the governor, without a deadline.
Acquire(r) ==
  /\ r \in Direct /\ at[r] = "new" /\ Resolves(r)
  /\ r \in Transcription => Loop(r)
  /\ \/ /\ HasRoom(Admission, r)
        /\ \E w \in {Submitted([Admission EXCEPT !.uses[r] = Current(r)], r)} : Becomes(w)
        /\ blocked' = IF r \in Transcription THEN r ELSE blocked
     \/ /\ ~HasRoom(Admission, r)
        /\ Becomes(Put(Admission, r, "over"))
        /\ UNCHANGED blocked
  /\ UNCHANGED <<residency, waiting, reserved, serves, gone, due>>

\* It is its turn; when its runtime was replaced meanwhile it gives up.
Proceed(r) ==
  /\ r \in Direct /\ at[r] = "governor" /\ r \in slots
  /\ Becomes(Put(Admission, r, IF uses[r] = Current(r) THEN "admitted" ELSE "answered"))
  /\ UNCHANGED <<residency, waiting, reserved, serves, gone, due, blocked>>

\* reserve_transient_resource: without an estimate, or without a runtime to make
\* one for, nothing is reserved.
Reserve(r) ==
  /\ at[r] = "admitted"
  /\ r \in Http => Loop(r)
  /\ \/ /\ Need[r] = None \/ (r \in Http /\ ~Resolves(r))
        /\ Becomes(Put(Admission, r, "route"))
        /\ UNCHANGED reserved
     \/ /\ Need[r] # None /\ (r \in Http => Resolves(r))
        /\ Fits(r)
        /\ reserved' = reserved \cup {r}
        /\ Becomes(Put(Admission, r, "route"))
     \/ /\ Need[r] # None /\ (r \in Http => Resolves(r))
        /\ ~Fits(r)
        /\ Becomes(Put(Admission, r, "answered"))
        /\ UNCHANGED reserved
  /\ UNCHANGED <<residency, waiting, serves, gone, due, blocked>>

\* The handler has a runtime to serve r with: the one that is resident, or for a
\* direct client the one it asked the governor for.
Servable(r) == Resolves(r) /\ (r \in Direct => uses[r] = Current(r))

\* Mutant of Handle: the memory of a stream goes back with its response, before its body.
HandleReturning(r) ==
  /\ at[r] = "route" /\ Servable(r)
  /\ r \in Http => Loop(r)
  /\ serves' = [serves EXCEPT ![r] = Current(r)]
  /\ reserved' = IF r \in Streams THEN reserved \ {r} ELSE reserved
  /\ Becomes(Put(Admission, r, IF r \in Streams THEN "body" ELSE "leased"))
  /\ UNCHANGED <<residency, waiting, gone, due, blocked>>

\* The handler leases the runtime; that of a stream returns a response first.
Handle(r) ==
  /\ at[r] = "route" /\ Servable(r)
  /\ r \in Http => Loop(r)
  /\ serves' = [serves EXCEPT ![r] = Current(r)]
  /\ Becomes(Put(Admission, r, IF r \in Streams THEN "body" ELSE "leased"))
  /\ UNCHANGED <<residency, waiting, reserved, gone, due, blocked>>

\* The model is not resident.
HandleFails(r) ==
  /\ at[r] = "route" /\ ~Servable(r)
  /\ r \in Http => Loop(r)
  /\ Becomes(Put(Admission, r, "responded"))
  /\ UNCHANGED <<residency, waiting, reserved, serves, gone, due, blocked>>

\* The server begins to iterate the body, which leases the runtime or fails.
StartBody(r) ==
  /\ at[r] = "body" /\ Loop(r)
  /\ \/ serves[r] = Current(r) /\ Becomes(Put(Admission, r, "leased")) /\ UNCHANGED serves
     \/ /\ serves[r] # Current(r)
        /\ Becomes(Put(Admission, r, "responded"))
        /\ serves' = [serves EXCEPT ![r] = None]
  /\ UNCHANGED <<residency, waiting, reserved, gone, due, blocked>>

\* The connection is lost before that, and nobody iterates the generators.
LoseBody(r) ==
  /\ at[r] = "body" /\ Loop(r)
  /\ Becomes(Put(Admission, r, "lost"))
  /\ UNCHANGED <<residency, waiting, reserved, serves, gone, due, blocked>>

Executing(x) == {r \in Request : at[r] = "executing" /\ serves[r] = x}

\* The semaphore of the runtime lets r in.
Execute(r) ==
  /\ at[r] = "leased"
  /\ Cardinality(Executing(serves[r])) < Cap[KeyOf[r]]
  /\ Becomes(Put(Admission, r, "executing"))
  /\ UNCHANGED <<residency, waiting, reserved, serves, gone, due, blocked>>

\* The engine is done, the lease ends; a stream may also be cut off.
Finish(r) ==
  /\ at[r] = "executing"
  /\ r \in Streams => Loop(r)
  /\ serves' = [serves EXCEPT ![r] = None]
  /\ Becomes(Put(Admission, r, IF r \in gone THEN "over" ELSE "responded"))
  /\ UNCHANGED <<residency, waiting, reserved, gone, due, blocked>>

\* reservation.release(), when the response or the body is complete.
ReturnMemory(r) ==
  /\ at[r] = "responded"
  /\ r \in Http => Loop(r)
  /\ reserved' = reserved \ {r}
  /\ Becomes(Put(Admission, r, "answered"))
  /\ UNCHANGED <<residency, waiting, serves, gone, due, blocked>>

\* _release_admission, and the end of the request.
ReturnSlots(r) ==
  /\ at[r] = "answered"
  /\ r \in Http => Loop(r)
  /\ \E w \in {Leaves(Admission, r, "over")} : Becomes(w)
  /\ blocked' = IF blocked = r THEN None ELSE blocked
  /\ UNCHANGED <<residency, waiting, reserved, serves, gone, due>>

\* The task of a request is cancelled while it is suspended.  What it holds goes
\* back at once; a handler that executes in its thread is not interrupted.
Cancel(r) ==
  /\ r \in Http \ gone /\ Loop(r)
  /\ at[r] \in {"gate", "governor", "refused", "admitted", "route"}
     \/ (at[r] \in {"leased", "executing"} /\ r \notin Streams)
  /\ gone' = gone \cup {r}
  /\ reserved' = reserved \ {r}
  /\ \E w \in {Leaves(Admission, r,
                      IF at[r] \in {"leased", "executing"} THEN at[r] ELSE "over")} : Becomes(w)
  /\ UNCHANGED <<residency, waiting, serves, due, blocked>>

Leases(x) == {r \in Request : at[r] \in {"leased", "executing"} /\ serves[r] = x}

\* The runtime manager loads a model, or unloads one or replaces it when nobody
\* has a lease of it.
ChangeResidency(k) ==
  /\ resident[k] # 0 => Leases(<<k, resident[k]>>) = {}
  /\ \/ /\ resident[k] # 0
        /\ resident' = [resident EXCEPT ![k] = 0]
        /\ UNCHANGED made
     \/ /\ made[k] < MaxResidency[k]
        /\ made' = [made EXCEPT ![k] = @ + 1]
        /\ resident' = [resident EXCEPT ![k] = made[k] + 1]
  /\ UNCHANGED <<admission, waiting, reserved, serves, gone, due, blocked>>

\* A deadline passes while its request waits.
Lapse(r) ==
  /\ r \in Timed \ due
  /\ at[r] \in {"prepared", "gate", "governor"}
  /\ due' = due \cup {r}
  /\ UNCHANGED <<admission, residency, waiting, reserved, serves, gone, blocked>>

\* What the tasks and threads of a request do for it.
Step(r) ==
  \/ Schedule(r)
  \/ PassGate(r)
  \/ TimeOutAtGate(r)
  \/ EndWait(r)
  \/ Deliver(r)
  \/ Proceed(r)
  \/ Reserve(r)
  \/ Handle(r)
  \/ HandleFails(r)
  \/ StartBody(r)
  \/ Execute(r)
  \/ Finish(r)
  \/ ReturnMemory(r)
  \/ ReturnSlots(r)

Next ==
  \/ \E r \in Request : Step(r) \/ Arrive(r) \/ Acquire(r) \/ LoseBody(r) \/ Cancel(r) \/ Lapse(r)
  \/ StartWait
  \/ \E k \in Key : ChangeResidency(k)

Spec == Init /\ [][Next]_vars

\* Tasks and threads that can run do, and an engine finishes.
FairSpec == Spec /\ WF_vars(StartWait) /\ \A r \in Request : WF_vars(Step(r))

-----------------------------------------------------------------------------
(* Properties.                                                               *)

\* Every variable has the type the source declares for it.
TypeOK ==
  /\ \A k \in Key : resident[k] \in 0..made[k] /\ made[k] \in 0..MaxResidency[k]
  /\ at \in [Request -> Places]
  /\ retried \subseteq Http /\ gone \subseteq Http /\ due \subseteq Timed
  /\ uses \in [Request -> Runtime \cup {None}] /\ serves \in [Request -> Runtime \cup {None}]
  /\ gateLine \in [Runtime -> Seq(Http)] /\ gateSlots \in [Runtime -> SUBSET Http]
  /\ line \in [Key -> Seq(Request)] /\ order \in Seq(Key) /\ slots \subseteq Request
  /\ jobs \in Seq(Http) /\ waiting \subseteq Http
  /\ reserved \subseteq Request
  /\ blocked \in Transcription \cup {None}

Left(r) == at[r] \in {"new", "over"} \/ r \in gone

\* Whoever has left keeps nothing: no slot or place of any gate, first or second
\* attempt, none of the governor and no memory, on every path out of the stack of
\* middlewares.  Whoever has not holds at most the gate of its present attempt.
NothingKept ==
  \A r \in Request :
    /\ \A x \in Runtime :
         (r \in gateSlots[x] \/ \E i \in 1..Len(gateLine[x]) : gateLine[x][i] = r) =>
           ~Left(r) /\ x = uses[r]
    /\ Left(r) => r \notin slots \cup reserved /\ ~Queues(r)

\* Requests that execute and were admitted hold a slot of the governor, so that
\* at most global_max_running of them execute; and one that waits at the
\* semaphore of a runtime beside its slot does so because of requests without one
\* (global_execution_governor.py, "global slots are never wasted on work that
\* would immediately block on the runtime semaphore").
SlotsAreWorth ==
  /\ Cardinality(slots) <= GlobalSlots
  /\ \A r \in Request :
       at[r] \in {"leased", "executing"} /\ uses[r] # None /\ r \notin gone => r \in slots
  /\ \A r \in slots :
       at[r] = "leased" /\ Executing(serves[r]) \subseteq slots =>
         Cardinality(Executing(serves[r])) < Cap[KeyOf[r]]

\* r is in the hands of the runtime it was admitted for: it waits there, executes, or
\* its stream does.
ServedAsAdmitted(r) == at[r] \in {"body", "leased", "executing"} /\ serves[r] = uses[r]

\* Requests that wait for their execution hold no memory; those that were let in with an
\* estimate of it do, within the budget, to the end of their execution or, behind their
\* response, of their stream, whoever is cancelled and whatever is unloaded meanwhile
\* (docs/architecture.md, "Requests waiting only for execution capacity do not reserve
\* transient memory").
MemoryFollowsAdmission ==
  /\ Total(Need, reserved) <= Budget
  /\ \A r \in reserved : at[r] \notin {"prepared", "gate", "governor", "refused", "admitted"}
  /\ \A r \in Request \ gone : ServedAsAdmitted(r) /\ Need[r] # None => r \in reserved

\* One deadline covers both lines and both attempts: a request that is late never
\* joins a line again (docs/configuration-reference.md, "The timeout covers the
\* combined pre-execution wait").
LateRequestsDoNotQueue ==
  [][\A r \in due :
       /\ at'[r] \in {"gate", "governor"} => at'[r] = at[r] /\ uses'[r] = uses[r]]_vars

Waits(r) == at[r] \in {"prepared", "gate", "governor", "refused"}

\* As long as no body is lost and no transcription holds the loop for ever,
\* nobody waits for ever.
EveryRequestIsAnswered ==
  [](\A r \in Request : at[r] # "lost") /\ []<>(blocked = None) =>
    \A r \in Request : Waits(r) ~> ~Waits(r)

=============================================================================
