---------------------------- MODULE RuntimeGate ----------------------------
(***************************************************************************)
(* The admission gate of one runtime residency: AsyncRuntimeGate of        *)
(* async_scheduler.py over the BoundedScheduler of scheduler.py.           *)
(*                                                                         *)
(* Everything runs on one event loop and no critical section suspends      *)
(* before condition.wait(), so a task runs from one wait() to the next in  *)
(* one step.  What interleaves is the order in which woken tasks, new      *)
(* arrivals, timeouts, cancellations and releases get the loop.            *)
(*                                                                         *)
(* Only the order of deadlines and steps matters, so there is no clock:    *)
(* a request whose deadline has passed is in due.                          *)
(***************************************************************************)
EXTENDS Integers, Sequences, FiniteSets, Selections

CONSTANTS
  Request,     \* requests, each made once under an id of its own
  Timed,       \* the requests that carry a deadline
  Capacity,    \* capacity: how many requests may wait
  MaxRunning   \* max_running: how many may hold a slot

ASSUME GateAssumption ==
  /\ IsFiniteSet(Request)
  /\ Timed \subseteq Request
  /\ Capacity \in Nat \ {0}
  /\ MaxRunning \in Nat \ {0}

VARIABLES
  state,     \* ScheduledRequest.state; "new" until submit creates it
  queue,     \* BoundedScheduler._queue: ids, oldest first
  inflight,  \* AsyncRuntimeGate._inflight
  task,      \* the request's coroutine: idle, ready to run, asleep in wait(),
             \* busy with the request it was admitted for, or done
  due        \* requests whose deadline_at has passed

gate == <<state, queue, inflight>>
vars == <<gate, task, due>>

Waiting == {"queued", "admitted"}
Terminal == {"completed", "cancelled", "expired", "rejected"}
States == {"new", "running"} \cup Waiting \cup Terminal

-----------------------------------------------------------------------------
(* The state a step of the loop works on, as one value.                      *)

Gate == [state |-> state, queue |-> queue, inflight |-> inflight]

Becomes(g) ==
  /\ state' = g.state
  /\ queue' = g.queue
  /\ inflight' = g.inflight

Queued(g) == {r \in Request : g.state[r] = "queued"}

\* _expire_queued, which snapshot() is called for: every queued request whose
\* deadline has passed.
ExpireQueued(g) ==
  [g EXCEPT !.state = [r \in Request |->
     IF r \in Queued(g) /\ r \in due THEN "expired" ELSE g.state[r]]]

\* The entries of the queue next() may admit, in order.
Live(g) == {i \in 1..Len(g.queue) : g.queue[i] \in Queued(g) \ due}

\* Mutant of FirstLive: newest first.
LastLive(g, n) == {i \in Live(g) : Cardinality({j \in Live(g) : j >= i}) <= n}

\* The first n of them.
FirstLive(g, n) == {i \in Live(g) : Cardinality({j \in Live(g) : j <= i}) <= n}

\* n successful calls of next(), which pop everything up to the last admitted
\* entry off the queue, with a slot taken for each.
AdmitNext(g, n) ==
  LET taken == FirstLive(g, n)
      after == {i \in 1..Len(g.queue) : \A j \in taken : j < i}
      rest  == IF after = {} THEN << >>
               ELSE SubSeq(g.queue, CHOOSE i \in after : \A j \in after : i <= j,
                           Len(g.queue))
      who   == {g.queue[i] : i \in taken}
      gone  == ExpireQueued(g)
  IN  [state    |-> [r \in Request |-> IF r \in who THEN "admitted" ELSE gone.state[r]],
       queue    |-> rest,
       inflight |-> g.inflight + Cardinality(taken)]

\* Mutant of ReleaseSlot: the slot is not given back.
ReleaseNothing(g) == g

\* _release_slot_locked, with its clamp at zero.
ReleaseSlot(g) == [g EXCEPT !.inflight = IF @ > 0 THEN @ - 1 ELSE 0]

\* Mutant of Start: the deadline is not looked at again.
StartAnyway(g, r) == [g EXCEPT !.state[r] = "running"]

\* An admitted request starts, or gives its slot back when its time is over.
Start(g, r) ==
  IF r \in due THEN ReleaseSlot([g EXCEPT !.state[r] = "expired"])
  ELSE [g EXCEPT !.state[r] = "running"]

\* forget(): the id leaves the queue as well.
Forget(g, r) == [g EXCEPT !.queue = Only(@, Request \ {r})]

-----------------------------------------------------------------------------
(* The loop of acquire(), from one wait() to the next, for request r.        *)

Free(g) == MaxRunning - g.inflight

\* How many requests r's task admits when its own deadline is not over: those
\* before it and itself, as far as slots are free.
Ahead(g, r) == {i \in Live(g) : \E j \in Live(g) : g.queue[j] = r /\ i <= j}

\* r is queued and not due.
AcquireInTime(g, r) ==
  IF Free(g) = 0 THEN g
  ELSE LET turn == Cardinality(Ahead(g, r))
           n    == IF turn <= Free(g) THEN turn ELSE Free(g)
           next == AdmitNext(g, n)
       IN  IF next.state[r] = "admitted" THEN Start(next, r) ELSE next

\* r is queued and due: next() or snapshot() expires it, and with a free slot
\* the first call of next() has admitted the oldest live request.
AcquireTooLate(g, r) ==
  IF Free(g) = 0 THEN ExpireQueued(g) ELSE AdmitNext(g, 1)

Acquire(g, r) ==
  CASE g.state[r] = "admitted" -> Start(g, r)
    [] g.state[r] = "queued" /\ r \notin due -> AcquireInTime(g, r)
    [] g.state[r] = "queued" /\ r \in due -> AcquireTooLate(g, r)
    [] OTHER -> g

\* A step of acquire() notifies when it has taken slots or has returned its own.
Notifies(g, h) == g.inflight # h.inflight

\* The tasks after notify_all.
Woken == [r \in Request |-> IF task[r] = "asleep" THEN "ready" ELSE task[r]]

\* How r's task ends its step in gate h, having started in g: it sleeps, goes on
\* with the request, or raises, upon which the middleware forgets the request.
Settle(g, h, r) ==
  LET others == IF Notifies(g, h) THEN Woken ELSE task
  IN  \/ /\ h.state[r] = "queued"
         /\ Becomes(h)
         /\ task' = [others EXCEPT ![r] = "asleep"]
      \/ /\ h.state[r] = "running"
         /\ Becomes(h)
         /\ task' = [others EXCEPT ![r] = "busy"]
      \/ /\ h.state[r] \in Terminal
         /\ Becomes(Forget(h, r))
         /\ task' = [others EXCEPT ![r] = "done"]

-----------------------------------------------------------------------------
Init ==
  /\ state = [r \in Request |-> "new"]
  /\ queue = << >>
  /\ inflight = 0
  /\ task = [r \in Request |-> "idle"]
  /\ due = {}

HasRoom(g) == Cardinality(Queued(g)) < Capacity

\* submit() with the queue full; the rejected request is forgotten.
Reject(r) ==
  /\ task[r] = "idle"
  /\ ~HasRoom(ExpireQueued(Gate))
  /\ Becomes([ExpireQueued(Gate) EXCEPT !.state[r] = "rejected"])
  /\ task' = [task EXCEPT ![r] = "done"]
  /\ UNCHANGED due

Submitted(g, r) == [g EXCEPT !.state[r] = "queued", !.queue = Append(@, r)]

\* submit() and the loop of acquire() up to its first wait().
Enter(r) ==
  /\ task[r] = "idle"
  /\ HasRoom(ExpireQueued(Gate))
  /\ \E g \in {Submitted(ExpireQueued(Gate), r)} :
       \E h \in {Acquire(g, r)} : Settle(g, h, r)
  /\ UNCHANGED due

\* A notified task goes on with the loop.
Resume(r) ==
  /\ task[r] = "ready"
  /\ \E h \in {Acquire(Gate, r)} : Settle(Gate, h, r)
  /\ UNCHANGED due

\* wait_for() has run out of time, whether or not the task was notified too.
TimeOut(r) ==
  /\ task[r] \in {"ready", "asleep"} /\ r \in due
  /\ \E g \in {ExpireQueued(Gate)} :
       \E h \in {Acquire(g, r)} : Settle(g, h, r)
  /\ UNCHANGED due

\* A request that has not started is cancelled; an admitted one gives its slot
\* back.  Cancelling one that runs or is over only sets a token nobody reads.
Cancelled(g, r) ==
  CASE g.state[r] = "queued" -> [g EXCEPT !.state[r] = "cancelled"]
    [] g.state[r] = "admitted" -> ReleaseSlot([g EXCEPT !.state[r] = "cancelled"])
    [] OTHER -> g

\* The client goes away while its task is in acquire(): the handler of
\* CancelledError, then forget.
Disconnect(r) ==
  /\ task[r] \in {"ready", "asleep"}
  /\ Becomes(Forget(Cancelled(Gate, r), r))
  /\ task' = [Woken EXCEPT ![r] = "done"]
  /\ UNCHANGED due

\* cancel(), from another task.
Cancel(r) ==
  /\ task[r] \in {"ready", "asleep", "busy"}
  /\ Becomes(Cancelled(Gate, r))
  /\ task' = Woken
  /\ UNCHANGED due

\* Mutant of Release: nobody is notified of the free slot.
ReleaseSilently(r) ==
  /\ task[r] = "busy"
  /\ Becomes(Forget(ReleaseSlot([Gate EXCEPT !.state[r] = "completed"]), r))
  /\ task' = [task EXCEPT ![r] = "done"]
  /\ UNCHANGED due

\* release() and forget(), when the request has been served or has failed.
Release(r) ==
  /\ task[r] = "busy"
  /\ Becomes(Forget(ReleaseSlot([Gate EXCEPT !.state[r] = "completed"]), r))
  /\ task' = [Woken EXCEPT ![r] = "done"]
  /\ UNCHANGED due

\* snapshot(), from another task.
Snapshot ==
  /\ Becomes(ExpireQueued(Gate))
  /\ UNCHANGED <<task, due>>

\* The deadline of a request that has not started passes.
Lapse(r) ==
  /\ r \in Timed \ due
  /\ task[r] \in {"ready", "asleep"}
  /\ due' = due \cup {r}
  /\ UNCHANGED <<gate, task>>

Next ==
  \/ \E r \in Request :
       \/ Reject(r)
       \/ Enter(r)
       \/ Resume(r)
       \/ TimeOut(r)
       \/ Disconnect(r)
       \/ Cancel(r)
       \/ Release(r)
       \/ Lapse(r)
  \/ Snapshot

Spec == Init /\ [][Next]_vars

\* The event loop runs what is ready, timers fire and time passes.
Scheduling ==
  \A r \in Request : WF_vars(Resume(r) \/ TimeOut(r)) /\ WF_vars(Lapse(r))

\* A request that runs ends.  Nothing makes clients come or go away.
HoldersFinish == \A r \in Request : WF_vars(Release(r))

FairSpec == Spec /\ Scheduling

-----------------------------------------------------------------------------
(* Properties.                                                               *)

Holding == {r \in Request : state[r] \in {"admitted", "running"}}

\* Every variable has the type the source declares for it.
TypeOK ==
  /\ state \in [Request -> States]
  /\ queue \in Seq(Request)
  /\ inflight \in Nat
  /\ task \in [Request -> {"idle", "ready", "asleep", "busy", "done"}]
  /\ due \subseteq Timed

\* _inflight is the number of requests that hold a slot, never more than
\* max_running: a request that is cancelled or lapses between its admission and
\* its start gives its slot back, and only once.  And nobody sleeps through what
\* concerns him: a task whose request is queued sleeps only while every slot is
\* taken, one whose request nobody will admit any more has its own timeout to wake
\* it, and a slot is never held by a task that sleeps or has gone.
SlotsAreAccounted ==
  /\ inflight = Cardinality(Holding)
  /\ inflight <= MaxRunning
  /\ \A r \in Request : task[r] = "asleep" =>
        IF state[r] = "queued" THEN inflight = MaxRunning ELSE r \in due
  /\ \A r \in Holding : task[r] = IF state[r] = "admitted" THEN "ready" ELSE "busy"

\* A request never starts after its deadline (docs/configuration-reference.md,
\* one deadline covers the wait).
StartedInTime ==
  [][\A r \in Request : state[r] # "running" /\ state'[r] = "running" => r \notin due]_vars

Waits(r) == task[r] \in {"ready", "asleep"}

Answered(r) == task[r] \in {"busy", "done"}

\* Nobody waits for ever when requests that run end: every client gets its turn
\* or is told why not.  A deadline is kept even when no running request ever ends.
EveryClientIsAnswered ==
  /\ HoldersFinish => \A r \in Request : Waits(r) ~> Answered(r)
  /\ \A r \in Timed : Waits(r) ~> Answered(r)

-----------------------------------------------------------------------------
(* The gate as an AdmissionPool of one class.                                *)

Phase(r) ==
  CASE state[r] = "new" -> "idle"
    [] state[r] = "queued" -> "waiting"
    [] state[r] \in {"admitted", "running"} -> "granted"
    [] OTHER -> "over"

Line == Only(queue, Queued(Gate))

Pool == INSTANCE AdmissionPool WITH
  Class <- {"runtime"}, ClassOf <- [r \in Request |-> "runtime"], Permits <- MaxRunning,
  phase <- [r \in Request |-> Phase(r)], line <- [c \in {"runtime"} |-> Line]

\* The gate lends at most max_running slots, serves the requests in the order of
\* their submission and takes no slot from a request that holds one.
ImplementsAdmissionPool == Pool!Spec

=============================================================================
