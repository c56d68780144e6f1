---------------------- MODULE GlobalExecutionGovernor ----------------------
(***************************************************************************)
(* The bounded cross-runtime execution pool of                             *)
(* global_execution_governor.py: max_running slots shared by every         *)
(* resident runtime, a bounded queue of waiters, and round-robin           *)
(* selection between runtimes.                                             *)
(*                                                                         *)
(* Every public method runs under one threading.Condition, so each action  *)
(* below is one critical section of one thread.  What interleaves is the   *)
(* callers: clients that submit, hold and release, clients that give up,   *)
(* and the threads that sleep in wait() until they are notified or time    *)
(* out.                                                                    *)
(***************************************************************************)
EXTENDS Integers, Sequences, FiniteSets, Selections

CONSTANTS
  Waiter,         \* _Waiter objects: one for every call of submit
  Id,             \* request identifiers, the keys of _waiters
  Runtime,        \* runtime keys
  IdOf,           \* the request_id each waiter is submitted under
  RuntimeOf,      \* the runtime_key each waiter is submitted for
  CapOf,          \* the runtime_max_running each waiter is submitted with
  MaxRunning,     \* max_running
  QueueCapacity,  \* queue_capacity
  Timeouts,       \* the values of timeout_seconds callers use
  MaxClock,       \* bound of the model on the clock and on every deadline
  None            \* absence of a waiter, of a deadline, of a timeout

ASSUME GovernorAssumption ==
  /\ IsFiniteSet(Waiter)
  /\ None \notin Waiter
  /\ IdOf \in [Waiter -> Id]
  /\ RuntimeOf \in [Waiter -> Runtime]
  /\ CapOf \in [Waiter -> Nat \ {0}]
  /\ MaxRunning \in Nat \ {0}
  /\ QueueCapacity \in Nat \ {0}
  /\ Timeouts \subseteq Nat \cup {None}
  /\ MaxClock \in Nat
  /\ None \notin Nat

VARIABLES
  waiters,         \* _waiters: the live waiter of every request id
  state,           \* _Waiter.state; "new" until submit creates the object
  deadline,        \* _Waiter.deadline_at
  queues,          \* _runtime_queues: request ids, oldest first
  order,           \* _runtime_order, whose elements are _runtime_in_order
  runtimeInflight, \* _runtime_inflight
  inflight,        \* _inflight
  owner,           \* the client of a waiter: idle, awaiting its permit or done
  thread,          \* the thread that runs wait(): none, asleep or done
  notified,        \* sleeping threads a notify_all has reached
  clock            \* time.monotonic()

pool == <<waiters, state, deadline, queues, order, runtimeInflight, inflight>>
vars == <<pool, owner, thread, notified, clock>>

States == {"new", "queued", "running", "completed", "cancelled", "expired"}

-----------------------------------------------------------------------------
(* The state a critical section works on, as one value, so that the private *)
(* *_locked methods are operators from such a value to the next one.        *)

Pool == [waiters |-> waiters, state |-> state, deadline |-> deadline,
         queues |-> queues, order |-> order,
         runtimeInflight |-> runtimeInflight, inflight |-> inflight]

Becomes(p) ==
  /\ waiters' = p.waiters
  /\ state' = p.state
  /\ deadline' = p.deadline
  /\ queues' = p.queues
  /\ order' = p.order
  /\ runtimeInflight' = p.runtimeInflight
  /\ inflight' = p.inflight

Lapsed(p, w, now) == p.deadline[w] # None /\ now >= p.deadline[w]

Queued(p) == {w \in Waiter : p.state[w] = "queued" /\ p.waiters[IdOf[w]] = w}

\* Mutant of ExpireQueued: a waiter that runs expires like one that is queued.
ExpireAny(p, now) ==
  [p EXCEPT !.state =
     [w \in Waiter |-> IF /\ p.state[w] \in {"queued", "running"}
                          /\ p.waiters[IdOf[w]] = w
                          /\ Lapsed(p, w, now)
                       THEN "expired" ELSE p.state[w]]]

\* _expire_queued_locked: every queued waiter whose deadline has passed.
ExpireQueued(p, now) ==
  [p EXCEPT !.state =
     [w \in Waiter |-> IF w \in Queued(p) /\ Lapsed(p, w, now)
                       THEN "expired" ELSE p.state[w]]]

-----------------------------------------------------------------------------
(* Round-robin selection.  An entry of a runtime's queue is an id: it is    *)
(* stale when its waiter has gone or is no longer queued, and it is skipped *)
(* (and expired) when the deadline has passed.                              *)

StillQueued(p, id) == p.waiters[id] # None /\ p.state[p.waiters[id]] = "queued"

Selectable(p, id, now) == StillQueued(p, id) /\ ~Lapsed(p, p.waiters[id], now)

\* Mutant of SlotFree: one slot is left idle.
SlotFreeTooFew(p) == p.inflight < MaxRunning - 1

SlotFree(p) == p.inflight < MaxRunning

\* How many entries at the head of a queue _next_queued_locked pops.
Skipped(p, rt, now) ==
  LET q == p.queues[rt]
  IN  CHOOSE n \in 0..Len(q) :
        /\ \A i \in 1..n : ~Selectable(p, q[i], now)
        /\ n < Len(q) => Selectable(p, q[n + 1], now)

\* _next_queued_locked: what it leaves of the queue; its head is selected.
NextQueued(p, rt, now) ==
  SubSeq(p.queues[rt], Skipped(p, rt, now) + 1, Len(p.queues[rt]))

\* The waiters _next_queued_locked marks as expired on its way.
LapsedInQueue(p, rt, now) ==
  {w \in Waiter : \E i \in 1..Skipped(p, rt, now) :
      /\ p.waiters[p.queues[rt][i]] = w
      /\ p.state[w] = "queued"}

\* The waiter a runtime would have admitted next.
Selected(p, rt, now) == p.waiters[Head(NextQueued(p, rt, now))]

\* Mutant of Eligible: one execution more than the runtime's limit.
EligibleTooMany(p, rt, now) ==
  /\ NextQueued(p, rt, now) # << >>
  /\ p.runtimeInflight[rt] <= CapOf[Selected(p, rt, now)]

Eligible(p, rt, now) ==
  /\ NextQueued(p, rt, now) # << >>
  /\ p.runtimeInflight[rt] < CapOf[Selected(p, rt, now)]

\* Mutant of Rotated: the runtime served stays at the head.
RotatedGreedily(ord, n, left) ==
  IF n = 0 \/ left[ord[n]] = << >> THEN SubSeq(ord, n + 1, Len(ord))
  ELSE <<ord[n]>> \o SubSeq(ord, n + 1, Len(ord)) \o SubSeq(ord, 1, n - 1)

\* The order after its first n runtimes have been looked at: each of them goes
\* to the tail, or leaves the order when nothing remains in its queue.
Rotated(ord, n, left) ==
  LET requeued[i \in 0..n] ==
        IF i = 0 THEN SubSeq(ord, n + 1, Len(ord))
        ELSE IF left[ord[i]] = << >> THEN requeued[i - 1]
        ELSE Append(requeued[i - 1], ord[i])
  IN  requeued[n]

\* One round of the outer loop of _admit_available_locked.  Runtimes are taken
\* from the head of the order until one is eligible; the others go to its tail
\* (or leave it when nothing of their queue remains), then the admitted one.
AdmitOne(p, now) ==
  IF ~SlotFree(p) \/ p.order = << >> THEN p ELSE
  LET ready    == {i \in 1..Len(p.order) : Eligible(p, p.order[i], now)}
      last     == IF ready = {} THEN Len(p.order)
                  ELSE CHOOSE i \in ready : \A j \in ready : i <= j
      chosen   == IF ready = {} THEN {} ELSE {p.order[last]}
      scanned  == {p.order[i] : i \in 1..last}
      admitted == {Selected(p, rt, now) : rt \in chosen}
      lapsed   == UNION {LapsedInQueue(p, rt, now) : rt \in scanned}
      left     == [rt \in Runtime |->
                     IF rt \in chosen THEN Tail(NextQueued(p, rt, now))
                     ELSE IF rt \in scanned THEN NextQueued(p, rt, now)
                     ELSE p.queues[rt]]
  IN [p EXCEPT
        !.state = [w \in Waiter |-> IF w \in admitted THEN "running"
                                    ELSE IF w \in lapsed THEN "expired"
                                    ELSE p.state[w]],
        !.queues = left,
        !.order = Rotated(p.order, last, left),
        !.runtimeInflight = [rt \in Runtime |->
                               p.runtimeInflight[rt] + (IF rt \in chosen THEN 1 ELSE 0)],
        !.inflight = p.inflight + Cardinality(chosen)]

\* _admit_available_locked.  A round that admits nobody changes nothing when it
\* is repeated, so MaxRunning rounds are as many as the loop can make.
Admit(p, now) ==
  LET round[n \in 0..MaxRunning] ==
        IF n = 0 THEN p ELSE AdmitOne(round[n - 1], now)
  IN  round[MaxRunning]

-----------------------------------------------------------------------------
(* The other private methods.                                               *)

Discard(p, w) ==
  IF p.waiters[IdOf[w]] = w THEN [p EXCEPT !.waiters[IdOf[w]] = None] ELSE p

\* Mutant of ReleaseRunning: the last slot of a runtime is not counted back.
ReleaseRunningLeaky(p, rt) ==
  [p EXCEPT !.inflight = IF @ > 0 THEN @ - 1 ELSE 0,
            !.runtimeInflight[rt] = IF @ <= 1 THEN @ ELSE @ - 1]

\* _release_running_locked, with its clamp at zero.
ReleaseRunning(p, rt) ==
  [p EXCEPT !.inflight = IF @ > 0 THEN @ - 1 ELSE 0,
            !.runtimeInflight[rt] = IF @ <= 1 THEN 0 ELSE @ - 1]

\* _schedule_runtime_locked, for a runtime whose queue is not empty.
ScheduleRuntime(p, rt) ==
  IF \E i \in 1..Len(p.order) : p.order[i] = rt THEN p
  ELSE [p EXCEPT !.order = Append(@, rt)]

Asleep == {w \in Waiter : thread[w] = "asleep"}

\* Mutant of NotifyExpired: _expire_queued_locked does not notify.
NotifyExpiredNobody(p, now) == notified' = notified

\* What a critical section notifies when its only notify_all is the one
\* _expire_queued_locked makes after it has expired a waiter.
NotifyExpired(p, now) ==
  notified' = notified \cup
                (IF \E w \in Queued(p) : Lapsed(p, w, now) THEN Asleep ELSE {})

NotifyAll == notified' = notified \cup Asleep

-----------------------------------------------------------------------------
(* The callers.  submit, abandon, release and snapshot read the clock        *)
(* before they take the lock, so the time they work with may be an old one:  *)
(* it is any time up to the present.  wait() reads it under the lock.        *)

Init ==
  /\ waiters = [id \in Id |-> None]
  /\ state = [w \in Waiter |-> "new"]
  /\ deadline = [w \in Waiter |-> None]
  /\ queues = [rt \in Runtime |-> << >>]
  /\ order = << >>
  /\ runtimeInflight = [rt \in Runtime |-> 0]
  /\ inflight = 0
  /\ owner = [w \in Waiter |-> "idle"]
  /\ thread = [w \in Waiter |-> "none"]
  /\ notified = {}
  /\ clock = 0

\* A client may use a request id again only when it has finished with it; a
\* thread of the first use may still be on its way out of wait().
MaySubmit(w) ==
  /\ owner[w] = "idle"
  /\ \A v \in Waiter : IdOf[v] = IdOf[w] => owner[v] # "awaiting"

\* submit with a deadline that is already over, or with an id that is in use.
SubmitRefused(w, timeout) ==
  /\ MaySubmit(w)
  /\ timeout = 0 \/ waiters[IdOf[w]] # None
  /\ owner' = [owner EXCEPT ![w] = "done"]
  /\ UNCHANGED <<pool, thread, notified, clock>>

\* The pool submit looks at: lapsed waiters expired, free slots handed out.
BeforeSubmit(now) == Admit(ExpireQueued(Pool, now), now)

HasRoom(p, w) ==
  \/ Cardinality(Queued(p)) < QueueCapacity
  \/ SlotFree(p) /\ p.runtimeInflight[RuntimeOf[w]] < CapOf[w]

\* submit when the queue is full and the waiter could not run at once.
SubmitRejected(w, timeout, now) ==
  /\ MaySubmit(w)
  /\ timeout # 0
  /\ waiters[IdOf[w]] = None
  /\ ~HasRoom(BeforeSubmit(now), w)
  /\ Becomes(BeforeSubmit(now))
  /\ NotifyExpired(Pool, now)
  /\ owner' = [owner EXCEPT ![w] = "done"]
  /\ UNCHANGED <<thread, clock>>

\* Mutant of Registered: the newest waiter goes to the head of the queue.
RegisteredFirst(p, w, timeout, now) ==
  ScheduleRuntime(
    [p EXCEPT !.waiters[IdOf[w]] = w,
              !.state[w] = "queued",
              !.deadline[w] = IF timeout = None THEN None ELSE now + timeout,
              !.queues[RuntimeOf[w]] = <<IdOf[w]>> \o @],
    RuntimeOf[w])

\* The pool after submit has registered waiter w in p.
Registered(p, w, timeout, now) ==
  ScheduleRuntime(
    [p EXCEPT !.waiters[IdOf[w]] = w,
              !.state[w] = "queued",
              !.deadline[w] = IF timeout = None THEN None ELSE now + timeout,
              !.queues[RuntimeOf[w]] = Append(@, IdOf[w])],
    RuntimeOf[w])

Submit(w, timeout, now) ==
  /\ MaySubmit(w)
  /\ timeout # 0
  /\ timeout # None => now + timeout <= MaxClock
  /\ waiters[IdOf[w]] = None
  /\ HasRoom(BeforeSubmit(now), w)
  /\ Becomes(Admit(Registered(BeforeSubmit(now), w, timeout, now), now))
  /\ NotifyAll
  /\ owner' = [owner EXCEPT ![w] = "awaiting"]
  /\ UNCHANGED <<thread, clock>>

\* A thread runs wait() when it enters it with the waiter still registered, or
\* when it is woken: by a notify_all, or by the timeout of its own deadline.
MayWait(w) ==
  \/ thread[w] = "none" /\ owner[w] = "awaiting" /\ waiters[IdOf[w]] = w
  \/ thread[w] = "asleep" /\ (w \in notified \/ Lapsed(Pool, w, clock))

\* Under the lock, the thread of a queued waiter first expires and admits, as
\* any other caller does.  What it finds then decides how the step ends.
WaitPool(w) ==
  IF state[w] = "queued" THEN Admit(ExpireQueued(Pool, clock), clock) ELSE Pool

NotifyFromWait(w) ==
  notified' =
    (notified \ {w}) \cup
      (IF state[w] = "queued" /\ \E v \in Queued(Pool) : Lapsed(Pool, v, clock)
       THEN Asleep \ {w} ELSE {})

\* The waiter is queued: its thread goes to sleep (again).
WaitSleeps(w, p) ==
  /\ p.state[w] = "queued"
  /\ Becomes(p)
  /\ thread' = [thread EXCEPT ![w] = "asleep"]
  /\ UNCHANGED owner

\* The waiter is running: wait() returns the permit to the client.
WaitReturns(w, p) ==
  /\ p.state[w] = "running"
  /\ Becomes(p)
  /\ thread' = [thread EXCEPT ![w] = "done"]
  /\ UNCHANGED owner

\* The waiter has expired or was cancelled: wait() forgets it and raises.
WaitRaises(w, p) ==
  /\ p.state[w] \in {"expired", "cancelled"}
  /\ Becomes(Discard(p, w))
  /\ thread' = [thread EXCEPT ![w] = "done"]
  /\ owner' = [owner EXCEPT ![w] = "done"]

Wait(w) ==
  /\ MayWait(w)
  /\ \E p \in {WaitPool(w)} :
       WaitSleeps(w, p) \/ WaitReturns(w, p) \/ WaitRaises(w, p)
  /\ NotifyFromWait(w)
  /\ UNCHANGED clock

\* The client is cancelled before it has taken the permit and abandons the
\* acquisition.  A waiter that has expired is left to its own thread.
Abandon(w, now) ==
  /\ owner[w] = "awaiting"
  /\ owner' = [owner EXCEPT ![w] = "done"]
  /\ LET v == waiters[IdOf[w]]
     IN  \/ /\ v = None \/ (v # None /\ state[v] \notin {"queued", "running"})
            /\ UNCHANGED <<pool, notified>>
         \/ /\ v # None /\ state[v] \in {"queued", "running"}
            /\ LET cancelled == [Pool EXCEPT !.state[v] = "cancelled"]
                   freed == IF state[v] = "running"
                            THEN ReleaseRunning(cancelled, RuntimeOf[v])
                            ELSE cancelled
               IN  Becomes(Admit(Discard(freed, v), now))
            /\ NotifyAll
  /\ UNCHANGED <<thread, clock>>

\* Mutant of Release: the waiter it admits is not notified.
ReleaseSilently(w, now) ==
  /\ owner[w] = "awaiting" /\ thread[w] = "done"
  /\ waiters[IdOf[w]] = w /\ state[w] = "running"
  /\ LET completed == [Pool EXCEPT !.state[w] = "completed"]
         returned  == ReleaseRunning(completed, RuntimeOf[w])
     IN  \E p \in {Discard(returned, w)} : Becomes(Admit(p, now))
  /\ owner' = [owner EXCEPT ![w] = "done"]
  /\ UNCHANGED <<thread, notified, clock>>

\* The client that holds the permit has finished and gives the slot back.
Release(w, now) ==
  /\ owner[w] = "awaiting" /\ thread[w] = "done"
  /\ waiters[IdOf[w]] = w /\ state[w] = "running"
  /\ LET completed == [Pool EXCEPT !.state[w] = "completed"]
         returned  == ReleaseRunning(completed, RuntimeOf[w])
     IN  \E p \in {Discard(returned, w)} : Becomes(Admit(p, now))
  /\ NotifyAll
  /\ owner' = [owner EXCEPT ![w] = "done"]
  /\ UNCHANGED <<thread, clock>>

\* /status reads a snapshot, which expires and admits like everybody else.
Snapshot(now) ==
  /\ Becomes(Admit(ExpireQueued(Pool, now), now))
  /\ NotifyExpired(Pool, now)
  /\ UNCHANGED <<owner, thread, clock>>

Tick ==
  /\ clock < MaxClock
  /\ clock' = clock + 1
  /\ UNCHANGED <<pool, owner, thread, notified>>

Next ==
  \/ \E w \in Waiter, timeout \in Timeouts, now \in 0..clock :
       \/ SubmitRefused(w, timeout)
       \/ SubmitRejected(w, timeout, now)
       \/ Submit(w, timeout, now)
  \/ \E w \in Waiter : Wait(w)
  \/ \E w \in Waiter, now \in 0..clock : Abandon(w, now) \/ Release(w, now)
  \/ \E now \in 0..clock : Snapshot(now)
  \/ Tick

Spec == Init /\ [][Next]_vars

\* A thread that may run is scheduled, and time passes.
Scheduling ==
  /\ \A w \in Waiter : WF_vars(Wait(w))
  /\ WF_vars(Tick)

\* An execution that holds a slot ends.  Nothing makes clients submit or give
\* up, and nobody has to poll /status.
HoldersFinish ==
  \A w \in Waiter : WF_vars(\E now \in 0..clock : Release(w, now))

FairSpec == Spec /\ Scheduling

-----------------------------------------------------------------------------
(* Properties.                                                               *)

Running == {w \in Waiter : state[w] = "running"}

RunningOn(rt) == {w \in Running : RuntimeOf[w] = rt}

\* Every variable has the type the source declares for it.
TypeOK ==
  /\ waiters \in [Id -> Waiter \cup {None}]
  /\ state \in [Waiter -> States]
  /\ deadline \in [Waiter -> Nat \cup {None}]
  /\ queues \in [Runtime -> Seq(Id)]
  /\ order \in Seq(Runtime)
  /\ runtimeInflight \in [Runtime -> Nat]
  /\ inflight \in Nat
  /\ owner \in [Waiter -> {"idle", "awaiting", "done"}]
  /\ thread \in [Waiter -> {"none", "asleep", "done"}]
  /\ notified \in SUBSET Waiter
  /\ clock \in Nat

\* The two counters are the numbers of waiters that hold a slot: no path
\* through release, abandon, expiry and admission leaks a slot or returns one
\* twice, whoever makes the calls and in whatever order.
SlotAccounting ==
  /\ inflight = Cardinality(Running)
  /\ \A rt \in Runtime : runtimeInflight[rt] = Cardinality(RunningOn(rt))

\* At most max_running executions hold a slot.
WithinLimit == Cardinality(Running) <= MaxRunning

\* Among any executions of one runtime that hold a slot, one was submitted with
\* a runtime_max_running that allows as many.  (A reload may change the limit
\* of a runtime, so that waiters of one runtime_key carry different ones; with
\* equal limits this says that no runtime exceeds its own.)
WithinCaps ==
  \A rt \in Runtime : \A S \in SUBSET RunningOn(rt) :
    S # {} => \E w \in S : Cardinality(S) <= CapOf[w]

\* No slot is idle beside a waiter that could use it: with a free slot, the
\* oldest queued waiter of every runtime is held back by its runtime's limit.
WorkConserving ==
  inflight < MaxRunning =>
    \A rt \in Runtime :
      LET live == {i \in 1..Len(queues[rt]) : StillQueued(Pool, queues[rt][i])}
      IN  live # {} =>
            \E i \in live : /\ \A j \in live : i <= j
                            /\ runtimeInflight[rt] >= CapOf[waiters[queues[rt][i]]]

\* A thread sleeps in wait() only for a waiter that is queued; once the waiter
\* is admitted, expired or cancelled a notification is on its way.
NoLostWakeup ==
  \A w \in Asleep : state[w] # "queued" => w \in notified

\* A waiter that has left the pool never comes back, a slot is only taken from
\* the queue, and nobody else's permit is taken away: a running waiter leaves
\* by its own client's release or abandonment.
LegalMoves ==
  [][\A w \in Waiter :
       /\ state[w] \in {"completed", "cancelled", "expired"} => state'[w] = state[w]
       /\ state[w] # "running" /\ state'[w] = "running" =>
            state[w] = "queued" \/ owner'[w] # owner[w]
       /\ state[w] = "running" /\ state'[w] # "running" =>
            owner[w] = "awaiting" /\ owner'[w] = "done"]_vars

\* Nobody waits for ever when executions end: every client that submitted gets a
\* permit and finishes, or is told that its request expired or was cancelled.  A
\* deadline is kept even when no execution ever ends: a client that gave one has
\* a permit or is told that its time is over.  And the thread of a waiter that was
\* admitted wakes up to deliver the permit, unless its client abandoned it.
EveryClientIsAnswered ==
  /\ HoldersFinish => \A w \in Waiter : owner[w] = "awaiting" ~> owner[w] = "done"
  /\ \A w \in Waiter :
       (owner[w] = "awaiting" /\ deadline[w] # None) ~>
         (thread[w] = "done" \/ owner[w] = "done")
  /\ \A w \in Waiter :
       (state[w] = "running" /\ owner[w] = "awaiting") ~>
         (thread[w] = "done" \/ owner[w] = "done")

-----------------------------------------------------------------------------
(* The inductive invariant, a predicate on the value a critical section      *)
(* works on, so that every private method can be shown to preserve it.       *)

Holding(p) == {w \in Waiter : p.state[w] = "running"}

HoldingOn(p, rt) == {w \in Holding(p) : RuntimeOf[w] = rt}

PoolType ==
  [waiters: [Id -> Waiter \cup {None}], state: [Waiter -> States],
   deadline: [Waiter -> Nat \cup {None}], queues: [Runtime -> Seq(Id)],
   order: Seq(Runtime), runtimeInflight: [Runtime -> Nat], inflight: Nat]

\* The counters count the holders of slots, within the limits.
PoolCounts(p) ==
  /\ p.inflight = Cardinality(Holding(p))
  /\ \A rt \in Runtime : p.runtimeInflight[rt] = Cardinality(HoldingOn(p, rt))
  /\ p.inflight <= MaxRunning
  /\ \A rt \in Runtime : \A S \in SUBSET HoldingOn(p, rt) :
       S # {} => \E w \in S : Cardinality(S) <= CapOf[w]

\* A waiter that waits or runs is the one registered under its id, and the ids
\* in the queue of a runtime belong to waiters of that runtime: the runtime
\* whose counter admission raises is the one whose counter release lowers.
PoolRegistry(p) ==
  /\ \A w \in Waiter : p.state[w] \in {"queued", "running"} => p.waiters[IdOf[w]] = w
  /\ \A id \in Id : p.waiters[id] # None => IdOf[p.waiters[id]] = id
  /\ \A rt \in Runtime : \A i \in 1..Len(p.queues[rt]) :
       \A w \in Waiter : IdOf[w] = p.queues[rt][i] => RuntimeOf[w] = rt

\* A runtime whose queue has an entry is in the order, so that the round robin
\* comes to it.
PoolScheduled(p) ==
  \A rt \in Runtime : p.queues[rt] # << >> =>
    \E i \in 1..Len(p.order) : p.order[i] = rt

PoolInv(p) ==
  p \in PoolType /\ PoolCounts(p) /\ PoolRegistry(p) /\ PoolScheduled(p)

ClientType ==
  /\ owner \in [Waiter -> {"idle", "awaiting", "done"}]
  /\ thread \in [Waiter -> {"none", "asleep", "done"}]
  /\ notified \in SUBSET Waiter
  /\ clock \in Nat

\* A waiter object exists once its client has called submit; while it waits or
\* runs that client awaits it, and is the only one to do so under its id.
ClientStates ==
  \A w \in Waiter :
    /\ owner[w] = "idle" => state[w] = "new"
    /\ state[w] \in {"queued", "running"} => owner[w] = "awaiting"
    /\ owner[w] = "awaiting" =>
         \A v \in Waiter \ {w} : IdOf[v] = IdOf[w] => owner[v] # "awaiting"

Inv == PoolInv(Pool) /\ ClientType /\ ClientStates

\* Request ids are not used for two runtimes (the callers' are uuids).
IdsKeepRuntime ==
  \A v, w \in Waiter : IdOf[v] = IdOf[w] => RuntimeOf[v] = RuntimeOf[w]

-----------------------------------------------------------------------------
(* The governor as an AdmissionPool: its permits are the slots, its classes  *)
(* the runtimes.  The line of a runtime is its queue without stale entries.  *)

Phase(w) ==
  CASE state[w] = "new" -> IF owner[w] = "idle" THEN "idle" ELSE "over"
    [] state[w] = "queued" -> "waiting"
    [] state[w] = "running" -> "granted"
    [] OTHER -> "over"

\* The waiters that the entries of a runtime's queue lead to; none, or one that is
\* no longer queued, where an entry is stale.
Entries(p, rt) == [i \in 1..Len(p.queues[rt]) |-> p.waiters[p.queues[rt][i]]]

Line(p, rt) == Only(Entries(p, rt), Queued(p))

Abstract == INSTANCE AdmissionPool WITH
  Request <- Waiter, Class <- Runtime, ClassOf <- RuntimeOf, Permits <- MaxRunning,
  phase <- [w \in Waiter |-> Phase(w)], line <- [rt \in Runtime |-> Line(Pool, rt)]

\* The governor lends at most max_running permits, serves the requests of each
\* runtime in the order of their submission, and takes no permit back.
ImplementsAdmissionPool == Abstract!Spec

=============================================================================
