# A verified model of local-llm-server

TLA+ models of `local_llm_server`: who may run and on what memory, what happens to
engines, servers and jobs when calls overlap or fail, what of a model's output
reaches a client, and which files and reports may be trusted afterwards. TLC checks
the models on small instances; TLAPS proves, for every instance, the safety of nearly
every component, and that the two admission components implement one abstract pool. The
source is Python, under `src/local_llm_server/`; paths below
are relative to that directory unless they start with `docs/`, `tests/` or `scripts/`.

```
tlc -config GovernorReload.cfg MCGlobalExecutionGovernor
tlc -config Serving.cfg MCServing
tlapm GlobalExecutionGovernor_proofs.tla
tlapm Stores_proofs.tla
```

## 1. The system

One process serves an OpenAI-like HTTP API over several resident models. A
request passes through a chain of owners, each of which keeps one kind of
promise:

```
 HTTP request ─► request_scheduler ─► AsyncRuntimeGate (one per resident runtime, event loop)
                      │                    └─ BoundedScheduler (queue and states)
                      ├──────────► GlobalExecutionGovernor (one per server, threads)
                      ├──────────► transient memory ─► ResourceManager (ledger of bytes)
                      ▼
                 route of server.py ─► cache ─► lease_runtime ─► semaphore ─► engine
                      │                                            ├─ in the process
                      ▼                                            ├─ worker process (two pipes)
                 reasoning boundary, metrics ─► client             └─ server program (HTTP)
 admin request ─► load / reload / unload / set_default / evict ─► ModelRuntimeManager
                                                              └─ ResourceManager
 files: model artifacts and receipts, evaluation reports and test sets, backup archives,
        evidence of a device
```

| Component | State it keeps | Operations | Hard behaviour | What makes it correct |
|---|---|---|---|---|
| **Global execution governor**, `global_execution_governor.py` | waiters by request id, one queue of ids per runtime, the runtime order, inflight counters | submit, wait, abandon, release, snapshot | threads asleep on one condition; deadlines judged with a clock read before the lock; stale ids in queues; limits that change with a reload | counters equal the holders; limits kept; no waiter forgotten, asleep past its turn or overtaken in its runtime; runtimes take turns |
| **Per-runtime admission gate**, `async_scheduler.py`, `scheduler.py` | request states, FIFO of ids, inflight | acquire, release, cancel, forget, snapshot | a request is admitted by one task and started by another; timeout, disconnect and notification meet in one turn of the loop | a slot is returned exactly once; no slot is free beside a sleeper; arrival order; nothing starts late |
| **Request scheduling middleware**, `request_scheduler.py` | one permit of each kind per request; the stream that owns them | two attempts under one deadline | residency changes during a wait; cancellation at every await; threads of one executor; a loop that stands still | every path gives back what it took; nobody waits for ever |
| **Transient memory admission**, `transient_resource.py`, `request_resource_admission.py` | a reservation per request | reserve, release at the end of a stream | undone in another order than made | waiting requests hold none, executing ones theirs |
| **Runtime manager**, `runtime.py`, `product_runtime_manager.py` | residents, aliases, loads under way, defaults, runtime states and leases, engines whose cleanup failed | load, reload, unload, lease, set_default, shutdown | builds and closes run outside the lock; both may fail; calls overlap each other and the shutdown | no engine closed in use or lost; routes lead to residents |
| **Resource ledger**, `resource_manager.py`, `memory_envelope.py`, ... | reservations against a budget | estimate, reserve, commit, release | unknown components; observed bytes replace reserved ones | the budget is kept; no reservation without an owner |
| **Residency policy**, `residency_api.py`, `residency_eviction.py`, `residency_pressure.py` | pins, recency, hysteresis counters | plan and apply an eviction | plan and action are separate | evicts only what was idle, not pinned and not the default when it was chosen, once per episode of pressure |
| **Worker processes**, `worker_*.py` | pending request, process, pipes | request, reply, timeout, stop | late and lost replies; a child that hangs, dies or does not read; two threads that stop it | an answer goes to its own question; a stop leaves no process, and ends unless a write keeps the lock |
| **Inference backends and process supervision**, `engine.py`, `process.py`, `llama_server_compat.py` | server programs, ports, version cache | start, probe readiness, stop | failed starts, foreign ports, an executable that is replaced | no server without an owner, none taken for another |
| **Chat completions, streaming and response cache**, `server.py`, `reasoning_*.py`, ... | cached answers, status, log buffer | complete, stream, close | ownership of the slot; delimiters cut by chunks; replacement between cache and inference | answers come from the resident runtime; only the answer is shown |
| **Image generation**, `image_generation_*.py`, `stable_diffusion_cpp_image_engine.py` | jobs of the server program | submit, poll, cancel | a poll that fails or times out | an image goes to its own request; nothing is computed for nobody |
| **Evaluation**, `evaluation*.py` | runs, samples, history on disk | run, cancel, save, compare | reload and import between samples | what is compared was measured alike |
| **Transcription**, `transcription.py`, `control_plane_api.py` | a permit of the governor | transcribe | waits for the governor on the event loop's thread | no deadlock |
| **Model download and artifact verification**, `downloader.py`, `artifact_*.py`, `model_sources.py` | partial files, receipts | resume, rename, verify, resolve | kills, dropped connections, two processes at one partial file, files that come and go | a named model file is whole; what is shown is what is started |
| **State backup and restore**, `state_backup.py` | JSON files, archive, temporary files | backup, restore | stops half-way; a server that saves meanwhile | a file is whole or absent |
| **Metrics, identity and evidence**, `*_metrics.py`, `runtime_identity*.py` | the latest numbers of a runtime | record, capture | events cut by chunks; a runtime resolved late | numbers are those of one request, on its runtime |
| **Evidence procedures on a device**, `device_evidence_campaign.py`, `multi_model_*.py`, `l2_evidence_bridge.py`, `reclamation_*.py`, ... | a directory of reports, a server, workers | campaign, cycles, review | interrupts, failures that are swallowed, a directory used twice | evidence says no more than what happened |
| **Configuration, registry and command line**, **Studio user interface** | – | – | pure data; pages in a browser | – |

How they interact: the scheduler acquires the gate, then the governor, checking
after each that `resolve` still returns the runtime it started with; it reserves
transient memory once it is admitted; the handler leases the runtime
(`active_requests`) for the call. Nothing else couples the gate and the governor with
the manager: unloading a runtime neither cancels its waiters nor takes permits back.
The manager reserves bytes before it builds and returns them after it has closed.
Transcriptions and evaluation samples take slots of the governor without the gate.

`PROJECT.json` lists every component with what is modelled of it, and the
hazards of the code, each at its line, with the properties that cover it.

## 2. The modules

| Module | Models |
|---|---|
| `AdmissionPool` | what any admission component promises: permits, arrival order, no permit taken back |
| `GlobalExecutionGovernor` | `global_execution_governor.py`; implements `AdmissionPool` with runtimes as classes |
| `GovernorRoundRobin` | the governor with a history of turns, to state fairness between runtimes |
| `RuntimeGate` | `async_scheduler.py` over `scheduler.py`; implements `AdmissionPool` with one class |
| `RequestExecution` | the composition: gate, governor, memory, route and lease of requests, transcriptions and evaluation samples |
| `ModelRuntimeManager` | `runtime.py` and `product_runtime_manager.py` over the ledger |
| `ResourceLedger` | `resource_manager.py`, the budget of `resource_policy.py`, the estimates of `memory_envelope.py` |
| `ResidencyPolicy`, `PressurePolicy` | uses, pins, candidates and their eviction; the hysteresis of the pressure policy |
| `WorkerTransport` | owner and child over two pipes |
| `BackendProcess` | llama-server, mlx_vlm and sd-server as processes with ports and versions |
| `ChatCompletions` | policy, route, cache, lease and status of chat completions |
| `ReasoningBoundary` | what of a stream reaches the client |
| `ImageJobs` | the jobs of sd-server |
| `LogStream` | the live log and its listeners |
| `RequestMetrics` | what is measured of a request and where it is kept |
| `ArtifactDownload` | download, verification and receipts |
| `ModelSources` | where the files of a model are, for the configuration and for the engine |
| `StateBackup` | backup and restore beside the stores that write |
| `EvaluationRuns` | runs, reports and their comparison |
| `MultiModelEvidence`, `EvidenceCampaign` | the procedure with two models; the campaign on a device |
| `Serving`, `Stores` | sums of the components that share no state: between a request and its answer (log, pressure, residency, images, backends, chat), and of those that keep files (download, backup, evaluations, sources, campaign, multimodel). Each component is an instance over constants and variables of its own; a behaviour is of the one that `component` names, and the variables of the others stay 0. They state the properties that are checked and proved |
| `MC*` | instances for TLC. `MCServing` extends `Serving` with the governor's turns, the reasoning boundary and the metrics; `MCStores` extends `Stores` with the ledger of `MCResourceLedger` |
| `Sums`, `Selections` | what a function adds up to over a finite set; what a filter leaves of a sequence |
| `CollectionLemmas` | facts about these two, about naturals and about recursion on an interval, which all proofs cite |
| `GlobalExecutionGovernor_proofs`, `RuntimeGate_proofs`, `RequestExecution_proofs`, `WorkerTransport_proofs`, `ModelRuntimeManager_proofs`, `Serving_proofs`, `Stores_proofs` | the theorems about these modules, see section 4. `Serving_proofs` is about `Serving`, `Stores_proofs` about `ResourceLedger` and `Stores` |

Definitions named in a comment "Mutant of D" are plausible wrong versions of D.
No specification uses them; with D replaced by its mutant, TLC finds the
property PROJECT.json names beside it violated. They document that each
property depends on the code it is about.

### GlobalExecutionGovernor

Every public method of the class takes one `threading.Condition` for its whole
body, and only `wait` gives it up, in `condition.wait`. So an action is one
critical section: `Submit` (with `SubmitRefused` for arguments that raise and
`SubmitRejected` for a full queue), `Wait` (which sleeps, returns a permit or
raises), `Abandon`, `Release` and `Snapshot` (`/status` polls it, and it expires
and admits). `acquire` is `submit` followed by `wait`. The private `*_locked`
methods are operators from one value of the pool to the next, so that their order
inside a method is the order of application: `BeforeSubmit(now) ==
Admit(ExpireQueued(Pool, now), now)`. The `while` loops are recursive functions
over naturals, which keeps the module open to proofs. For the refinement, `Entries` looks
up the waiters of a runtime's queue in the registry and `Line` leaves those of them
that wait: a stale id stands for nobody.

The `now` parameters are clock values: `submit`, `abandon`, `release` and
`snapshot` read the clock before they take the lock, so any earlier value is
possible. `wait` reads it under the lock. `owner` and `thread` are the client's
side: a client submits, its worker thread waits, and it releases, or abandons
when its coroutine is cancelled, possibly before its thread ever entered `wait`.
`notified` is the set of sleeping threads that `notify_all` has reached.

### RuntimeGate

The gate lives on the event loop. No path in `acquire` suspends before
`condition.wait()`, so a task runs from one wait to the next in one step:
`Enter`, `Resume` (it was notified, or its turn came), `TimeOut` (its
`wait_for` ran out), `Disconnect` (its client went away), `Release`. `Cancel`
and `Snapshot` are the public methods of the class that only its tests call. The
middleware's reaction to an exception (`_safe_forget`) is part of the step
(`Settle`). There is no clock: a deadline is either due or not, and `Lapse` makes
it due. The model follows Python 3.12 and later, where `asyncio.wait_for` awaits in
the task that called it; before, it made a task of its own, and a cancellation could
suspend once more.

### RequestExecution

The composition of what a request passes. The gate and the governor appear as the
lines and slots of an `AdmissionPool`, which the two modules above implement. HTTP
requests are tasks of one event loop: `Arrive`, `Schedule`, `PassGate`, the wait for the governor in
a thread of the loop's executor (`StartWait`, `EndWait`; there are `Threads` of
them), the reservation, the route with its lease and semaphore, the body.
`ChangeResidency` loads, reloads and unloads runtimes whenever the manager would allow
it; a request whose runtime was replaced tries once more. `Cancel` reaches a task at any
await. A transcription waits and executes on the loop, which is then `blocked`; it
and an evaluation sample are `Direct`: they share the path without gate. A cancelled
task leaves a handler behind that goes on executing in its thread (`gone`).
`MemoryFollowsAdmission` speaks of those that have not been cancelled, of a stream to the
end of its body: `ServedAsAdmitted` is a request in the hands of the runtime it was
admitted for. One whose route finds another runtime than the admission did runs with no
reservation.

### ModelRuntimeManager

`load`, `reload`, `unload` and `shutdown` run on worker threads and take
`_manager_lock` for short sections; each section, each reservation, each build and
each close is an action, and all of them interleave. `load` is `BeginLoad`,
`Reserve` or `ReserveRejected`, `Build` or `BuildFails`, `Publish` or
`PublishRefused` (an alias conflict), `Adopt` (what the product subclass adds
after `add`), `Return`, `Cleanup`. `reload` is `BeginReload`, the same middle, then
`Swap`, `CloseCurrent`, `ReleaseCurrent`, `Replace` or `ReplaceLost`. An engine that
cannot be closed stays `live` and its owner keeps it (`pending` or a FAILED runtime).
Two closes of one engine are allowed, as `close` is idempotent.

A load attempt stands for the engine, the runtime object and the reservation it
makes, as each attempt makes one of each. A reservation without an estimate is not
made (`Size = None`). `chosen` holds the runtimes whose `set_default` is between its
two sections. `Lease` is `lease_runtime`: resolve, and then, under the lock, verify
that the runtime is still the resident READY one; because it verifies, the resolve
needs no action of its own.

Nothing limits how calls meet. A runtime may be used, reloaded or unloaded as soon as it is
routable, before the `load` that made it has returned, and `shutdown` begins whenever it
likes: the server starts it from the event loop's thread while worker threads keep running.
Three things the code allows then are kept as history, and the properties name them where
they make an exception:

| History | Is | Because of |
|---|---|---|
| `overtaken` | runtimes whose memory was released by an unload, a reload or a shutdown before their own `load` had returned | `runtime.py:317`, `product_runtime_manager.py:51` |
| `late` | attempts (loads and reloads) that the last shutdown found under way | `runtime.py:552` |
| `reopened` | runtimes that a failed reload made READY during a shutdown | `runtime.py:445-448` |

The history is read by the properties only: no guard and no other variable depends on it.

### ResourceLedger, ResidencyPolicy, PressurePolicy

`ResourceLedger` takes the configurations an owner may have, each with the components of
its footprint known or `Unknown`, and computes the estimate as the code does; a
reservation, its commit with an observed footprint, its rollback and its release are
actions. `Accounted` is the sum of `snapshot()`; `WithinBudget` compares it with the budget
less the headroom, and `OwnersAreAccounted` says that who lives has a reservation of what
it was estimated at or observed to use, and that nobody else has one.

`ResidencyPolicy` has what the product manager keeps beside the base manager, with its
separate lock sections (`loader`, `unloader`), and an evictor that selects from a
snapshot and unloads one candidate after the other, while requests, loads, pins and
changes of the default happen. The evictor remembers the pins and the default of its
selection, and `ProtectionHolds` says that it unloads none of them. A pin that is set after
the selection does not protect, in the code as in the model: `unload` does not look at pins.
`PressurePolicy` keeps the samples beside the
counters, so that the property can say what an episode is without the counters.

### WorkerTransport and BackendProcess

`WorkerTransport` has the owner's threads (a constructor, requests, stops), the lock of
the round trips, the pipe in both directions with the readers that have outlived their
round trip, and the child, which may fail, hang or die at any time. A round trip looks at
the child (`Poll`), takes the lock (`Lock`), writes its line and waits for one. The line of
a request in `Long` is longer than what the pipe holds: its `Write` waits, with the lock,
until the child reads, for as long as that takes. `stop` reads the state (`BeginStop`),
moves it (`Move`), and asks the child to stop, in separate steps without a lock, so that two
stops meet everywhere and one may raise from the state the other has left. `Close` and
`Kill` signal the child; in `Outlived` it survives SIGKILL beyond the second wait, and the
exception leaves the transport with its process. `Collect` is the garbage collector that
closes the input of a transport that nobody keeps.

`BackendProcess` has the operating system's side: processes, ports that other programs
listen on, the executable and its replacement. A start reserves a port, spawns, and
waits for an answer of whoever listens there; stopping terminates, kills and reaps.

### ChatCompletions, ReasoningBoundary, ImageJobs, LogStream, RequestMetrics

`ChatCompletions` follows a request through policy, cache, lease, semaphore and
engine, while generations of the runtime replace each other; its `BusyIsReported` is about
the flag that `mark_started` and `mark_idle` maintain. `ReasoningBoundary` lets a model
write any text over the symbols of two shortened delimiters and ordinary text, cut
into any chunks, with and without structured output, and compares what the client has
with the whole answer (`Answer`). `ImageJobs` has several requests on one server
that computes one job at a time. `LogStream` has a writer, a bounded buffer and
listeners with bounded queues. `RequestMetrics` takes a script of backend events,
with usage and timings that may be partial, and follows the recorder and the route.

### Files: ArtifactDownload, StateBackup, EvaluationRuns, ModelSources

`ArtifactDownload` has any number of processes that download the same file at once, from a
server that may change its revision between two requests, ignore the range or tell no size.
It has inodes, so that a writer whose file was renamed away keeps writing; "wb" writes at an
offset of its own and leaves holes, "ab" writes at the end. Comparing the size and renaming
are two steps, and a process may be killed between any two. What the code does not look at
and makes a file other than its blocks promise is kept as history in `doubts`: `crossed` (two
processes had the part file in hand, or it is not the one that was asked to be resumed),
`mixed` (it held blocks of another revision), `unranged` (the server sent everything to a
request for the rest), `unsized` (it did not tell the size that was to be compared), `edited`
(the owner put another file there). `PublishedIsWhole` says what a published file is when
there is none of them, and what it still is when it is only mixed. Receipts are by inode and
stamp, which every write changes (`Stamped`); `overtaken` marks one whose file was changed
between its hash and its stat.

`StateBackup` has the three kinds of file, each written by way of a temporary one, and the
tool's phases over them; both the tool and the server may die anywhere. `EvaluationRuns` has
reports whose profile, identity and results are captured at the times at which the code does
it. The identity of a runtime is the digest that its configuration brings
(`artifact_sha256`, `pin`), which no file is compared with, or else the one of a receipt that
matches the file that lies there when the identity is captured, after the engine was built:
`moved` are runtimes whose file was replaced in between, and `Vouched` names the engines for
which the digest is somebody's word in one of these two ways.
`ModelSources` has two resolutions of the same registry entry, by the configuration and
by the engine, with files that come and go between them.

### MultiModelEvidence, EvidenceCampaign

The first has the cycles of one report with two runtimes, the shutdown procedure that
holds a request, failing teardowns, and the review of several reports. The
second runs its phases as the code does: each either passes, fails or is
skipped, the operator interrupts anywhere, including the handler of an interrupt, and
the directory keeps what an earlier campaign wrote. Both say what evidence claims, and
their properties compare the claims with what happened.

## 3. What the runs check

| Run (cfg) | Instance | Checks |
|---|---|---|
| `governor_safety` (GovernorReload) | 4 submissions, two slots, queue of 2, A's limit raised from 1 to 2 between submissions, timeouts none and 1, clock to 1 | `Inv`, `WithinCaps`, `WorkConserving`, `NoLostWakeup`, `LegalMoves`, `ImplementsAdmissionPool` |
| `governor_liveness` (GovernorLiveness) | 3 submissions, two under one id, one slot, timeouts none and 1 | `EveryClientIsAnswered` |
| `gate` (Gate) | 4 requests, 2 with deadlines, one slot, 2 may wait | `SlotsAreAccounted`, `StartedInTime`, `ImplementsAdmissionPool`, `EveryClientIsAnswered` |
| `manager` (Manager) | two attempts for model A, one for B, which share a model id, one attempt for A of unknown size, the others of size 1, budget 1, one lease each | `LiveEnginesFit`, `EnginesOwned`, `AliasesResident`, `ReservationsOwned`, `DefaultResident`, `NoTeardownInUse`, `CleanShutdown` |
| `execution` (Execution) | a stream, a request with a deadline and a transcription for one key with two residencies; one execution and one waiter per gate, two slots, two threads, memory for one | `NothingKept`, `SlotsAreWorth`, `MemoryFollowsAdmission`, `LateRequestsDoNotQueue`, `EveryRequestIsAnswered` |
| `worker` (Worker) | a constructor, a generation with a long line, a drain, two stops | `OwnAnswer`, `LifecycleIsTrue`, `StopEnds` |
| `serving` (Serving) | nine components, see below | `NoSecondTurn`, `OnlyTheAnswerIsShown`, `AnsweredByTheResident`, `StreamIsContiguous`, `EvictionIsJustified`, `NothingIsLeftBehind`, `MeasuredAsServed` |
| `stores` (Stores) | seven components, see below | `WithinBudget`, `OwnersAreAccounted`, `PublishedIsWhole`, `FilesAreWhole`, `AttributionIsSound`, `SourcesAgree`, `EvidenceIsEarned` |
| `manager_ledger` (ManagerLedger) | as `manager` | `LedgerEmptyAfterwards`: **violated** |
| `log_listener` (LogListener) | buffer of 4, queue of 2, one listener | `SubscribersAreServed`: **violated** |
| `campaign` (Campaign) | one campaign in a new directory | `ReclamationIsVerified`: **violated** |
| `worker_stop` (WorkerStop) | as `worker` | `StopIsBounded`: **violated** |

`Inv` is the governor's inductive invariant of section 4. In `serving` and `stores` a
property of a component is stated with the condition that the behaviour is one of that
component: in `Serving` and `Stores`, or in `MCServing` for the three components that are
only there. The properties of the ledger are checked as they stand in their module, since
its variables keep their initial values in the behaviours of the others. The constants are in the `.cfg` or, where they are functions and records, in
the `MC` module. Where two components have the same purpose, one
property stands for both: `AnsweredByTheResident` (answers and the flag that says
that a runtime is at work), `EvictionIsJustified` (protection and pressure),
`NothingIsLeftBehind` (server programs and image jobs), `EvidenceIsEarned` (the procedure
with two models and the campaign).

| In `serving` | Instance |
|---|---|
| turns | runtimes a (two submissions, two at a time), b and c, one slot |
| boundary | outputs of up to 5 symbols in chunks of up to 3, an engine that may fail |
| chat | 3 requests, one a stream, two generations, two configurations, a cache of one entry that may expire |
| log | two listeners, buffer of 4, queues of 2, 5 lines |
| residency | two keys, one request, three loads, one change of pins or default, two threads that unload |
| pressure | two samples to trigger and two to clear, 7 samples of 4 kinds |
| images | 3 requests of 3 sizes, two slots, two failing calls |
| backends | a llama-server and an mlx_vlm server on two ports, one foreign program, one replacement of the executable |
| metrics | a stream of 4 events and a JSON answer, chunks of up to 4 pieces, two generations |

| In `stores` | Instance |
|---|---|
| download | two processes that make two attempts together, two revisions of 2 blocks, one of them with the pinned digest, 2 tries per call, one edit of the owner, a server with and without ranges and sizes |
| backup | files of the present and of a later schema, one save, two runs of the tool |
| evaluations | two runs of one sample, asked not to think, two loads, of a model that obeys and whose digest is that of its file, or of one that always thinks and whose digest is configured, one edit |
| sources | one entry for each of seven backends, explicit and registered, one change of files |
| multimodel | two reports of two cycles, one fault, one change of identity |
| campaign | two campaigns in one directory, each with two interrupts and one fault |
| ledger | two runtimes and a request, a budget of 8 with a headroom of 1, four and three configurations |

### Bounds and why they are enough

* Governor: the hard cases need a holder, a waiter that can go stale, and one that
  arrives afterwards; a second runtime; and a limit that changes while somebody
  waits. Four submissions on two slots give rotation, the skipping of a runtime at
  its limit, and every order of admission, expiry, abandonment and release with
  stale entries in front of live ones. `MaxClock` bounds the clock and all deadlines;
  with 0 and 1 a deadline may lie at or after any action, and a stale `now`
  before it.
* Gate: four requests on one slot, so that one holds it, two wait, with and without a
  deadline, and one is rejected; that admission hands out several slots in one step is in
  the proofs, for any number of slots.
* Manager: two attempts for one key are the least for a reload or a competing load, a
  third for another key for defaults, shared aliases and a tight budget. Budget 1 lets the
  attempts of known size exclude each other, so that a reservation is refused; the attempt
  of unknown size, which reserves nothing, may be replaced by the other one for A and may
  replace it. `MaxLeases` bounds
  the requests on one runtime. An attempt is used once, so there is no unbounded
  sequence of loads; a runtime that has gone is the state to which a further load
  would come back. All interleavings have 2.9 million states. Budget 2 was checked as well,
  with all sizes 1 (2.5 million) and with the one of B unknown (5.0 million).
* Execution: three clients of different kinds meet on one key, so that every pair
  competes for the gate, for the governor, for the memory of one and, after a
  replacement, for the semaphore of the second residency. Requests are made
  once.
* Worker: a generation whose answer is late or whose line is not read, a second command to
  which its answer could be given, and two stops that race each other. Calls are made once.
* Downloads: two processes are the least that cross, and two attempts in all (`Tries`),
  which both may make, or one of them after its first has failed or it was killed; a third
  adds no way to lose a block that the proof, for any number, would not cover. Two
  revisions let a server change in between.
* Evaluations: `AskedPolicies` is the policy that not every model follows (`off`): one of the
  two models does, the other cannot, so the policy asked and the one in force agree and differ.
  What is asked of one run does not meet what is asked of another; the proof has all policies.
* The components of the two sums have the least number of actors for each hazard at its line
  (two engines for one port, two reports for one comparison, two campaigns for one
  directory); `MaxLoads`, `MaxChanges`, `MaxFaults`, `MaxEdits`, `MaxRetries`,
  `MaxSaves`, `MaxJobs`, `Tries`, `Edits`, `MaxInterrupts`, `MaxCampaigns`, `MaxReports`, `MaxForeign`,
  `MaxReplacements`, `MaxTicks`, `MaxLines`, `MaxSamples`, `MaxRaw` bound what could go on for
  ever, and nothing else. Five symbols of output hold a block of reasoning with both its delimiters, of two and
  three symbols, and every prefix and confusion of the two; behind a delimiter the
  parser only remembers on which side of it it is.
* Symmetry is not used.

Deadlock is checked in the gate's and the governor's runs: `Snapshot`, which
anybody may call at any time, is always enabled there, so that check says only that
the guards are total; that nobody is stuck is what the liveness properties say. The
other runs switch it off: a clean shutdown, answered requests and exhausted
bounds are the end of a behaviour.

### Fairness

`FairSpec` of the governor and of the gate is `Spec` with `Scheduling`: a thread (a task)
that may run is run, timers fire, and time passes. That is what the operating system
and asyncio provide. Weak fairness is enough since nobody disables a thread that can
take the lock for good: a critical section is short and ends. Nothing makes clients
submit, disconnect or abandon, or somebody poll `/status`. `EveryClientIsAnswered` has
the further hypothesis `HoldersFinish`, that an execution which holds a slot ends; it
stands in the property and not in the specification, so that its other conjuncts
show what holds even when an execution hangs.

`FairSpec` of `RequestExecution` has weak fairness of the executor's threads (`StartWait`)
and of every step a request makes by itself, the end of its execution included.
`EveryRequestIsAnswered` assumes besides that no body is lost and that the loop is not
blocked for ever; both can happen, see the observations.

`FairSpec` of `WorkerTransport` has weak fairness of the owner's threads and timeouts and
of the kill that the operating system carries out; nothing is assumed of the child, not even
that it reads. So a write may block for ever with the lock of the round trips in its hands,
and a stop behind it waits for ever: `StopEnds` says that a stop ends unless that is so
(`<>[]Stuck`), and `worker_stop` shows that it is. The other modules are checked for safety
only.

### What the violations show

* **A reservation nobody returns** (`runtime.py:317`). A runtime is routable before
  its reservation is attached. An unload, a reload or a shutdown in between has nothing to
  release, and the bytes stay reserved until the process ends.
* **A live log nobody can open** (`server.py:138`). A new listener's queue of 1000 is
  filled with a buffer of up to 2000 lines; past 1000 lines, every subscription fails.
* **A complete campaign with exploratory identities** (`l2_evidence_bridge.py:334`). The
  review computes that verified identities are required and missing; the gate of the
  bundle reads only its counts.
* **A stop that never ends** (`worker_transport.py:155`). A line longer than the pipe is
  written under the lock without a timeout. While the child does not read, `stop` waits for
  that lock before it comes to terminating the child, which would have ended the write.

## 4. What is proved

The proofs hold for every value of the constants: any finite number of requests, waiters
or load attempts, any limits, capacities, sizes, timeouts and bounds.

| Module | Theorem | Says |
|---|---|---|
| `GlobalExecutionGovernor_proofs` | `InvariantHolds` | `Spec => []Inv`, the inductive invariant |
| | `SlotsAreAccounted`, `LimitHolds`, `CapsHold` | the counters equal the holders of slots; never more than `max_running`; the runtimes' own limits |
| | `SlotsAreUsed` | `[]WorkConserving`: no slot idle beside a waiter who could have it |
| | `NoWakeupIsLost` | `[]NoLostWakeup`: a thread sleeps only for a waiter in the queue, or is notified |
| | `MovesAreLegal` | `LegalMoves`: permits are granted by admission and end by their owner; an end is final |
| | `ImplementsPool` | `ImplementsAdmissionPool`, every critical section is a step of `AdmissionPool` |
| `RuntimeGate_proofs` | `InvariantHolds`, `AccountsAreRight` | `[]SlotsAreAccounted`: slots counted once, none free beside a sleeper |
| | `StartsAreInTime` | `StartedInTime`: nothing starts after its deadline |
| | `ImplementsPool` | `ImplementsAdmissionPool` |
| `RequestExecution_proofs` | `InvariantHolds` | what a request has belongs to the place where it is |
| | `NothingIsKept` | `[]NothingKept`: who has left keeps no slot, place or memory |
| | `SlotsAreWell` | `[]SlotsAreWorth`: who executes after an admission has a slot |
| | `MemoryFollows` | `[]MemoryFollowsAdmission`: a reservation lasts to the end of the execution, or of the stream, it was made for |
| | `LateDoNotQueue` | `LateRequestsDoNotQueue`, no step puts a late request into a line |
| `WorkerTransport_proofs` | `InvariantHolds`, `AnswersAreOwn` | `[]OwnAnswer`: a call gets the answer to its own line |
| | `LifecycleHolds` | `[]LifecycleIsTrue`: a stopped worker, and one that a stop has come back from, has no process |
| | `RoundTripsAreExclusive` | one call at a time writes or reads |
| `ModelRuntimeManager_proofs` | `InvariantHolds` | the inductive invariant of engines, memory and names |
| | `LiveEnginesDoFit`, `EnginesAreOwned`, `AliasesAreResident` | `[]LiveEnginesFit`, `[]EnginesOwned`, `[]AliasesResident` |
| | `OrderHolds` | the inductive invariant of the order in which runtimes are made, used and torn down |
| | `ReservationsAreOwned` | `[]ReservationsOwned`: no reservation without somebody to return it, but those of `overtaken` loads |
| | `DefaultIsResident` | `[]DefaultResident`: the default leads to a resident, unless an `overtaken` or a `late` load has set it |
| | `NoTeardownUnderRequest` | `[]NoTeardownInUse`: no engine is closed under a request, but that of a `reopened` runtime |
| | `ShutdownIsClean` | `[]CleanShutdown`: a shutdown that reports no failure leaves nothing but what `late` loads make and `overtaken` ones lose |
| `Serving_proofs` | `LogStreamsAreContiguous` | `[]StreamIsContiguous`: a listener of the log misses nothing as long as its queue was never full |
| | `EvictionsAreJustified` | `[]EvictionIsJustified`: no runtime is evicted that was pinned, or the default, when it was chosen, or stopped under a request; one attempt per episode of pressure |
| | `NothingStaysBehind` | `[]NothingIsLeftBehind`: no engine is answered by the server of another, and a server whose engine is lost has been killed; images are of a request's own job, and the server works for nobody who has gone but after a failed call |
| | `AnswersComeFromTheResident` | `[]AnsweredByTheResident`: answers, cached or not, are of the load the request was resolved for, and who works says so |
| `Stores_proofs` | `InvariantHolds`, `BudgetHolds`, `OwnersAreInLedger` | `[]WithinBudget` and `[]OwnersAreAccounted` of `ResourceLedger` |
| | `PublicationsAreWhole` | `[]PublishedIsWhole`: a file with a model's name is whole and of one revision, a receipt vouches for what it holds, but for the named doubts |
| | `BackupsAreFaithful` | `[]FilesAreWhole`: nobody reads half a file, and a restore did what it reports |
| | `AttributionsAreSound` | `[]AttributionIsSound`: reports called attribution_safe were made with the same test set, configuration and reasoning, and by the file they name unless its digest was only vouched for |
| | `ResolutionsAgree` | `[]SourcesAgree`: what is shown of a model is what its start does |
| | `EvidenceHolds` | `[]EvidenceIsEarned`: complete reports and complete campaigns say no more than what happened |

The modules about one specification prove `TypeCorrect`, `Spec => []TypeOK`, besides. The
theorems of `Serving_proofs` and the last five of `Stores_proofs` are about `ServedSpec` and
`KeptSpec`, whose steps are those of the component the behaviour is of.

### Assumptions

The named `ASSUME` of each module types its constants, and says no more than the
code does: sets of actors are finite and disjoint where one actor has one role, limits are
positive (the constructors refuse others), sizes are numbers or `None`. Beyond that:

* The theorems about the governor assume `IdsKeepRuntime`: an id is not used for two
  runtimes. It is necessary: `Release` lowers the counter of the runtime of the *registered*
  waiter, while admission raises that of the *queue* it found the id in.
* `ImplementsPool` of the governor assumes `IdsUnique`. It is necessary too: a stale entry
  of an id that is used again gives its second user the place of the first. Callers make
  a fresh uuid for each request, which satisfies both.

The theorems about the manager assume nothing of how calls meet.

The components of the two sums have no `ASSUME`, because a constant that only one of them
uses must not restrict the others; each theorem names its hypotheses:

| Hypothesis | Says | Why |
|---|---|---|
| `LogAssumption` | the log's buffer has room for a line | `LogStreamBuffer` of `server.py` keeps 2000 lines |
| `PressureAssumption` | trigger and clear are levels of pressure, the counts of samples numbers | types |
| `ResidencyAssumption` | finitely many runtimes and requests | requests at work are counted |
| `ImagesAssumption` | sizes, default and maximum are numbers | types |
| `BackendsAssumption` | ports are positive numbers | 0 stands for no port |
| `ChatAssumption` | finitely many requests of known kinds, known settings, and a cache that is enabled, with positive size and time to live | a disabled cache is the model without the lookup |
| `DownloadAssumption` | finitely many processes, a file of at least one block | there is a new file for whoever opens one |
| `BackupAssumption` | the files there are at the start are of known schemas, and 1 is a value | types; others are refused when they are loaded |
| `EvaluationsAssumption` | known settings and policies, a number of loads | types |
| `SourcesAssumption` | entries of vision servers are multimodal | `models_registry.yaml:174-180`; the registry's validation does not demand it, and for an entry that is not, the configuration does not ask for the processor the engine needs |
| `MultiModelAssumption` | a report has a cycle, the minima of the review are numbers | `multi_model_device_evidence.py` refuses fewer |

Nothing is assumed of campaigns, of the number of faults, interrupts, edits, changes and
saves, nor, but for the above, of the sets of actors. An eviction may take any candidate among those of equal age.

### The arguments

**Governor.** `SlotAccounting` is not inductive: a release lowers the counter of one
runtime, so the waiter released must be the one that was counted. `Inv` adds what that
takes. `PoolInv` says that a queued or running waiter is the one registered under its id,
that the registry is keyed by ids, and that a runtime's queue holds only ids of that
runtime; `WithinCaps` and `WithinLimit` are conjuncts because admission tests the counters,
not the sets. `ClientType` types the client's side, and a client that has not called yet
has a `new` waiter, so that submitting cannot disturb a holder. `Safe` adds
`WorkConserving` and `NoLostWakeup`: what one critical section leaves behind is what the
next one relies on.

The private methods are operators from pools to pools, and are shown to preserve `PoolInv`
one at a time, then each action, then `Next`. Relations between two pools carry what is
needed and compose, so that a loop takes one step's lemma and an induction over its
iterations: `Follows` (the registry stays, only queued waiters move), `Moves` (what a
step may do to one waiter), `NoIdleSlot` (what `admit_locked` ends with, whatever it began
with). For the refinement, `Advances` says that the lines lose members and keep their
order, and that whoever gets a slot was `Ahead` of all who go on waiting in his runtime;
it survives any number of admissions and expiries because a queue only loses prefixes
in which nobody waits (`LosesPrefix`). `Serves` adds the one waiter who may join, at the end;
`Entered` says that nobody who has not called has an entry, so that he does join there.

**Gate.** The invariant is that of the scheduler, `Sound` (the queue holds every id once
and every queued request; `inflight` counts the holders), and for each task `Fits`: its
position in the coroutine agrees with its request's state, and one that sleeps with a live
deadline does so because all slots are taken. One notification admits several
requests: `First` names the first n of those who wait, and `Admits` relates the gate
before and after n calls of `next()`. `Evolves` is what one step does to everybody, and
gives both the refinement and `StartedInTime`.

**Execution.** Every request has an account (`Account`): where it stands in the stack of
middlewares determines what it has in the gates' lines and slots, in the governor's, of
memory and of residencies. `Good` types the admission variables, counts the slots
against the limits and sorts the lines by key. An operation on lines and slots moves one
request and leaves the others `Untouched` except that it may grant them a slot, which
their account allows; so each action needs the account of one request only. That memory
lasts needs `Endowed` besides (`MemoryInv`): a request at its route has its memory if the
runtime there is still the one it was admitted for, and a runtime that has been replaced
never comes back, so a request that is served as admitted had it when it came in.

**Worker.** `OwnAnswer` follows from the order of the pipe only as long as one call reads:
`OneReads` (the lock belongs to the call that writes or reads), `Accounted` (there is no
process but the one the transport has, and none after a stop has returned), `LoaderFirst` (nobody precedes the constructor), and `PreparedIsTrue`,
which says of the answers still in the pipe that none promises an engine the
child does not have.

**Manager.** There are two invariants, the second on top of the first. `ManagerInv` is about
memory and names. `Backed` and `Fitting` give the budget: an engine lives only under a
reservation, and a reservation is released, or a runtime forgotten, after its engine is closed
(`ClosedFirst`). `Findable` gives ownership, with `Targeted` (who replaces a runtime knows
which) for the steps of a reload that take it out of the table. `Routed` is about names.

`OrderInv` is about who does what to which runtime. `InTurn`: a load whose runtime has gone
has been overtaken, and what a shutdown finds under way is late. `TornDownOnce`: while the
server is up one call at a time tears a runtime down, since the state READY, which they all
ask for and take away, is given back only by a reload whose engine still lives. A shutdown
takes READY away without asking who else is there, and then a failed reload may give it back
(`reopened`); for all others `Serving` (a READY runtime is resident, alive and torn down by
nobody) holds at all times, and gives `InUse`. `Held` says whose each reservation is, with
`Spent` for the steps between the release of a runtime's memory and its removal;
`Defaulted` who may have set a default, and which keys may still become one, once a shutdown
has begun; `Fresh` that an attempt keeps its engine to itself until it is published; `Swept`
what the shutdown has still to stop.

**Ledger.** `LedgerInv` is the two properties, the types, and that an owner under way keeps
the configuration it began with (`Configured`), which ties what is released to what
was reserved. That estimates are numbers is proved from the code's fallbacks (`EstimateIsFair`).

**Log.** `LogInv`: the buffer is a row of the newest lines (`LogKept`), and what a stream
has read and still has queued is a row that ends with the newest line, unless its queue has
overflowed (`Stretched`). Rows are closed under append and under dropping the first.

**Residency and pressure.** `LeasesCounted` ties the counter of a runtime to the requests
that hold it, so that one that is stopped is used by nobody (`StoppedIsUnused`);
`PinsAreKnown` names the only place where a pin may outlive its runtime, the unload whose
last section is to come; `EvictionSpares` remembers what was pinned or the default when candidates were
selected. Of the pressure policy, `PressureCounts` says that its counters are the lengths
of the streaks with which the samples end (`Ends`), which is what makes every attempt so far
`Justified` by the samples alone.

**Images and backends.** `JobsKnown` relates each job of the server to the request that
holds its number, and `FewAreLeft` counts the jobs nobody waits for against the calls that have
failed. `ProgramKnown` says, for each place of a start or a stop, which process the engine has
and on which port; `PortsAreOwn` that two that hold or reserve a port have different ones;
`VersionKnown` that a cached version is that of the executable with the same stamp.

**Chat.** `LeasesAreCounted` ties `active` to the requests inside, so that a load with a lease
is not replaced; `ServedByCurrent` says that a request with a lease is served by the
resident load, and `AnswersAreKept` that each entry of the cache, and each answer, is of the
load in its key.

**Download.** `FileIsSound` is about one file without doubts other than `mixed`: it is a
beginning of the model's file, at most one process reads into it, and what that process has
still to write (`Completes`) is what the file lacks; whoever has compared its size and is
about to rename it has found it whole, and so it is once it bears the name. A second process
that opens it makes it `crossed`, and then nothing is claimed any more. A new file is one
that nobody has in hand (`FreshIsFree`). `DigestIsTrue`: a digest is of the blocks its file
holds until the file is written again, and so is that of a fresh receipt which nobody overtook.

**Backup.** `SavesAreWhole`: a save renames what it has written to the end.
`StagedIsArchived`: all files of the archive are staged before the first is renamed;
`ChangedIsRestored`: while the server is stopped, what has been renamed is all that differs from
what was there before.

**Evaluations.** `Identified` says of each load which settings its identity names, and which
file unless it has a configured digest or was `moved`; and `Reports` says of each run what it has captured at its place: the profile and the
identity are those of one load, which gave every answer that counts.

**Sources.** The configuration's answer, as long as no file has gone since, is a complete
set of files (`ConfiguredIsReady`) that the engine finds first in the same order.

**Evidence of two models.** `ManagerIsTrue`: an overlap that was counted took place, and a
runtime that is held, or could not be closed, is in the ledger. `ReportIsTrue`: a complete cycle has
had its overlap and left no engine, nothing is lost while all cycles are complete, and a
complete procedure ends without engines. `ReportsAreTrue` says of the reports that were kept
what the review relies on, and that what the device has lost, a report shows.

**Campaign.** `PhasesAreDone`: each phase that is over has passed with evidence of this
campaign, or has complained. `VerdictIsKept`: verdicts are of what the directory holds, and
the exit code is of the verdicts. `ServerIsWatched`: a server runs between its two phases,
and afterwards only one that could not be stopped. `WorkersAreCounted`: a worker that is left
running is an error in a report of this campaign, or its phase has failed.

**Common facts.** The induction theorems of the library take an operator as a
parameter, which the provers cannot instantiate. `CollectionLemmas` states over sets and
functions what the proofs need of them: `IntervalInduction`, proved from the least element
of a set of naturals, `BoundedRecursion` (the defining equation of a function defined by
recursion on `0..n`), `SubsetInduction` and `SequenceInduction`; sums (`Total`): one element
more or less, parts, equal functions, disjoint unions; and selections (`Only`): what they
make of an append, of another selection, of a suffix, and which elements they have.

### Only model-checked

* All liveness (`EveryClientIsAnswered`, `EveryRequestIsAnswered`, `StopEnds`): fairness
  and `ENABLED` are beyond the prover.
* `OnlyTheAnswerIsShown`: what the recursive `Consume` of `ReasoningBoundary` makes of an
  output of any length is an induction over data.
* `MeasuredAsServed`: what a recorder has after any number of events is a fold, whose
  theorems take an operator as a parameter.
* `NoSecondTurn`, whose history of turns is not related to the governor's order yet.

## 5. What is left out

* Of the governor and the gate: statistics of permits and snapshots, wording of errors,
  the wait of `asyncio.wait_for` before Python 3.12.
* Of the manager: private ports (they are in `BackendProcess`) and the status
  dictionary; a `commit` without observed bytes, which changes no total.
* `RequestExecution`: routes that need no runtime; of cancelled handlers, only that they
  keep executing.
* `WorkerTransport`: reading the state, moving it and acting on it are steps of their own in
  `stop`; elsewhere a test of the lifecycle and the transition after it are one step, as is
  the comparison of a reply with its request. A streamed generation is one answer. The pipe
  has room for any number of short lines, and stderr, which nobody reads
  (`worker_transport.py:60`), never fills up: a child that blocks on it is one that hangs.
* `BackendProcess`: sd-server is started like llama-server, but without a version probe.
* `ArtifactDownload`: a block is read and written in one step.
* `EvaluationRuns`: one model, of which the file has two contents; a receipt, where there is
  one, is of the file that lies there, as receipts are in `ArtifactDownload`.
* `ResidencyPolicy`: eviction by time to live is the filter on ages only; a missing age
  counts as 0.
* `ReasoningBoundary`: `_strip_thinking` of non-streamed answers takes away one block. A
  lone closing delimiter is treated differently by a stream and by a whole answer. A
  stream that is broken off by a shutdown still ends with `[DONE]`. The properties are
  about streams.
* `StateBackup`: the server's saves during a backup (not a restore) are not told apart
  from saves before it.
* `ModelSources`: llama entries that have only a `model_id`; text-only vlm entries;
  overridden `image_quantization_bits`.
* `MultiModelEvidence`: reserve, commit and record are one step, as they are between
  two awaits; the budget has room for both models; that reservations overlap does not
  say that executions do.
* `EvidenceCampaign`: the two evaluation files are one, and smoke, thinking and load-order
  probes are outcomes. Artifacts of the procedure with two models are outside the
  directory of models. What is observed of memory decides nothing and is left out.
* The parts of components marked `partly` in `PROJECT.json` that its notes name, and the
  Studio user interface, `not_modelled`: pages in a browser that poll the routes above.
* Engines, model outputs, the Hub and HTTP are external: an engine is built or not, and closed
  or not; an output is any text.

## 6. Observations

What the models showed about the code besides the violations. They are either excluded
by a hypothesis named above or allowed by the properties as stated.

Admission and scheduling

* A queue above its capacity (`global_execution_governor.py:139`): `submit` lets a waiter
  past a full queue when it could run at once, and after a reload has raised a limit
  the slot can go to somebody older.
* `ImplementsAdmissionPool` of the governor needs distinct ids: a stale entry of a reused
  id lets its second user overtake. Callers use fresh uuids.
* Waiters of the governor occupy the executor's threads (`request_scheduler.py:209`). One that is
  admitted while its `wait()` has no thread holds a slot nobody uses; when all threads
  belong to waiters that need that slot, nobody moves before a deadline. Fewer threads
  than waiters, one slot and two keys show it; the run has a thread for each HTTP request.
* A transcription stops the event loop while it waits (`control_plane_api.py:87`), and the
  requests that would give it a slot finish on that loop.
* A request for a model that is not resident when it is scheduled, but is when its route
  looks, executes without a slot.
* A stream whose body is never started keeps its slots (`request_scheduler.py:275`).
* A request that is cancelled in its route gives slots and memory back while its handler
  still executes.
* The evaluation's `governor.acquire` has no timeout, and a report whose samples all
  failed is "complete".

Runtimes and memory

* A failed reload sets READY over a state that `shutdown` has given the runtime meanwhile
  (`runtime.py:445-448`); a request may then lease an engine that is being closed, against
  docs/lifecycle-failure-contracts.md:28. `NoTeardownInUse` excepts these runtimes
  (`reopened`), and no others.
* `shutdown` works on the residents it finds and does not wait for loads and reloads
  (`runtime.py:552`). One that it found under way publishes behind it, and may even set the
  default again: the shutdown reports no failure while an engine is alive. `CleanShutdown`
  and `DefaultResident` except what those attempts (`late`) leave, and nothing else.
* A load whose runtime is unloaded before it returns goes on: `add` of the product sets the
  default to a key that is no longer resident (`product_runtime_manager.py:51`), and the
  reservation is set on a runtime that nobody will unload (`runtime.py:317`). These are the
  exceptions of `overtaken`.
* Of two concurrent loads, the one that read the default before the other set it clears it
  again (`product_runtime_manager.py:51`).
* Candidates of an eviction are unloaded from a snapshot (`residency_api.py:113`): a pin that
  is set after the selection does not protect, nor does a default; an
  unload that ends late discards the pin and the use of a runtime loaded since; a
  reload publishes before `ensure_stream_contract`.
* `mark_idle` may show as active a runtime that has become idle (`runtime.py:206`), not the converse.
* The `LookupError` of `lease_runtime` is not caught: an error 500, or one inside a stream
  after its 200.

Processes

* A worker whose PREPARE times out outlives its constructor until its pipes are collected
  (`worker_engine.py:48`). `stop` waits for the lock of a round trip, up to its timeout, and
  behind a blocked write without one (section 3, `worker_stop`).
* Two stops at once read and move the lifecycle without a lock: the second may raise
  `ValueError` from a worker that the first has stopped (`worker_transport.py:118-121`). When
  the wait after SIGKILL runs out as well, `TimeoutExpired` leaves `stop`, and the transport
  still has its process (`worker_transport.py:220`).
* Readiness may be answered by a foreign program on the port; the executable may be
  replaced between probe and start; a SIGKILL that is not reaped in time forgets the
  process.
* A poll that fails gives an image job up without cancelling it
  (`stable_diffusion_cpp_image_engine.py:288`); a default size is not compared with
  `image_max_pixels`.

Answers and numbers

* An error in the middle of a stream is swallowed when the reasoning boundary holds text.
  What it expects is read from a configuration that may be replaced while the request
  waits. The filter of `server.py` alone misses delimiters that chunks cut, and drops
  chunks of usage.
* Metrics of a stream are kept on the runtime that is resolved after the route, and the
  queue wait of one request can overwrite the numbers of another.

Files and evidence

* A download is renamed before it is verified, so that a file with a wrong digest bears the
  model's name and is what the next start finds. Two processes that download one file
  interleave in its `.part`, or rename away what the other is writing, and may publish a file
  with holes. A `.part` of another revision is resumed, and the sizes agree; without a
  Content-Length no size is compared; a complete `.part` is refused with 416
  (`downloader.py:85-121`). These are the doubts that `PublishedIsWhole` names; only a
  pinned digest finds them out, and `ensure_model` looks again only with `verify_existing`.
* A receipt hashes first and looks at the file afterwards (`artifact_identity.py:114`): one
  written while its file is replaced vouches for the wrong digest (`overtaken`).
* A configured `artifact_sha256` is taken for the digest of the file without reading it
  (`runtime_identity_capture.py:120`), and a receipt is compared with the file after the
  engine has opened it. Two runs around a replaced file are then called attribution_safe
  although different files answered; `AttributionIsSound` excepts the file, and nothing else,
  for such engines.
* A restore that stops half-way leaves old and new files, and torn `.restore-tmp` files;
  saves look first and replace later; readers do not compare `schema_version`.
* The projector of an explicit path is not seen by the configuration
  (`ProjectorUnseen` in `ModelSources`).
* A campaign counts stale files of its directory, ends with 0 although a phase failed
  (docs/device-evidence-campaign.md:109 asks for 1), and leaves its server running
  after a second interrupt. The shutdown procedure with two models records no
  identity, and its failed teardown leaves an engine behind.

## 7. Plan

1. `NoSecondTurn` of `GovernorRoundRobin`: one step of `AdmitOne` serves the first
   runtime in the order that has work, and rotates; the history `turns` has to be
   related to that order through any number of steps of the loop.
2. The governor's `ImplementsPool` under `IdsKeepRuntime` only, for an abstract pool
   whose lines allow the place of a reused id.
3. That `RequestExecution`'s lines and slots are an `AdmissionPool`: it uses the ones the
   governor and the gate are proved to be.
