------------------------ MODULE ModelRuntimeManager ------------------------
(***************************************************************************)
(* The owner of every loaded engine: ProductRuntimeManager over            *)
(* ModelRuntimeManager (product_runtime_manager.py, runtime.py), with the  *)
(* ledger of resource_manager.py it keeps its reservations in.             *)
(*                                                                         *)
(* load, reload, unload and shutdown run on threads of their own and take  *)
(* _manager_lock only for short sections; reserving memory, building an    *)
(* engine and closing one happen outside of it.  Each action is one such    *)
(* section or one such call, and everything interleaves between them.       *)
(*                                                                         *)
(* A load attempt is one call of load() or reload(); it stands also for    *)
(* the engine, the ModelRuntime object and the reservation it makes.        *)
(***************************************************************************)
EXTENDS Integers, FiniteSets, Sums

CONSTANTS
  Load,         \* load attempts
  Key,          \* runtime keys
  Name,         \* the names a client may use: keys and model ids
  KeyOf,        \* the key of each attempt
  ModelIdOf,    \* the model_id the configuration gives each key
  Size,         \* estimated bytes of each attempt; None when unknown
  Budget,       \* ResourceBudget.usable_bytes
  Configured,   \* the configured default model at the start, or None
  MaxLeases,    \* bound of the model on the requests one runtime serves
  None

ASSUME ManagerAssumption ==
  /\ IsFiniteSet(Load)
  /\ Key \subseteq Name
  /\ KeyOf \in [Load -> Key]
  /\ ModelIdOf \in [Key -> Name]
  /\ Size \in [Load -> Nat \cup {None}]
  /\ Budget \in Nat
  /\ Configured \in Name \cup {None}
  /\ MaxLeases \in Nat
  /\ None \notin Load \cup Name \cup Nat

VARIABLES
  runtimes,    \* _runtimes
  aliases,     \* _aliases
  loading,     \* _loading
  default,     \* default_model, the resident default
  configured,  \* configured_default_model
  state,       \* ModelRuntime.state; "none" before the object exists
  active,      \* ModelRuntime.active_requests
  owned,       \* the runtimes whose resource_reservation_id is set
  engine,      \* none, live or closed
  ledger,      \* ResourceManager._reservations
  pending,     \* _pending_cleanup
  work,        \* where the thread of load() or reload() is
  current,     \* the runtime a reload replaces
  previous,    \* previous_resident_default of add()
  unloading,   \* where a thread that unloads a runtime is
  chosen,      \* runtimes set_default() has made the resident default, and will
               \* make the configured one
  stage,       \* where shutdown() is
  left,        \* runtimes of its snapshot it has still to stop
  target,      \* the one it is stopping
  failures,    \* whether it has failed to stop one
  overtaken,   \* history: runtimes torn down before the load() that made them returned
  late,        \* history: attempts under way when the last shutdown() began
  reopened     \* history: runtimes a reload that failed made READY during a shutdown

routing == <<runtimes, aliases>>
defaults == <<default, configured, chosen>>
memory == <<ledger, owned>>
jobs == <<work, current, previous, loading>>
shutting == <<stage, left, target, failures>>
history == <<overtaken, late, reopened>>
vars == <<routing, defaults, state, active, engine, memory, pending, jobs, unloading, shutting,
          history>>

RuntimeStates == {"none", "ready", "draining", "stopping", "stopped", "failed"}

-----------------------------------------------------------------------------
Registered(r) == runtimes[KeyOf[r]] = r

\* _resolve_unlocked
Resolved(n) ==
  IF aliases[n] # None THEN runtimes[aliases[n]]
  ELSE IF n \in Key THEN runtimes[n] ELSE None

Resident == {r \in Load : Registered(r)}

\* Attempts under way.
Busy == {l \in Load : work[l] \notin {"idle", "done"}}

\* Bytes the ledger accounts for; a reservation is made only with an estimate.
Bytes(S) == Total(Size, S)

Fits(l) == Bytes(ledger) + Size[l] <= Budget

\* _release_runtime_load with the resource_reservation_id of runtime r.
Released(r) == IF r \in owned THEN ledger \ {r} ELSE ledger

\* Mutant of WithoutAliases: the model id keeps pointing to the key.
WithoutKeyOnly(k) == [aliases EXCEPT ![k] = None]

WithoutAliases(k) == [n \in Name |-> IF aliases[n] = k THEN None ELSE aliases[n]]

\* Calls are made while the server is up, for a runtime that is resident, whether the
\* load() that made it has returned or not.
MayAddress(r) == stage = "up" /\ Registered(r)

\* The states a close of r's engine may leave: closing it again does nothing.
Closes(r) == engine[r] # "none" /\ engine' = [engine EXCEPT ![r] = "closed"]

CloseRaises(r) == engine[r] = "live" /\ UNCHANGED engine

Goes(l, where) == work' = [work EXCEPT ![l] = where]

Becomes(r, s) == state' = [state EXCEPT ![r] = s]

\* The finally clause of load(); reload() has no entry in _loading.
LoadingAfter(l) == IF current[l] = None THEN loading \ {KeyOf[l]} ELSE loading

\* The reservation of r is released, if the load() that made r has set it (history).
Overtakes(r) == overtaken' = IF work[r] = "done" THEN overtaken ELSE overtaken \cup {r}

\* A failed reload puts the runtime it meant to replace back to READY, even when a
\* shutdown has begun meanwhile (history).
Restores(l) ==
  LET again == current[l] # None /\ Registered(current[l])
  IN  /\ state' = IF again THEN [state EXCEPT ![current[l]] = "ready"] ELSE state
      /\ reopened' = IF again /\ stage # "up" THEN reopened \cup {current[l]} ELSE reopened

Init ==
  /\ runtimes = [k \in Key |-> None]
  /\ aliases = [n \in Name |-> None]
  /\ loading = {}
  /\ default = None
  /\ configured = Configured
  /\ state = [l \in Load |-> "none"]
  /\ active = [l \in Load |-> 0]
  /\ owned = {}
  /\ engine = [l \in Load |-> "none"]
  /\ ledger = {}
  /\ pending = {}
  /\ work = [l \in Load |-> "idle"]
  /\ current = [l \in Load |-> None]
  /\ previous = [l \in Load |-> None]
  /\ unloading = [l \in Load |-> "no"]
  /\ chosen = {}
  /\ stage = "up"
  /\ left = {}
  /\ target = None
  /\ failures = FALSE
  /\ overtaken = {} /\ late = {} /\ reopened = {}

-----------------------------------------------------------------------------
(* load()                                                                    *)

\* Nothing is resident or loading under the key.
BeginLoad(l) ==
  /\ work[l] = "idle" /\ stage = "up"
  /\ Resolved(KeyOf[l]) = None
  /\ KeyOf[l] \notin loading
  /\ loading' = loading \cup {KeyOf[l]}
  /\ Goes(l, "reserve")
  /\ UNCHANGED <<routing, defaults, state, active, engine, memory, pending, current,
                 previous, unloading, shutting, history>>

\* _reserve_runtime_load: without an estimate there is nothing to reserve.
Reserve(l) ==
  /\ work[l] = "reserve"
  /\ Size[l] # None => Fits(l)
  /\ ledger' = IF Size[l] = None THEN ledger ELSE ledger \cup {l}
  /\ Goes(l, "build")
  /\ UNCHANGED <<routing, defaults, state, active, engine, owned, pending, current,
                 previous, loading, unloading, shutting, history>>

\* ResourceAdmissionError; reload() restores its runtime.
ReserveRejected(l) ==
  /\ work[l] = "reserve"
  /\ Size[l] # None /\ ~Fits(l)
  /\ Restores(l)
  /\ loading' = LoadingAfter(l)
  /\ Goes(l, "done")
  /\ UNCHANGED <<routing, defaults, active, engine, memory, pending, current, previous,
                 unloading, shutting, overtaken, late>>

\* load_llm and the commit of the reservation, which needs no more memory.
Build(l) ==
  /\ work[l] = "build"
  /\ engine' = [engine EXCEPT ![l] = "live"]
  /\ Goes(l, IF current[l] = None THEN "publish" ELSE "swap")
  /\ previous' = [previous EXCEPT ![l] = default]
  /\ UNCHANGED <<routing, defaults, state, active, memory, pending, current, loading,
                 unloading, shutting, history>>

\* Mutant of BuildFails: the reservation is not rolled back.
BuildFailsLeaky(l) ==
  /\ work[l] = "build"
  /\ UNCHANGED ledger
  /\ Restores(l)
  /\ loading' = LoadingAfter(l)
  /\ Goes(l, "done")
  /\ UNCHANGED <<routing, defaults, active, engine, owned, pending, current, previous,
                 unloading, shutting, overtaken, late>>

BuildFails(l) ==
  /\ work[l] = "build"
  /\ ledger' = ledger \ {l}
  /\ Restores(l)
  /\ loading' = LoadingAfter(l)
  /\ Goes(l, "done")
  /\ UNCHANGED <<routing, defaults, active, engine, owned, pending, current, previous,
                 unloading, shutting, overtaken, late>>

Conflicts(l) == \E n \in {KeyOf[l], ModelIdOf[KeyOf[l]]} : aliases[n] # None

\* add() of the base class: the runtime is resident and routable from here on,
\* and becomes the resident default when there is none.
Publish(l) ==
  /\ work[l] = "publish"
  /\ ~Conflicts(l) /\ runtimes[KeyOf[l]] = None
  /\ runtimes' = [runtimes EXCEPT ![KeyOf[l]] = l]
  /\ aliases' = [aliases EXCEPT ![KeyOf[l]] = KeyOf[l], ![ModelIdOf[KeyOf[l]]] = KeyOf[l]]
  /\ default' = IF default = None THEN KeyOf[l] ELSE default
  /\ Becomes(l, "ready")
  /\ Goes(l, "adopt")
  /\ UNCHANGED <<configured, chosen, active, engine, memory, pending, current, previous,
                 loading, unloading, shutting, history>>

\* An alias belongs to another resident runtime.
PublishRefused(l) ==
  /\ work[l] = "publish"
  /\ Conflicts(l) \/ runtimes[KeyOf[l]] # None
  /\ Goes(l, "abort")
  /\ UNCHANGED <<routing, defaults, state, active, engine, memory, pending, current,
                 previous, loading, unloading, shutting, history>>

\* The second section of the product's add(): the configured default takes the
\* default route; without it no other runtime becomes a default by accident.
Adopt(l) ==
  /\ work[l] = "adopt"
  /\ configured' = IF configured = None THEN KeyOf[l] ELSE configured
  /\ default' = IF configured \in {None, KeyOf[l], ModelIdOf[KeyOf[l]]} THEN KeyOf[l]
                ELSE IF previous[l] = None THEN None ELSE default
  /\ Goes(l, "return")
  /\ UNCHANGED <<routing, chosen, state, active, engine, memory, pending, current,
                 previous, loading, unloading, shutting, history>>

\* After the identity capture, load() hands its reservation to the runtime.
Return(l) ==
  /\ work[l] = "return"
  /\ owned' = owned \cup (IF Size[l] = None THEN {} ELSE {l})
  /\ loading' = LoadingAfter(l)
  /\ Goes(l, "done")
  /\ UNCHANGED <<routing, defaults, state, active, engine, ledger, pending, current,
                 previous, unloading, shutting, history>>

\* _cleanup_unpublished_engine: what cannot be closed stays accounted for.
\* After "abort" a reload restores its runtime, after "abandon" it does not.
Cleanup(l) ==
  /\ work[l] \in {"abort", "abandon"}
  /\ \/ Closes(l) /\ ledger' = ledger \ {l} /\ UNCHANGED pending
     \/ CloseRaises(l) /\ pending' = pending \cup {l} /\ UNCHANGED ledger
  /\ IF work[l] = "abort" THEN Restores(l) ELSE UNCHANGED <<state, reopened>>
  /\ loading' = LoadingAfter(l)
  /\ Goes(l, "done")
  /\ UNCHANGED <<routing, defaults, active, owned, current, previous, unloading,
                 shutting, overtaken, late>>

-----------------------------------------------------------------------------
(* reload()                                                                  *)

\* The runtime is READY and idle.
BeginReload(l, r) ==
  /\ work[l] = "idle" /\ KeyOf[l] = KeyOf[r] /\ l # r
  /\ MayAddress(r)
  /\ state[r] = "ready" /\ active[r] = 0
  /\ Becomes(r, "draining")
  /\ current' = [current EXCEPT ![l] = r]
  /\ Goes(l, "reserve")
  /\ UNCHANGED <<routing, defaults, active, engine, memory, pending, previous, loading,
                 unloading, shutting, history>>

MaySwap(l) ==
  /\ Registered(current[l])
  /\ \A n \in {KeyOf[l], ModelIdOf[KeyOf[l]]} : aliases[n] \in {None, KeyOf[l]}

Swap(l) ==
  /\ work[l] = "swap"
  /\ \/ MaySwap(l) /\ Becomes(current[l], "stopping") /\ Goes(l, "close")
     \/ ~MaySwap(l) /\ UNCHANGED state /\ Goes(l, "abort")
  /\ UNCHANGED <<routing, defaults, active, engine, memory, pending, current, previous,
                 loading, unloading, shutting, history>>

CloseCurrent(l) ==
  /\ work[l] = "close"
  /\ \/ Closes(current[l]) /\ UNCHANGED state /\ Goes(l, "release")
     \/ CloseRaises(current[l]) /\ Becomes(current[l], "failed") /\ Goes(l, "abandon")
  /\ UNCHANGED <<routing, defaults, active, memory, pending, current, previous, loading,
                 unloading, shutting, history>>

ReleaseCurrent(l) ==
  /\ work[l] = "release"
  /\ ledger' = Released(current[l])
  /\ Goes(l, "replace")
  /\ Overtakes(current[l])
  /\ UNCHANGED <<routing, defaults, state, active, engine, owned, pending, current,
                 previous, loading, unloading, shutting, late, reopened>>

\* The replacement, made with its reservation, takes the place of the runtime.
Replace(l) ==
  /\ work[l] = "replace"
  /\ Registered(current[l])
  /\ runtimes' = [runtimes EXCEPT ![KeyOf[l]] = l]
  /\ aliases' = [WithoutAliases(KeyOf[l]) EXCEPT
                   ![KeyOf[l]] = KeyOf[l], ![ModelIdOf[KeyOf[l]]] = KeyOf[l]]
  /\ state' = [state EXCEPT ![current[l]] = "stopped", ![l] = "ready"]
  /\ owned' = owned \cup (IF Size[l] = None THEN {} ELSE {l})
  /\ Goes(l, "done")
  /\ UNCHANGED <<defaults, active, engine, ledger, pending, current, previous, loading,
                 unloading, shutting, history>>

\* The runtime has been removed meanwhile.
ReplaceLost(l) ==
  /\ work[l] = "replace"
  /\ ~Registered(current[l])
  /\ Becomes(current[l], "stopped")
  /\ Goes(l, "abandon")
  /\ UNCHANGED <<routing, defaults, active, engine, memory, pending, current, previous,
                 loading, unloading, shutting, history>>

-----------------------------------------------------------------------------
(* unload(), lease_runtime() and set_default()                               *)

Unloads(r, where) == unloading' = [unloading EXCEPT ![r] = where]

\* A runtime that is READY, or whose teardown has failed before, and is idle.
BeginUnload(r) ==
  /\ MayAddress(r)
  /\ state[r] \in {"ready", "failed"} /\ active[r] = 0
  /\ Becomes(r, "stopping")
  /\ Unloads(r, "close")
  /\ UNCHANGED <<routing, defaults, active, engine, memory, pending, jobs, shutting,
                 history>>

\* Mutant of UnloadClose: a teardown that fails goes on like one that succeeds.
UnloadCloseIgnored(r) ==
  /\ unloading[r] = "close"
  /\ Closes(r) \/ CloseRaises(r)
  /\ UNCHANGED state /\ Unloads(r, "release")
  /\ UNCHANGED <<routing, defaults, active, memory, pending, jobs, shutting, history>>

UnloadClose(r) ==
  /\ unloading[r] = "close"
  /\ \/ Closes(r) /\ UNCHANGED state /\ Unloads(r, "release")
     \/ CloseRaises(r) /\ Becomes(r, "failed") /\ Unloads(r, "no")
  /\ UNCHANGED <<routing, defaults, active, memory, pending, jobs, shutting, history>>

UnloadRelease(r) ==
  /\ unloading[r] = "release"
  /\ ledger' = Released(r)
  /\ Unloads(r, "remove")
  /\ Overtakes(r)
  /\ UNCHANGED <<routing, defaults, state, active, engine, owned, pending, jobs,
                 shutting, late, reopened>>

\* _next_ready_runtime_key_unlocked, whatever the order of the dictionary.
NextReady(k) ==
  LET ready == {KeyOf[r] : r \in {x \in Resident : state[x] = "ready"}} \ {k}
  IN  IF ready = {} THEN {None} ELSE ready

UnloadRemove(r) ==
  /\ unloading[r] = "remove"
  /\ \/ /\ Registered(r)
        /\ runtimes' = [runtimes EXCEPT ![KeyOf[r]] = None]
        /\ aliases' = WithoutAliases(KeyOf[r])
        /\ \/ default = KeyOf[r] /\ default' \in NextReady(KeyOf[r])
           \/ default # KeyOf[r] /\ UNCHANGED default
     \/ ~Registered(r) /\ UNCHANGED <<routing, default>>
  /\ Becomes(r, "stopped")
  /\ Unloads(r, "no")
  /\ UNCHANGED <<configured, chosen, active, engine, memory, pending, jobs, shutting,
                 history>>

\* A request leases the runtime it has resolved, if that is still the READY one.
Lease(r) ==
  /\ Registered(r) /\ state[r] = "ready"
  /\ active[r] < MaxLeases
  /\ active' = [active EXCEPT ![r] = @ + 1]
  /\ UNCHANGED <<routing, defaults, state, engine, memory, pending, jobs, unloading,
                 shutting, history>>

EndLease(r) ==
  /\ active[r] > 0
  /\ active' = [active EXCEPT ![r] = @ - 1]
  /\ UNCHANGED <<routing, defaults, state, engine, memory, pending, jobs, unloading,
                 shutting, history>>

\* set_default() of the base class ...
SetDefault(r) ==
  /\ MayAddress(r)
  /\ state[r] = "ready"
  /\ default' = KeyOf[r]
  /\ chosen' = chosen \cup {r}
  /\ UNCHANGED <<routing, configured, state, active, engine, memory, pending, jobs,
                 unloading, shutting, history>>

\* ... and what the product adds to it.
SetConfigured(r) ==
  /\ r \in chosen
  /\ configured' = KeyOf[r]
  /\ chosen' = chosen \ {r}
  /\ UNCHANGED <<routing, default, state, active, engine, memory, pending, jobs,
                 unloading, shutting, history>>

-----------------------------------------------------------------------------
(* shutdown(): once the server has stopped, and again when it was incomplete *)

\* Mutant of ShutBegin: the default route is not taken down.
ShutBeginRouted ==
  /\ stage \in {"up", "incomplete"}
  /\ state' = [r \in Load |-> IF r \in Resident /\ state[r] = "ready" THEN "draining"
                              ELSE state[r]]
  /\ stage' = "draining"
  /\ left' = Resident
  /\ failures' = FALSE
  /\ late' = Busy
  /\ UNCHANGED <<routing, defaults, active, engine, memory, pending, jobs, unloading,
                 target, overtaken, reopened>>

ShutBegin ==
  /\ stage \in {"up", "incomplete"}
  /\ state' = [r \in Load |-> IF r \in Resident /\ state[r] = "ready" THEN "draining"
                              ELSE state[r]]
  /\ default' = None
  /\ stage' = "draining"
  /\ left' = Resident
  /\ failures' = FALSE
  /\ late' = Busy
  /\ UNCHANGED <<routing, configured, chosen, active, engine, memory, pending, jobs,
                 unloading, target, overtaken, reopened>>

\* The wait for the active requests ends when there are none, or at its deadline.
ShutDrained ==
  /\ stage = "draining"
  /\ stage' = "sweeping"
  /\ UNCHANGED <<routing, defaults, state, active, engine, memory, pending, jobs,
                 unloading, left, target, failures, history>>

\* Mutant of ShutNext: a runtime that has not drained is torn down.
ShutNextBusy ==
  /\ stage = "sweeping"
  /\ \E r \in left :
       /\ left' = left \ {r}
       /\ \/ ~Registered(r) /\ UNCHANGED <<state, stage, target, failures>>
          \/ /\ Registered(r)
             /\ Becomes(r, "stopping") /\ stage' = "closing" /\ target' = r
             /\ UNCHANGED failures
  /\ UNCHANGED <<routing, defaults, active, engine, memory, pending, jobs, unloading,
                 history>>

\* The next runtime of the snapshot: gone, still in use, or to be torn down.
ShutNext ==
  /\ stage = "sweeping"
  /\ \E r \in left :
       /\ left' = left \ {r}
       /\ \/ ~Registered(r) /\ UNCHANGED <<state, stage, target, failures>>
          \/ /\ Registered(r) /\ active[r] > 0
             /\ Becomes(r, "failed") /\ failures' = TRUE
             /\ UNCHANGED <<stage, target>>
          \/ /\ Registered(r) /\ active[r] = 0
             /\ Becomes(r, "stopping") /\ stage' = "closing" /\ target' = r
             /\ UNCHANGED failures
  /\ UNCHANGED <<routing, defaults, active, engine, memory, pending, jobs, unloading,
                 history>>

\* Mutant of ShutClose: the failure is not reported.
ShutCloseSilent ==
  /\ stage = "closing"
  /\ \/ /\ Closes(target)
        /\ stage' = "releasing"
        /\ UNCHANGED <<state, target, failures>>
     \/ /\ CloseRaises(target)
        /\ Becomes(target, "failed")
        /\ stage' = "sweeping" /\ target' = None /\ UNCHANGED failures
  /\ UNCHANGED <<routing, defaults, active, memory, pending, jobs, unloading, left,
                 history>>

ShutClose ==
  /\ stage = "closing"
  /\ \/ /\ Closes(target)
        /\ stage' = "releasing"
        /\ UNCHANGED <<state, target, failures>>
     \/ /\ CloseRaises(target)
        /\ Becomes(target, "failed")
        /\ stage' = "sweeping" /\ target' = None /\ failures' = TRUE
  /\ UNCHANGED <<routing, defaults, active, memory, pending, jobs, unloading, left,
                 history>>

ShutRelease ==
  /\ stage = "releasing"
  /\ ledger' = Released(target)
  /\ stage' = "removing"
  /\ Overtakes(target)
  /\ UNCHANGED <<routing, defaults, state, active, engine, owned, pending, jobs,
                 unloading, left, target, failures, late, reopened>>

ShutRemove ==
  /\ stage = "removing"
  /\ \/ /\ Registered(target)
        /\ runtimes' = [runtimes EXCEPT ![KeyOf[target]] = None]
        /\ aliases' = WithoutAliases(KeyOf[target])
     \/ ~Registered(target) /\ UNCHANGED routing
  /\ Becomes(target, "stopped")
  /\ stage' = "sweeping" /\ target' = None
  /\ UNCHANGED <<defaults, active, engine, memory, pending, jobs, unloading, left,
                 failures, history>>

\* _retry_pending_cleanup: some of the closes fail again, and stay pending.
ShutEnd ==
  /\ stage = "sweeping" /\ left = {}
  /\ \E again \in SUBSET pending :
       /\ engine' = [r \in Load |-> IF r \in pending \ again THEN "closed" ELSE engine[r]]
       /\ ledger' = ledger \ (pending \ again)
       /\ pending' = again
       /\ stage' = IF failures \/ again # {} THEN "incomplete" ELSE "clean"
  /\ UNCHANGED <<routing, defaults, state, active, owned, jobs, unloading, left, target,
                 failures, history>>

Next ==
  \/ \E l \in Load :
       \/ BeginLoad(l)
       \/ Reserve(l)
       \/ ReserveRejected(l)
       \/ Build(l)
       \/ BuildFails(l)
       \/ Publish(l)
       \/ PublishRefused(l)
       \/ Adopt(l)
       \/ Return(l)
       \/ Cleanup(l)
       \/ Swap(l)
       \/ CloseCurrent(l)
       \/ ReleaseCurrent(l)
       \/ Replace(l)
       \/ ReplaceLost(l)
  \/ \E l, r \in Load : BeginReload(l, r)
  \/ \E r \in Load :
       \/ BeginUnload(r)
       \/ UnloadClose(r)
       \/ UnloadRelease(r)
       \/ UnloadRemove(r)
       \/ Lease(r)
       \/ EndLease(r)
       \/ SetDefault(r)
       \/ SetConfigured(r)
  \/ ShutBegin
  \/ ShutDrained
  \/ ShutNext
  \/ ShutClose
  \/ ShutRelease
  \/ ShutRemove
  \/ ShutEnd

Spec == Init /\ [][Next]_vars

-----------------------------------------------------------------------------
(* Properties.                                                               *)

Live == {r \in Load : engine[r] = "live"}

\* Runtimes a thread is tearing down.
BeingStopped ==
  {r \in Load : unloading[r] # "no"} \cup {current[l] : l \in Busy} \cup {target}

\* Every variable has the type the source declares for it.
TypeOK ==
  /\ runtimes \in [Key -> Load \cup {None}]
  /\ aliases \in [Name -> Key \cup {None}]
  /\ loading \subseteq Key
  /\ default \in Key \cup {None}
  /\ configured \in Name \cup {None}
  /\ state \in [Load -> RuntimeStates]
  /\ active \in [Load -> 0..MaxLeases]
  /\ engine \in [Load -> {"none", "live", "closed"}]
  /\ owned \subseteq Load /\ ledger \subseteq Load /\ pending \subseteq Load
  /\ chosen \subseteq Load
  /\ work \in [Load -> {"idle", "reserve", "build", "publish", "adopt", "return", "swap",
                        "close", "release", "replace", "abort", "abandon", "done"}]
  /\ current \in [Load -> Load \cup {None}]
  /\ previous \in [Load -> Key \cup {None}]
  /\ unloading \in [Load -> {"no", "close", "release", "remove"}]
  /\ stage \in {"up", "draining", "sweeping", "closing", "releasing", "removing",
                "clean", "incomplete"}
  /\ left \subseteq Load /\ target \in Load \cup {None} /\ failures \in BOOLEAN
  /\ overtaken \subseteq Load /\ late \subseteq Load /\ reopened \subseteq Load

\* The engines that are alive fit the budget together, those that were built and
\* not published and those that could not be closed included: a reservation is
\* made before its engine and outlives it.
LiveEnginesFit == Bytes({r \in Live : Size[r] # None}) <= Budget

\* No reservation is held for nobody: a call under way, a resident runtime that
\* will return it, a pending cleanup or a teardown under way answers for it.  Only
\* that of a runtime torn down before its load() has set its resource_reservation_id
\* stays behind (runtime.py:317), as LedgerEmptyAfterwards shows.
ReservationsOwned ==
  ledger \subseteq Busy \cup (Resident \cap owned) \cup pending \cup BeingStopped \cup overtaken

\* The same for the engines: none is alive that no call and no shutdown can find.
EnginesOwned == Live \subseteq Busy \cup Resident \cup pending \cup BeingStopped

\* An engine is not closed under a request that uses it
\* (docs/lifecycle-failure-contracts.md, Runtime ownership invariant), unless a reload
\* that failed has made its runtime READY while a shutdown was stopping it
\* (runtime.py:445-448).
NoTeardownInUse ==
  \A r \in Load \ reopened : active[r] > 0 => engine[r] = "live" /\ r # target

\* Key and model id of a resident runtime lead to it, and no alias leads nowhere.
AliasesResident ==
  /\ \A n \in Name : aliases[n] # None => runtimes[aliases[n]] # None
  /\ \A r \in Resident : Resolved(KeyOf[r]) = r /\ Resolved(ModelIdOf[KeyOf[r]]) = r

\* A default route that is set leads to a resident runtime, unless it was set by the
\* add() of a load whose runtime had been torn down (product_runtime_manager.py:51), or
\* since a shutdown began by a call that it found under way.
DefaultResident ==
  default # None =>
    runtimes[default] # None \/ \E l \in overtaken \cup late : KeyOf[l] = default

\* When a shutdown has reported no failure, no engine is alive and no reservation made
\* but those of the loads it found under way, which its snapshot of the residents misses
\* (runtime.py, shutdown: "stop every idle owned engine").
CleanShutdown ==
  stage = "clean" => Live \cup Resident \subseteq late /\ ledger \subseteq late \cup overtaken

\* Every call has returned.
Quiet ==
  /\ \A l \in Load : work[l] \in {"idle", "done"} /\ unloading[l] = "no"
  /\ chosen = {}

\* When every call has returned and nothing is resident or pending, the ledger
\* is empty (docs/resource-regression-contract.md, "Each completed lifecycle
\* must leave the ResourceManager ledger empty").
LedgerEmptyAfterwards ==
  Quiet /\ target = None /\ Resident = {} /\ pending = {} => ledger = {}

=============================================================================
