--------------------------- MODULE ResidencyPolicy ---------------------------
(***************************************************************************)
(* Which runtimes may be evicted: the bookkeeping that                      *)
(* product_runtime_manager.py keeps of use and pins beside the manager, in  *)
(* lock sections of its own, and the eviction of residency_api.py, which    *)
(* selects from a snapshot and unloads one candidate after the other.       *)
(* Building and closing engines and the ledger are ModelRuntimeManager's.   *)
(***************************************************************************)
EXTENDS Integers, Sequences, SequencesExt, FiniteSets

CONSTANTS
    Keys, Requests,
    MaxLoads,   \* bound: runtimes built
    MaxChanges  \* bound: pins and defaults set

VARIABLES
    rt,       \* rt[k] = [id, state, active]; id 0 is no runtime
    used,     \* keys of _last_used_at_monotonic, the oldest first
    pins, default, configured,
    req,      \* req[r] = [pc, key, id]
    loader,   \* a load between the publication and the bookkeeping
    unloader, \* unloader[t]: the unload of thread t
    evictor,  \* [protect, default, pins, todo]: the eviction request and what it saw
    loads, changes

vars == <<rt, used, pins, default, configured, req, loader, unloader, evictor, loads, changes>>

NoKey == "none"
Absent == [id |-> 0, state |-> "absent", active |-> 0]
Idle == [pc |-> "idle", key |-> NoKey, id |-> 0]
NoLoad == [key |-> NoKey, cold |-> FALSE]
NoEviction == [protect |-> TRUE, default |-> NoKey, pins |-> {}, todo |-> <<>>]
Threads == {"admin", "evictor"}
Resident == {k \in Keys : rt[k].id # 0}

TypeOK ==
    /\ \A k \in Keys : rt[k].id \in 0..MaxLoads /\ rt[k].active \in 0..Cardinality(Requests)
    /\ ToSet(used) \subseteq Keys /\ Len(used) = Cardinality(ToSet(used))
    /\ pins \subseteq Keys /\ {default, configured} \subseteq Keys \cup {NoKey}

Init ==
    /\ rt = [k \in Keys |-> Absent] /\ used = <<>>
    /\ pins = {} /\ default = NoKey /\ configured \in Keys \cup {NoKey}
    /\ req = [r \in Requests |-> Idle]
    /\ loader = NoLoad /\ unloader = [t \in Threads |-> Idle] /\ evictor = NoEviction
    /\ loads = 0 /\ changes = 0

Touched(k) == Append(Remove(used, k), k)

\* The runtime of the request or thread p is still the one under its key.
Same(p) == rt[p.key].id = p.id

-----------------------------------------------------------------------------
(* Loads, reloads and unloads, each with its bookkeeping in a later section. *)

\* ModelRuntimeManager.add makes the first runtime the default.
Publish(k) ==
    /\ loader = NoLoad /\ rt[k] = Absent /\ loads < MaxLoads
    /\ loads' = loads + 1
    /\ rt' = [rt EXCEPT ![k] = [id |-> loads', state |-> "ready", active |-> 0]]
    /\ loader' = [key |-> k, cold |-> default = NoKey]
    /\ default' = IF default = NoKey THEN k ELSE default
    /\ UNCHANGED <<used, pins, configured, req, unloader, evictor, changes>>

Adopt ==
    /\ loader # NoLoad
    /\ used' = Touched(loader.key)
    /\ configured' = IF configured = NoKey THEN loader.key ELSE configured
    /\ default' = IF configured' = loader.key THEN loader.key
                  ELSE IF loader.cold THEN NoKey ELSE default
    /\ loader' = NoLoad
    /\ UNCHANGED <<rt, pins, req, unloader, evictor, loads, changes>>

\* A reload of an idle runtime, with its mark of use in a later section.
Reload(k) ==
    /\ loader = NoLoad /\ rt[k].state = "ready" /\ rt[k].active = 0 /\ loads < MaxLoads
    /\ loads' = loads + 1
    /\ rt' = [rt EXCEPT ![k].id = loads']
    /\ loader' = [key |-> k, cold |-> FALSE]
    /\ UNCHANGED <<used, pins, default, configured, req, unloader, evictor, changes>>

Unloadable(k) == rt[k].state \in {"ready", "failed"} /\ rt[k].active = 0

BeginUnload(t, k) ==
    /\ unloader[t] = Idle /\ Unloadable(k)
    /\ rt' = [rt EXCEPT ![k].state = "stopping"]
    /\ unloader' = [unloader EXCEPT ![t] = [pc |-> "close", key |-> k, id |-> rt[k].id]]

AdminUnload(k) ==
    /\ BeginUnload("admin", k)
    /\ UNCHANGED <<used, pins, default, configured, req, loader, evictor, loads, changes>>

\* The engine could not be closed: the unload raises.
CloseFails(t) ==
    /\ unloader[t].pc = "close"
    /\ rt' = [rt EXCEPT ![unloader[t].key].state = "failed"]
    /\ unloader' = [unloader EXCEPT ![t] = Idle]
    /\ UNCHANGED <<used, pins, default, configured, req, loader, evictor, loads, changes>>

\* The first ready runtime; any, since the order of loading is not kept here.
Successors(k) == {j \in Resident \ {k} : rt[j].state = "ready"}

RemoveRuntime(t) ==
    /\ unloader[t].pc = "close"
    /\ LET k == unloader[t].key IN
       /\ rt' = [rt EXCEPT ![k] = Absent]
       /\ IF default # k THEN UNCHANGED default
          ELSE IF Successors(k) = {} THEN default' = NoKey
          ELSE default' \in Successors(k)
    /\ unloader' = [unloader EXCEPT ![t].pc = "forget"]
    /\ UNCHANGED <<used, pins, configured, req, loader, evictor, loads, changes>>

\* Mutant of Forget: the pin of a runtime that is gone is kept.
ForgetUse(t) ==
    /\ unloader[t].pc = "forget"
    /\ used' = Remove(used, unloader[t].key)
    /\ unloader' = [unloader EXCEPT ![t] = Idle]
    /\ UNCHANGED <<rt, pins, default, configured, req, loader, evictor, loads, changes>>

\* ProductRuntimeManager.unload after the base class: whatever is under the key.
Forget(t) ==
    /\ unloader[t].pc = "forget"
    /\ pins' = pins \ {unloader[t].key}
    /\ used' = Remove(used, unloader[t].key)
    /\ unloader' = [unloader EXCEPT ![t] = Idle]
    /\ UNCHANGED <<rt, default, configured, req, loader, evictor, loads, changes>>

-----------------------------------------------------------------------------
(* Use, pins and the default. *)

Lease(r, k) ==
    /\ req[r] = Idle /\ rt[k].state = "ready"
    /\ rt' = [rt EXCEPT ![k].active = @ + 1]
    /\ req' = [req EXCEPT ![r] = [pc |-> "active", key |-> k, id |-> rt[k].id]]
    /\ UNCHANGED <<used, pins, default, configured, loader, unloader, evictor, loads,
                   changes>>

EndLease(r) ==
    /\ req[r].pc = "active"
    /\ rt' = IF Same(req[r]) THEN [rt EXCEPT ![req[r].key].active = @ - 1] ELSE rt
    /\ req' = [req EXCEPT ![r].pc = "mark"]
    /\ UNCHANGED <<used, pins, default, configured, loader, unloader, evictor, loads,
                   changes>>

\* The finally clause of the subclass, once the lease is over.
Mark(r) ==
    /\ req[r].pc = "mark"
    /\ used' = IF Same(req[r]) THEN Touched(req[r].key) ELSE used
    /\ req' = [req EXCEPT ![r] = Idle]
    /\ UNCHANGED <<rt, pins, default, configured, loader, unloader, evictor, loads, changes>>

SetPinned(k, pinned) ==
    /\ k \in Resident /\ changes < MaxChanges
    /\ changes' = changes + 1
    /\ pins' = IF pinned THEN pins \cup {k} ELSE pins \ {k}
    /\ UNCHANGED <<rt, used, default, configured, req, loader, unloader, evictor, loads>>

\* The route and the configuration; the second is a section of its own, which
\* nothing here reads before a load.
SetDefault(k) ==
    /\ rt[k].state = "ready" /\ changes < MaxChanges
    /\ changes' = changes + 1
    /\ default' = k /\ configured' = k
    /\ UNCHANGED <<rt, used, pins, req, loader, unloader, evictor, loads>>

-----------------------------------------------------------------------------
(* The eviction: residency_policy_snapshot, select_eviction_candidates, evict. *)

\* Mutant of Evictable: the pins are not looked at.
EvictableAnyway(k) == rt[k].state = "ready" /\ rt[k].active = 0

Evictable(k) == k \notin pins /\ rt[k].state = "ready" /\ rt[k].active = 0

\* Without an entry the age is 0, as if it was used now.
LastUse(k) == IF k \in ToSet(used) THEN SelectInSeq(used, LAMBDA j : j = k) ELSE Len(used) + 1

Candidates(protect) == {k \in Keys : Evictable(k) /\ ~(protect /\ k = default)}

\* The oldest first, at most limit of them; the names of those of one age say which of them
\* is the first, and any may be.
Selected(limit, protect) ==
    LET all == Candidates(protect)
        n == IF Cardinality(all) < limit THEN Cardinality(all) ELSE limit
    IN  {s \in [1..n -> all] :
            /\ \A i, j \in 1..n : i < j => s[i] # s[j] /\ LastUse(s[i]) <= LastUse(s[j])
            /\ \A k \in all \ Range(s), i \in 1..n : LastUse(s[i]) <= LastUse(k)}

Evict(limit, protect) ==
    /\ evictor.todo = <<>> /\ unloader["evictor"] = Idle
    /\ \E todo \in Selected(limit, protect) \ {<<>>} :
          evictor' = [protect |-> protect, default |-> default, pins |-> pins, todo |-> todo]
    /\ UNCHANGED <<rt, used, pins, default, configured, req, loader, unloader, loads,
                   changes>>

\* The next candidate, by its key; a refusal skips it.
EvictNext ==
    /\ evictor.todo # <<>> /\ unloader["evictor"] = Idle
    /\ LET k == Head(evictor.todo) IN
       IF Unloadable(k) THEN BeginUnload("evictor", k) ELSE UNCHANGED <<rt, unloader>>
    /\ evictor' = [evictor EXCEPT !.todo = Tail(@)]
    /\ UNCHANGED <<used, pins, default, configured, req, loader, loads, changes>>

Next ==
    \/ \E k \in Keys : \/ Publish(k) \/ Reload(k) \/ AdminUnload(k) \/ SetDefault(k)
                       \/ \E pinned \in BOOLEAN : SetPinned(k, pinned)
                       \/ \E r \in Requests : Lease(r, k)
    \/ \E r \in Requests : EndLease(r) \/ Mark(r)
    \/ \E t \in Threads : CloseFails(t) \/ RemoveRuntime(t) \/ Forget(t)
    \/ \E limit \in 1..Cardinality(Keys), protect \in BOOLEAN : Evict(limit, protect)
    \/ Adopt \/ EvictNext

Spec == Init /\ [][Next]_vars

-----------------------------------------------------------------------------
(* Properties. *)

\* What is protected stays: only residents are pinned, except where the last section of
\* an unload is yet to come, so that a pin never passes to a runtime loaded later; no
\* runtime is stopped under a request, by an eviction that chose it a while ago as little
\* as by an administrator; an eviction never stops a runtime that was pinned when it
\* selected; and one that protects the default never stops what was the default then,
\* wherever the route has gone since.
ProtectionHolds ==
    /\ \A k \in pins \ Resident :
          \E t \in Threads : unloader[t].pc = "forget" /\ unloader[t].key = k
    /\ \A k \in Keys : rt[k].state = "stopping" => rt[k].active = 0
    /\ unloader["evictor"] # Idle =>
          /\ unloader["evictor"].key \notin evictor.pins
          /\ evictor.protect => unloader["evictor"].key # evictor.default

=============================================================================
