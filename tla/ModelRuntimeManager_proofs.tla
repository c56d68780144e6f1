--------------------- MODULE ModelRuntimeManager_proofs ---------------------
(***************************************************************************)
(* What ModelRuntimeManager guarantees for any number of load attempts,    *)
(* keys and names, any sizes and any budget, however calls overlap and      *)
(* whenever the shutdown comes: that live engines fit the budget, that none *)
(* is lost and that names lead to residents; and, but for what overtakes a  *)
(* load or outlives the shutdown, that every reservation is held for        *)
(* somebody, that no engine is closed under a request and that a clean      *)
(* shutdown leaves nothing.                                                 *)
(***************************************************************************)
EXTENDS ModelRuntimeManager, CollectionLemmas

USE ManagerAssumption DEF routing, defaults, memory, jobs, shutting, history,
                          Goes, Becomes, Unloads, Registered

-----------------------------------------------------------------------------
(* Memory, tables and names: the first inductive invariant.                  *)

\* Where an attempt has an engine that is in no table.
Unpublished == {"publish", "swap", "close", "release", "replace", "abort", "abandon"}

\* Every live engine of a known size has its reservation ...
Backed == \A l \in Load : engine[l] = "live" /\ Size[l] # None => l \in ledger

\* ... and the reservations fit the budget.
Fitting ==
  /\ \A l \in ledger : Size[l] # None
  /\ Bytes(ledger) <= Budget

\* An engine is built once, after its reservation.
BuiltOnce ==
  \A l \in Load :
    /\ work[l] \in {"idle", "reserve", "build"} => engine[l] = "none"
    /\ work[l] = "build" /\ Size[l] # None => l \in ledger
    /\ l \in pending => engine[l] # "none"

\* Who replaces or stops a runtime knows which.
Targeted ==
  /\ \A l \in Load : work[l] \in {"swap", "close", "release", "replace"} => current[l] \in Load
  /\ \A l \in Load : work[l] \in {"idle", "publish", "adopt", "return"} => current[l] = None
  /\ \A l \in Load : current[l] \in Load => KeyOf[current[l]] = KeyOf[l] /\ current[l] # l
  /\ stage \in {"closing", "releasing", "removing"} => target \in Load

\* A reservation is released, and a runtime forgotten, after its engine is closed.
ClosedFirst ==
  /\ \A l \in Load : work[l] \in {"release", "replace"} => engine[current[l]] = "closed"
  /\ \A r \in Load : unloading[r] \in {"release", "remove"} => engine[r] = "closed"
  /\ stage \in {"releasing", "removing"} => engine[target] = "closed"

\* A live engine is in a table, or in the hands of the attempt that built it.
Findable ==
  \A l \in Load : engine[l] = "live" => Registered(l) \/ l \in pending \/ work[l] \in Unpublished

\* The names of a resident runtime lead to its key, and all names to such keys.
Routed ==
  /\ \A k \in Key : runtimes[k] # None =>
       KeyOf[runtimes[k]] = k /\ aliases[k] = k /\ aliases[ModelIdOf[k]] = k
  /\ \A n \in Name : aliases[n] # None => runtimes[aliases[n]] # None

ManagerInv ==
  /\ TypeOK
  /\ Backed /\ Fitting
  /\ BuiltOnce /\ Targeted /\ ClosedFirst /\ Findable /\ Routed

-----------------------------------------------------------------------------
(* The order in which runtimes are made, used and torn down.                 *)

\* A runtime is published before anybody can stop it, and what a shutdown finds under
\* way is late.  A load whose runtime has gone has been overtaken.
InTurn ==
  /\ \A l \in Load : work[l] \in {"adopt", "return"} => Registered(l) \/ l \in overtaken
  /\ \A r \in Load : unloading[r] # "no" => state[r] # "none"
  /\ \A l \in Load : current[l] # None => state[current[l]] # "none"
  /\ \A r \in left : state[r] # "none"
  /\ target # None => stage \in {"closing", "releasing", "removing"} /\ state[target] # "none"
  /\ stage # "up" => Busy \subseteq late

\* Since a shutdown began, a default, or a runtime that may become one, has been made
\* by a call that it found under way.
Defaulted ==
  /\ DefaultResident
  /\ stage # "up" /\ default # None => \E l \in late : KeyOf[l] = default
  /\ stage # "up" => \A r \in Load : Registered(r) /\ state[r] = "ready" =>
       \E l \in late : KeyOf[l] = KeyOf[r]

\* Runtime r has returned its reservation, or never will.
Spent(r) == r \in overtaken \/ (work[r] = "done" /\ r \notin ledger)

\* A reservation belongs to a call under way, to the runtime that will return it, to an
\* engine whose cleanup is pending or to a runtime torn down before its load returned.
Held ==
  /\ \A l \in ledger :
       /\ work[l] \notin {"idle", "reserve"}
       /\ work[l] = "done" =>
            (Registered(l) /\ l \in owned) \/ l \in pending \/ l \in overtaken
  /\ \A l \in Load : work[l] = "replace" => Spent(current[l])
  /\ \A r \in Load : unloading[r] = "remove" => Spent(r)
  /\ stage = "removing" => Spent(target)

Reloads(l, r) ==
  current[l] = r /\ work[l] \in {"reserve", "build", "swap", "abort", "close", "release", "replace"}

\* Nobody tears r down.
Untouched(r) == unloading[r] = "no" /\ r # target /\ \A l \in Load : ~Reloads(l, r)

\* A request uses an engine that lives and that nobody tears down ...
InUse ==
  \A r \in Load \ reopened :
    active[r] > 0 => engine[r] = "live" /\ state[r] # "none" /\ Untouched(r)

\* ... and so it is with a runtime that may take requests, which is resident.
Serving ==
  \A r \in Load \ reopened :
    state[r] = "ready" => engine[r] = "live" /\ Registered(r) /\ Untouched(r)

\* While the server is up one call at a time tears a runtime down, and until it closes
\* its engine a reload may put it back.
TornDownOnce ==
  stage = "up" =>
    /\ target = None /\ reopened = {}
    /\ \A r \in Load : unloading[r] # "no" => state[r] = "stopping" /\ \A l \in Load : ~Reloads(l, r)
    /\ \A l, m, r \in Load : Reloads(l, r) /\ Reloads(m, r) => l = m
    /\ \A l, r \in Load : Reloads(l, r) => state[r] \in {"draining", "stopping"}
    /\ \A l, r \in Load : Reloads(l, r) /\ work[l] \in {"reserve", "build", "swap", "abort"} =>
         state[r] = "draining" /\ engine[r] = "live"

\* An attempt keeps its engine to itself until it is published.
Fresh ==
  /\ \A l \in Load : work[l] \in {"publish", "swap", "close", "release", "replace"} =>
       engine[l] = "live"
  /\ \A l \in Load : state[l] # "none" => work[l] \in {"adopt", "return", "done"} /\ l \notin pending
  /\ \A l \in Load : work[l] \in {"adopt", "return"} \/ Registered(l) => state[l] # "none"
  /\ \A l \in pending : work[l] = "done"

\* Until it has failed to stop one, the shutdown still has every resident to stop but
\* those of the calls it found under way.
Swept ==
  /\ stage = "draining" => ~failures
  /\ stage \in {"draining", "sweeping", "closing", "releasing", "removing"} /\ ~failures =>
       Resident \subseteq left \cup {target} \cup late
  /\ CleanShutdown

OrderInv ==
  /\ InTurn /\ Defaulted /\ Held
  /\ InUse /\ Serving /\ TornDownOnce /\ Fresh
  /\ Swept

-----------------------------------------------------------------------------
(* Memory.                                                                   *)

\* Bytes counts what it is asked about, and a part of it no more than the whole.
LEMMA BytesOfPart ==
  ASSUME TypeOK, NEW S \in SUBSET Load, \A r \in S : Size[r] # None, NEW T, T \subseteq S
  PROVE  Bytes(T) \in Nat /\ Bytes(S) \in Nat /\ Bytes(T) <= Bytes(S)
<1>1. IsFiniteSet(S) /\ \A r \in S : Size[r] \in Nat
  BY FS_Subset
<1>. QED
  BY <1>1, TotalOfPart DEF Bytes

\* What is returned makes room, in primed variables too.
LEMMA LedgerShrinks ==
  ASSUME TypeOK, Fitting, ledger' \subseteq ledger
  PROVE  Fitting'
<1>1. Bytes(ledger)' = Bytes(ledger')
  BY DEF Bytes
<1>2. Bytes(ledger') \in Nat /\ Bytes(ledger) \in Nat /\ Bytes(ledger') <= Bytes(ledger)
  BY BytesOfPart DEF Fitting, TypeOK
<1>. QED
  BY <1>1, <1>2 DEF Fitting

-----------------------------------------------------------------------------
(* No action breaks the first invariant.                                     *)

LEMMA BeginLoadKeeps ==
  ASSUME ManagerInv, NEW l \in Load, BeginLoad(l)
  PROVE  ManagerInv'
<1>1. TypeOK'
  BY DEF ManagerInv, TypeOK, BeginLoad, Resolved
<1>2. BuiltOnce'
  BY DEF ManagerInv, BeginLoad, Resolved, BuiltOnce
<1>3. Targeted'
  BY DEF ManagerInv, BeginLoad, Resolved, Targeted
<1>4. ClosedFirst'
  BY DEF ManagerInv, BeginLoad, Resolved, ClosedFirst
<1>5. Findable'
  BY DEF ManagerInv, BeginLoad, Resolved, Findable, Unpublished
<1>. QED
  BY <1>1, <1>2, <1>3, <1>4, <1>5 DEF ManagerInv, BeginLoad, Backed, Fitting, Routed

LEMMA ReserveKeeps ==
  ASSUME ManagerInv, NEW l \in Load, Reserve(l)
  PROVE  ManagerInv'
<1>1. TypeOK'
  BY DEF ManagerInv, TypeOK, Reserve, Fits
<1>2. Backed'
  BY DEF ManagerInv, Reserve, Fits, Backed
<1>3. Fitting'
  <2>1. CASE Size[l] = None
    BY <2>1, LedgerShrinks DEF ManagerInv, Reserve
  <2>2. CASE Size[l] # None
    <3>1. IsFiniteSet(ledger) /\ Size[l] \in Nat /\ \A r \in ledger : Size[r] \in Nat
      BY <2>2, FS_Subset DEF ManagerInv, TypeOK, Fitting
    <3>2. l \in ledger => ledger \cup {l} = ledger
      OBVIOUS
    <3>3. Bytes(ledger \cup {l}) <= Budget
      <4>1. CASE l \in ledger
        BY <3>2, <4>1 DEF ManagerInv, Fitting
      <4>2. CASE l \notin ledger
        BY <2>2, <3>1, <4>2, TotalAdd DEF Reserve, Fits, Bytes
      <4>. QED
        BY <4>1, <4>2
    <3>4. Bytes(ledger)' = Bytes(ledger \cup {l})
      BY <2>2 DEF Reserve, Bytes
    <3>. QED
      BY <2>2, <3>3, <3>4 DEF ManagerInv, Fitting, Reserve
  <2>. QED
    BY <2>1, <2>2
<1>4. BuiltOnce'
  BY DEF ManagerInv, Reserve, Fits, BuiltOnce
<1>5. Targeted'
  BY DEF ManagerInv, Reserve, Fits, Targeted
<1>6. ClosedFirst'
  BY DEF ManagerInv, Reserve, Fits, ClosedFirst
<1>7. Findable'
  BY DEF ManagerInv, Reserve, Fits, Findable, Unpublished
<1>. QED
  BY <1>1, <1>2, <1>3, <1>4, <1>5, <1>6, <1>7 DEF ManagerInv, Reserve, Routed

LEMMA ReserveRejectedKeeps ==
  ASSUME ManagerInv, NEW l \in Load, ReserveRejected(l)
  PROVE  ManagerInv'
<1>1. TypeOK'
  BY DEF ManagerInv, TypeOK, ReserveRejected, Fits, LoadingAfter, Restores, RuntimeStates
<1>2. BuiltOnce'
  BY DEF ManagerInv, ReserveRejected, Fits, LoadingAfter, Restores, BuiltOnce
<1>3. Targeted'
  BY DEF ManagerInv, ReserveRejected, Fits, LoadingAfter, Restores, Targeted
<1>4. ClosedFirst'
  BY DEF ManagerInv, ReserveRejected, Fits, LoadingAfter, Restores, ClosedFirst
<1>5. Findable'
  BY DEF ManagerInv, ReserveRejected, Fits, LoadingAfter, Restores, Findable, Unpublished
<1>. QED
  BY <1>1, <1>2, <1>3, <1>4, <1>5 DEF ManagerInv, ReserveRejected, Backed, Fitting, Routed

LEMMA BuildKeeps ==
  ASSUME ManagerInv, NEW l \in Load, Build(l)
  PROVE  ManagerInv'
<1>1. TypeOK'
  BY DEF ManagerInv, TypeOK, Build
<1>2. Backed'
  BY DEF ManagerInv, Build, Backed, BuiltOnce
<1>3. BuiltOnce'
  BY DEF ManagerInv, TypeOK, Build, BuiltOnce
<1>4. Targeted'
  BY DEF ManagerInv, TypeOK, Build, Targeted
<1>5. ClosedFirst'
  BY DEF ManagerInv, Build, ClosedFirst, BuiltOnce
<1>6. Findable'
  BY DEF ManagerInv, TypeOK, Build, Findable, Unpublished
<1>. QED
  BY <1>1, <1>2, <1>3, <1>4, <1>5, <1>6 DEF ManagerInv, Build, Fitting, Routed

LEMMA BuildFailsKeeps ==
  ASSUME ManagerInv, NEW l \in Load, BuildFails(l)
  PROVE  ManagerInv'
<1>1. TypeOK'
  BY DEF ManagerInv, TypeOK, BuildFails, LoadingAfter, Restores, RuntimeStates
<1>2. Backed'
  BY DEF ManagerInv, BuildFails, LoadingAfter, Restores, Backed, BuiltOnce
<1>3. Fitting'
  BY LedgerShrinks DEF ManagerInv, BuildFails, LoadingAfter, Restores
<1>4. BuiltOnce'
  BY DEF ManagerInv, TypeOK, BuildFails, LoadingAfter, Restores, BuiltOnce
<1>5. Targeted'
  BY DEF ManagerInv, BuildFails, LoadingAfter, Restores, Targeted
<1>6. ClosedFirst'
  BY DEF ManagerInv, BuildFails, LoadingAfter, Restores, ClosedFirst
<1>7. Findable'
  BY DEF ManagerInv, BuildFails, LoadingAfter, Restores, Findable, Unpublished
<1>. QED
  BY <1>1, <1>2, <1>3, <1>4, <1>5, <1>6, <1>7 DEF ManagerInv, BuildFails, Routed

LEMMA PublishKeeps ==
  ASSUME ManagerInv, NEW l \in Load, Publish(l)
  PROVE  ManagerInv'
<1>1. TypeOK'
  BY DEF ManagerInv, TypeOK, Publish, Conflicts, RuntimeStates
<1>2. BuiltOnce'
  BY DEF ManagerInv, Publish, Conflicts, BuiltOnce
<1>3. Targeted'
  BY DEF ManagerInv, Publish, Conflicts, Targeted
<1>4. ClosedFirst'
  BY DEF ManagerInv, Publish, Conflicts, ClosedFirst
<1>5. Findable'
  BY DEF ManagerInv, TypeOK, Publish, Conflicts, Findable
<1>6. Routed'
  BY DEF ManagerInv, TypeOK, Publish, Conflicts, Routed
<1>. QED
  BY <1>1, <1>2, <1>3, <1>4, <1>5, <1>6 DEF ManagerInv, Publish, Backed, Fitting

LEMMA PublishRefusedKeeps ==
  ASSUME ManagerInv, NEW l \in Load, PublishRefused(l)
  PROVE  ManagerInv'
<1>1. TypeOK'
  BY DEF ManagerInv, TypeOK, PublishRefused, Conflicts
<1>2. BuiltOnce'
  BY DEF ManagerInv, PublishRefused, Conflicts, BuiltOnce
<1>3. Targeted'
  BY DEF ManagerInv, PublishRefused, Conflicts, Targeted
<1>4. ClosedFirst'
  BY DEF ManagerInv, PublishRefused, Conflicts, ClosedFirst
<1>5. Findable'
  BY DEF ManagerInv, PublishRefused, Conflicts, Findable, Unpublished
<1>. QED
  BY <1>1, <1>2, <1>3, <1>4, <1>5 DEF ManagerInv, PublishRefused, Backed, Fitting, Routed

LEMMA AdoptKeeps ==
  ASSUME ManagerInv, NEW l \in Load, Adopt(l)
  PROVE  ManagerInv'
<1>1. TypeOK'
  BY DEF ManagerInv, TypeOK, Adopt
<1>2. BuiltOnce'
  BY DEF ManagerInv, Adopt, BuiltOnce
<1>3. Targeted'
  BY DEF ManagerInv, Adopt, Targeted
<1>4. ClosedFirst'
  BY DEF ManagerInv, Adopt, ClosedFirst
<1>5. Findable'
  BY DEF ManagerInv, Adopt, Findable, Unpublished
<1>. QED
  BY <1>1, <1>2, <1>3, <1>4, <1>5 DEF ManagerInv, Adopt, Backed, Fitting, Routed

LEMMA ReturnKeeps ==
  ASSUME ManagerInv, NEW l \in Load, Return(l)
  PROVE  ManagerInv'
<1>1. TypeOK'
  BY DEF ManagerInv, TypeOK, Return, LoadingAfter
<1>2. BuiltOnce'
  BY DEF ManagerInv, Return, LoadingAfter, BuiltOnce
<1>3. Targeted'
  BY DEF ManagerInv, Return, LoadingAfter, Targeted
<1>4. ClosedFirst'
  BY DEF ManagerInv, Return, LoadingAfter, ClosedFirst
<1>5. Findable'
  BY DEF ManagerInv, Return, LoadingAfter, Findable, Unpublished
<1>. QED
  BY <1>1, <1>2, <1>3, <1>4, <1>5 DEF ManagerInv, Return, Backed, Fitting, Routed

LEMMA CleanupKeeps ==
  ASSUME ManagerInv, NEW l \in Load, Cleanup(l)
  PROVE  ManagerInv'
<1>1. TypeOK'
  BY DEF ManagerInv, TypeOK, Cleanup, LoadingAfter, Restores, Closes, CloseRaises,
         RuntimeStates
<1>2. Backed'
  BY DEF ManagerInv, TypeOK, Cleanup, LoadingAfter, Restores, Closes, CloseRaises, Backed
<1>3. Fitting'
  BY LedgerShrinks DEF ManagerInv, Cleanup, LoadingAfter, Restores, Closes, CloseRaises
<1>4. BuiltOnce'
  BY DEF ManagerInv, TypeOK, Cleanup, LoadingAfter, Restores, Closes, CloseRaises, BuiltOnce
<1>5. Targeted'
  BY DEF ManagerInv, Cleanup, LoadingAfter, Restores, Closes, CloseRaises, Targeted
<1>6. ClosedFirst'
  BY DEF ManagerInv, TypeOK, Cleanup, LoadingAfter, Restores, Closes, CloseRaises,
         ClosedFirst, Targeted
<1>7. Findable'
  BY DEF ManagerInv, TypeOK, Cleanup, LoadingAfter, Restores, Closes, CloseRaises, Findable
<1>. QED
  BY <1>1, <1>2, <1>3, <1>4, <1>5, <1>6, <1>7 DEF ManagerInv, Cleanup, Routed

LEMMA SwapKeeps ==
  ASSUME ManagerInv, NEW l \in Load, Swap(l)
  PROVE  ManagerInv'
<1>1. TypeOK'
  BY DEF ManagerInv, TypeOK, Swap, MaySwap, RuntimeStates
<1>2. BuiltOnce'
  BY DEF ManagerInv, TypeOK, Swap, MaySwap, BuiltOnce
<1>3. Targeted'
  BY DEF ManagerInv, TypeOK, Swap, MaySwap, Targeted
<1>4. ClosedFirst'
  BY DEF ManagerInv, TypeOK, Swap, MaySwap, ClosedFirst
<1>5. Findable'
  BY DEF ManagerInv, TypeOK, Swap, MaySwap, Findable, Unpublished
<1>. QED
  BY <1>1, <1>2, <1>3, <1>4, <1>5 DEF ManagerInv, Swap, Backed, Fitting, Routed

LEMMA CloseCurrentKeeps ==
  ASSUME ManagerInv, NEW l \in Load, CloseCurrent(l)
  PROVE  ManagerInv'
<1>1. TypeOK'
  BY DEF ManagerInv, TypeOK, CloseCurrent, Closes, CloseRaises, RuntimeStates
<1>2. Backed'
  BY DEF ManagerInv, TypeOK, CloseCurrent, Closes, CloseRaises, Backed
<1>3. BuiltOnce'
  BY DEF ManagerInv, TypeOK, CloseCurrent, Closes, CloseRaises, BuiltOnce
<1>4. Targeted'
  BY DEF ManagerInv, TypeOK, CloseCurrent, Closes, CloseRaises, Targeted
<1>5. ClosedFirst'
  BY DEF ManagerInv, TypeOK, CloseCurrent, Closes, CloseRaises, ClosedFirst, Targeted
<1>6. Findable'
  BY DEF ManagerInv, TypeOK, CloseCurrent, Closes, CloseRaises, Findable, Unpublished
<1>. QED
  BY <1>1, <1>2, <1>3, <1>4, <1>5, <1>6 DEF ManagerInv, CloseCurrent, Fitting, Routed

LEMMA ReleaseCurrentKeeps ==
  ASSUME ManagerInv, NEW l \in Load, ReleaseCurrent(l)
  PROVE  ManagerInv'
<1>1. TypeOK'
  BY DEF ManagerInv, TypeOK, ReleaseCurrent, Released, Overtakes, Targeted
<1>2. Backed'
  BY DEF ManagerInv, ReleaseCurrent, Released, Backed, ClosedFirst
<1>3. Fitting'
  BY LedgerShrinks DEF ManagerInv, ReleaseCurrent, Released
<1>4. BuiltOnce'
  BY DEF ManagerInv, ReleaseCurrent, Released, BuiltOnce, ClosedFirst
<1>5. Targeted'
  BY DEF ManagerInv, ReleaseCurrent, Released, Targeted
<1>6. ClosedFirst'
  BY DEF ManagerInv, ReleaseCurrent, Released, ClosedFirst
<1>7. Findable'
  BY DEF ManagerInv, ReleaseCurrent, Released, Findable, Unpublished
<1>. QED
  BY <1>1, <1>2, <1>3, <1>4, <1>5, <1>6, <1>7 DEF ManagerInv, ReleaseCurrent, Routed

LEMMA ReplaceKeeps ==
  ASSUME ManagerInv, NEW l \in Load, Replace(l)
  PROVE  ManagerInv'
<1>1. TypeOK'
  BY DEF ManagerInv, TypeOK, Replace, WithoutAliases, RuntimeStates
<1>2. BuiltOnce'
  BY DEF ManagerInv, Replace, WithoutAliases, BuiltOnce
<1>3. Targeted'
  BY DEF ManagerInv, Replace, WithoutAliases, Targeted
<1>4. ClosedFirst'
  BY DEF ManagerInv, Replace, WithoutAliases, ClosedFirst
<1>5. Findable'
  BY DEF ManagerInv, TypeOK, Replace, WithoutAliases, Findable, ClosedFirst, Targeted
<1>6. Routed'
  <2> DEFINE k == KeyOf[l]
             id == ModelIdOf[k]
  <2>1. runtimes[k] = current[l] /\ current[l] \in Load /\ k \in Key /\ id \in Name
    BY DEF ManagerInv, TypeOK, Replace, Targeted
  <2>2. /\ aliases'[k] = k /\ aliases'[id] = k
        /\ \A n \in Name : aliases'[n] \in {aliases[n], None} \/ (aliases'[n] = k /\ n \in {k, id})
        /\ \A n \in Name : aliases[n] # None /\ aliases[n] # k => aliases'[n] = aliases[n] \/ n \in {k, id}
    BY <2>1 DEF ManagerInv, TypeOK, Replace, WithoutAliases
  <2>3. aliases[k] = k /\ aliases[id] = k
    BY <2>1 DEF ManagerInv, Routed
  <2>4. runtimes' = [runtimes EXCEPT ![k] = l]
    BY DEF Replace
  <2> HIDE DEF k, id
  <2>. QED
    BY <2>1, <2>2, <2>3, <2>4 DEF ManagerInv, TypeOK, Routed, k, id
<1>. QED
  BY <1>1, <1>2, <1>3, <1>4, <1>5, <1>6 DEF ManagerInv, Replace, Backed, Fitting

LEMMA ReplaceLostKeeps ==
  ASSUME ManagerInv, NEW l \in Load, ReplaceLost(l)
  PROVE  ManagerInv'
<1>1. TypeOK'
  BY DEF ManagerInv, TypeOK, ReplaceLost, RuntimeStates
<1>2. BuiltOnce'
  BY DEF ManagerInv, ReplaceLost, BuiltOnce
<1>3. Targeted'
  BY DEF ManagerInv, ReplaceLost, Targeted
<1>4. ClosedFirst'
  BY DEF ManagerInv, ReplaceLost, ClosedFirst
<1>5. Findable'
  BY DEF ManagerInv, ReplaceLost, Findable, Unpublished
<1>. QED
  BY <1>1, <1>2, <1>3, <1>4, <1>5 DEF ManagerInv, ReplaceLost, Backed, Fitting, Routed

LEMMA BeginReloadKeeps ==
  ASSUME ManagerInv, NEW l \in Load, NEW r \in Load, BeginReload(l, r)
  PROVE  ManagerInv'
<1>1. TypeOK'
  BY DEF ManagerInv, TypeOK, BeginReload, MayAddress, RuntimeStates
<1>2. BuiltOnce'
  BY DEF ManagerInv, BeginReload, MayAddress, BuiltOnce
<1>3. Targeted'
  BY DEF ManagerInv, TypeOK, BeginReload, MayAddress, Targeted
<1>4. ClosedFirst'
  BY DEF ManagerInv, BeginReload, MayAddress, ClosedFirst
<1>5. Findable'
  BY DEF ManagerInv, BeginReload, MayAddress, Findable, Unpublished
<1>. QED
  BY <1>1, <1>2, <1>3, <1>4, <1>5 DEF ManagerInv, BeginReload, Backed, Fitting, Routed

LEMMA BeginUnloadKeeps ==
  ASSUME ManagerInv, NEW r \in Load, BeginUnload(r)
  PROVE  ManagerInv'
<1>1. TypeOK'
  BY DEF ManagerInv, TypeOK, BeginUnload, MayAddress, RuntimeStates
<1>2. ClosedFirst'
  BY DEF ManagerInv, BeginUnload, MayAddress, ClosedFirst
<1>. QED
  BY <1>1, <1>2 DEF ManagerInv, BeginUnload, Backed, Fitting, BuiltOnce, Targeted, Findable,
         Routed, Unpublished

LEMMA UnloadCloseKeeps ==
  ASSUME ManagerInv, NEW r \in Load, UnloadClose(r)
  PROVE  ManagerInv'
<1>1. TypeOK'
  BY DEF ManagerInv, TypeOK, UnloadClose, Closes, CloseRaises, RuntimeStates
<1>2. Backed'
  BY DEF ManagerInv, TypeOK, UnloadClose, Closes, CloseRaises, Backed
<1>3. BuiltOnce'
  BY DEF ManagerInv, TypeOK, UnloadClose, Closes, CloseRaises, BuiltOnce
<1>4. ClosedFirst'
  BY DEF ManagerInv, TypeOK, UnloadClose, Closes, CloseRaises, ClosedFirst, Targeted
<1>5. Findable'
  BY DEF ManagerInv, TypeOK, UnloadClose, Closes, CloseRaises, Findable
<1>. QED
  BY <1>1, <1>2, <1>3, <1>4, <1>5 DEF ManagerInv, UnloadClose, Fitting, Targeted, Routed

LEMMA UnloadReleaseKeeps ==
  ASSUME ManagerInv, NEW r \in Load, UnloadRelease(r)
  PROVE  ManagerInv'
<1>1. TypeOK'
  BY DEF ManagerInv, TypeOK, UnloadRelease, Released, Overtakes
<1>2. Backed'
  BY DEF ManagerInv, UnloadRelease, Released, Backed, ClosedFirst
<1>3. Fitting'
  BY LedgerShrinks DEF ManagerInv, UnloadRelease, Released
<1>4. BuiltOnce'
  BY DEF ManagerInv, UnloadRelease, Released, BuiltOnce, ClosedFirst
<1>5. ClosedFirst'
  BY DEF ManagerInv, UnloadRelease, Released, ClosedFirst
<1>. QED
  BY <1>1, <1>2, <1>3, <1>4, <1>5 DEF ManagerInv, UnloadRelease, Targeted, Findable, Routed,
         Unpublished

LEMMA UnloadRemoveKeeps ==
  ASSUME ManagerInv, NEW r \in Load, UnloadRemove(r)
  PROVE  ManagerInv'
<1>1. TypeOK'
  <2>1. default' \in Key \cup {None}
    BY DEF ManagerInv, TypeOK, UnloadRemove, NextReady, Resident
  <2>2. aliases' \in [Name -> Key \cup {None}]
    BY DEF ManagerInv, TypeOK, UnloadRemove, WithoutAliases
  <2>. QED
    BY <2>1, <2>2 DEF ManagerInv, TypeOK, UnloadRemove, RuntimeStates
<1>2. ClosedFirst'
  BY DEF ManagerInv, UnloadRemove, WithoutAliases, NextReady, Resident, ClosedFirst
<1>3. Findable'
  BY DEF ManagerInv, TypeOK, UnloadRemove, WithoutAliases, NextReady, Resident, Findable,
         ClosedFirst
<1>4. Routed'
  BY DEF ManagerInv, TypeOK, UnloadRemove, WithoutAliases, NextReady, Resident, Routed
<1>. QED
  BY <1>1, <1>2, <1>3, <1>4 DEF ManagerInv, UnloadRemove, Backed, Fitting, BuiltOnce,
         Targeted

LEMMA LeaseKeeps ==
  ASSUME ManagerInv, NEW r \in Load, Lease(r)
  PROVE  ManagerInv'
<1>1. TypeOK'
  BY DEF ManagerInv, TypeOK, Lease
<1>. QED
  BY <1>1 DEF ManagerInv, Lease, Backed, Fitting, BuiltOnce, Targeted, ClosedFirst,
         Findable, Routed, Unpublished

LEMMA EndLeaseKeeps ==
  ASSUME ManagerInv, NEW r \in Load, EndLease(r)
  PROVE  ManagerInv'
<1>1. TypeOK'
  BY DEF ManagerInv, TypeOK, EndLease
<1>. QED
  BY <1>1 DEF ManagerInv, EndLease, Backed, Fitting, BuiltOnce, Targeted, ClosedFirst,
         Findable, Routed, Unpublished

LEMMA SetDefaultKeeps ==
  ASSUME ManagerInv, NEW r \in Load, SetDefault(r)
  PROVE  ManagerInv'
<1>1. TypeOK'
  BY DEF ManagerInv, TypeOK, SetDefault, MayAddress
<1>. QED
  BY <1>1 DEF ManagerInv, SetDefault, Backed, Fitting, BuiltOnce, Targeted, ClosedFirst,
         Findable, Routed, Unpublished

LEMMA SetConfiguredKeeps ==
  ASSUME ManagerInv, NEW r \in Load, SetConfigured(r)
  PROVE  ManagerInv'
<1>1. TypeOK'
  BY DEF ManagerInv, TypeOK, SetConfigured
<1>. QED
  BY <1>1 DEF ManagerInv, SetConfigured, Backed, Fitting, BuiltOnce, Targeted, ClosedFirst,
         Findable, Routed, Unpublished

LEMMA ShutBeginKeeps ==
  ASSUME ManagerInv, ShutBegin
  PROVE  ManagerInv'
<1>1. TypeOK'
  BY DEF ManagerInv, TypeOK, ShutBegin, Resident, Busy, RuntimeStates
<1>2. Targeted'
  BY DEF ManagerInv, ShutBegin, Resident, Targeted
<1>3. ClosedFirst'
  BY DEF ManagerInv, ShutBegin, Resident, ClosedFirst
<1>. QED
  BY <1>1, <1>2, <1>3 DEF ManagerInv, ShutBegin, Backed, Fitting, BuiltOnce, Findable,
         Routed, Unpublished

LEMMA ShutDrainedKeeps ==
  ASSUME ManagerInv, ShutDrained
  PROVE  ManagerInv'
<1>1. TypeOK'
  BY DEF ManagerInv, TypeOK, ShutDrained
<1>2. Targeted'
  BY DEF ManagerInv, ShutDrained, Targeted
<1>3. ClosedFirst'
  BY DEF ManagerInv, ShutDrained, ClosedFirst
<1>. QED
  BY <1>1, <1>2, <1>3 DEF ManagerInv, ShutDrained, Backed, Fitting, BuiltOnce, Findable,
         Routed, Unpublished

LEMMA ShutNextKeeps ==
  ASSUME ManagerInv, ShutNext
  PROVE  ManagerInv'
<1>1. TypeOK'
  <2>1. PICK r \in left :
          /\ left' = left \ {r}
          /\ state' \in {state, [state EXCEPT ![r] = "failed"], [state EXCEPT ![r] = "stopping"]}
          /\ stage' \in {stage, "closing"} /\ target' \in {target, r}
          /\ failures' \in {failures, TRUE}
    BY DEF ShutNext
  <2>2. state' \in [Load -> RuntimeStates]
    BY <2>1 DEF ManagerInv, TypeOK, RuntimeStates
  <2>3. UNCHANGED <<routing, defaults, active, engine, memory, pending, jobs, unloading,
                 history>>
    BY DEF ShutNext
  <2>4. failures' \in BOOLEAN
    BY <2>1 DEF ManagerInv, TypeOK
  <2>. QED
    BY <2>1, <2>2, <2>3, <2>4 DEF ManagerInv, TypeOK
<1>2. Targeted'
  BY DEF ManagerInv, TypeOK, ShutNext, Targeted
<1>3. ClosedFirst'
  BY DEF ManagerInv, ShutNext, ClosedFirst
<1>. QED
  BY <1>1, <1>2, <1>3 DEF ManagerInv, ShutNext, Backed, Fitting, BuiltOnce, Findable,
         Routed, Unpublished

LEMMA ShutCloseKeeps ==
  ASSUME ManagerInv, ShutClose
  PROVE  ManagerInv'
<1>1. TypeOK'
  BY DEF ManagerInv, TypeOK, ShutClose, Closes, CloseRaises, RuntimeStates
<1>2. Backed'
  BY DEF ManagerInv, TypeOK, ShutClose, Closes, CloseRaises, Backed
<1>3. BuiltOnce'
  BY DEF ManagerInv, TypeOK, ShutClose, Closes, CloseRaises, BuiltOnce
<1>4. Targeted'
  BY DEF ManagerInv, ShutClose, Closes, CloseRaises, Targeted
<1>5. ClosedFirst'
  BY DEF ManagerInv, TypeOK, ShutClose, Closes, CloseRaises, ClosedFirst, Targeted
<1>6. Findable'
  BY DEF ManagerInv, TypeOK, ShutClose, Closes, CloseRaises, Findable
<1>. QED
  BY <1>1, <1>2, <1>3, <1>4, <1>5, <1>6 DEF ManagerInv, ShutClose, Fitting, Routed

LEMMA ShutReleaseKeeps ==
  ASSUME ManagerInv, ShutRelease
  PROVE  ManagerInv'
<1>1. TypeOK'
  BY DEF ManagerInv, TypeOK, ShutRelease, Released, Overtakes, Targeted
<1>2. Backed'
  BY DEF ManagerInv, ShutRelease, Released, Backed, ClosedFirst
<1>3. Fitting'
  BY LedgerShrinks DEF ManagerInv, ShutRelease, Released
<1>4. BuiltOnce'
  BY DEF ManagerInv, ShutRelease, Released, BuiltOnce, ClosedFirst
<1>5. Targeted'
  BY DEF ManagerInv, ShutRelease, Released, Targeted
<1>6. ClosedFirst'
  BY DEF ManagerInv, ShutRelease, Released, ClosedFirst
<1>. QED
  BY <1>1, <1>2, <1>3, <1>4, <1>5, <1>6 DEF ManagerInv, ShutRelease, Findable, Routed,
         Unpublished

LEMMA ShutRemoveKeeps ==
  ASSUME ManagerInv, ShutRemove
  PROVE  ManagerInv'
<1>1. TypeOK'
  BY DEF ManagerInv, TypeOK, ShutRemove, WithoutAliases, RuntimeStates
<1>2. Targeted'
  BY DEF ManagerInv, ShutRemove, WithoutAliases, Targeted
<1>3. ClosedFirst'
  BY DEF ManagerInv, ShutRemove, WithoutAliases, ClosedFirst
<1>4. Findable'
  BY DEF ManagerInv, TypeOK, ShutRemove, WithoutAliases, Findable, ClosedFirst
<1>5. Routed'
  BY DEF ManagerInv, TypeOK, ShutRemove, WithoutAliases, Routed
<1>. QED
  BY <1>1, <1>2, <1>3, <1>4, <1>5 DEF ManagerInv, ShutRemove, Backed, Fitting, BuiltOnce

LEMMA ShutEndKeeps ==
  ASSUME ManagerInv, ShutEnd
  PROVE  ManagerInv'
<1>1. TypeOK'
  BY DEF ManagerInv, TypeOK, ShutEnd
<1>2. Backed'
  BY DEF ManagerInv, ShutEnd, Backed
<1>3. Fitting'
  BY LedgerShrinks DEF ManagerInv, ShutEnd
<1>4. BuiltOnce'
  BY DEF ManagerInv, ShutEnd, BuiltOnce
<1>5. Targeted'
  BY DEF ManagerInv, ShutEnd, Targeted
<1>6. ClosedFirst'
  BY DEF ManagerInv, ShutEnd, ClosedFirst, Targeted
<1>7. Findable'
  BY DEF ManagerInv, ShutEnd, Findable
<1>. QED
  BY <1>1, <1>2, <1>3, <1>4, <1>5, <1>6, <1>7 DEF ManagerInv, ShutEnd, Routed

-----------------------------------------------------------------------------
(* No action breaks the order.                                               *)

LEMMA BeginLoadInOrder ==
  ASSUME ManagerInv, OrderInv, ManagerInv', NEW l \in Load, BeginLoad(l)
  PROVE  OrderInv'
<1>1. InTurn'
  BY DEF ManagerInv, OrderInv, TypeOK, BeginLoad, Resolved, InTurn, Busy
<1>2. Held'
  BY DEF ManagerInv, OrderInv, TypeOK, BeginLoad, Resolved, Held, Spent
<1>3. InUse'
  BY DEF ManagerInv, OrderInv, TypeOK, BeginLoad, Resolved, InUse, Targeted, Reloads,
         Untouched
<1>4. Serving'
  BY DEF ManagerInv, OrderInv, TypeOK, BeginLoad, Resolved, Serving, Targeted, Reloads,
         Untouched
<1>5. TornDownOnce'
  BY DEF ManagerInv, OrderInv, TypeOK, BeginLoad, Resolved, TornDownOnce, Targeted, Reloads
<1>6. Fresh'
  BY DEF ManagerInv, OrderInv, TypeOK, BeginLoad, Resolved, Fresh
<1>. QED
  BY <1>1, <1>2, <1>3, <1>4, <1>5, <1>6 DEF OrderInv, BeginLoad, Defaulted, Swept, Resident,
         Live, Unpublished, DefaultResident, CleanShutdown, Busy

LEMMA ReserveInOrder ==
  ASSUME ManagerInv, OrderInv, ManagerInv', NEW l \in Load, Reserve(l)
  PROVE  OrderInv'
<1>1. InTurn'
  BY DEF ManagerInv, OrderInv, TypeOK, Reserve, Fits, InTurn, Busy
<1>2. Held'
  BY DEF ManagerInv, OrderInv, TypeOK, Reserve, Fits, Held, InTurn, Busy, Spent
<1>3. InUse'
  BY DEF ManagerInv, OrderInv, TypeOK, Reserve, Fits, InUse, Reloads, Untouched
<1>4. Serving'
  BY DEF ManagerInv, OrderInv, TypeOK, Reserve, Fits, Serving, Reloads, Untouched
<1>5. TornDownOnce'
  BY DEF ManagerInv, OrderInv, TypeOK, Reserve, Fits, TornDownOnce, Reloads
<1>6. Fresh'
  BY DEF ManagerInv, OrderInv, TypeOK, Reserve, Fits, Fresh
<1>7. Swept'
  BY DEF ManagerInv, OrderInv, TypeOK, Reserve, Fits, Swept, InTurn, Busy, CleanShutdown,
         Resident, Live
<1>. QED
  BY <1>1, <1>2, <1>3, <1>4, <1>5, <1>6, <1>7 DEF OrderInv, Reserve, Defaulted,
         DefaultResident

LEMMA ReserveRejectedInOrder ==
  ASSUME ManagerInv, OrderInv, ManagerInv', NEW l \in Load, ReserveRejected(l)
  PROVE  OrderInv'
<1>1. InTurn'
  BY DEF ManagerInv, OrderInv, TypeOK, ReserveRejected, Fits, LoadingAfter, Restores,
         InTurn, Busy
<1>2. Held'
  BY DEF ManagerInv, OrderInv, TypeOK, ReserveRejected, Fits, LoadingAfter, Restores, Held,
         Spent
<1>3. InUse'
  BY DEF ManagerInv, OrderInv, TypeOK, ReserveRejected, Fits, LoadingAfter, Restores, InUse,
         Reloads, Untouched
<1>4. Serving'
  BY DEF ManagerInv, OrderInv, TypeOK, ReserveRejected, Fits, LoadingAfter, Restores,
         Serving, InTurn, TornDownOnce, Reloads, Untouched, Busy
<1>5. TornDownOnce'
  BY DEF ManagerInv, OrderInv, TypeOK, ReserveRejected, Fits, LoadingAfter, Restores,
         TornDownOnce, Reloads
<1>6. Fresh'
  BY DEF ManagerInv, OrderInv, TypeOK, ReserveRejected, Fits, LoadingAfter, Restores, Fresh
<1>7. Defaulted'
  BY DEF ManagerInv, OrderInv, TypeOK, ReserveRejected, Restores, Defaulted,
         DefaultResident, InTurn, Busy, Targeted
<1>8. Swept'
  BY DEF ManagerInv, OrderInv, TypeOK, ReserveRejected, Swept, CleanShutdown, Resident,
         Live, Busy
<1>. QED
  BY <1>1, <1>2, <1>3, <1>4, <1>5, <1>6, <1>7, <1>8 DEF OrderInv, ReserveRejected,
         Unpublished

LEMMA BuildInOrder ==
  ASSUME ManagerInv, OrderInv, ManagerInv', NEW l \in Load, Build(l)
  PROVE  OrderInv'
<1>1. InTurn'
  BY DEF ManagerInv, OrderInv, TypeOK, Build, InTurn, Busy
<1>2. Held'
  BY DEF ManagerInv, OrderInv, TypeOK, Build, Held, Spent
<1>3. InUse'
  BY DEF ManagerInv, OrderInv, TypeOK, Build, InUse, Reloads, Untouched
<1>4. Serving'
  BY DEF ManagerInv, OrderInv, TypeOK, Build, Serving, Reloads, Untouched
<1>5. TornDownOnce'
  BY DEF ManagerInv, OrderInv, TypeOK, Build, TornDownOnce, Reloads
<1>6. Fresh'
  BY DEF ManagerInv, OrderInv, TypeOK, Build, Fresh
<1>7. Swept'
  BY DEF ManagerInv, OrderInv, TypeOK, Build, Swept, InTurn, Busy, CleanShutdown, Resident,
         Live
<1>. QED
  BY <1>1, <1>2, <1>3, <1>4, <1>5, <1>6, <1>7 DEF OrderInv, Build, Defaulted,
         DefaultResident

LEMMA BuildFailsInOrder ==
  ASSUME ManagerInv, OrderInv, ManagerInv', NEW l \in Load, BuildFails(l)
  PROVE  OrderInv'
<1>1. InTurn'
  BY DEF ManagerInv, OrderInv, TypeOK, BuildFails, LoadingAfter, Restores, InTurn, Busy
<1>2. Held'
  BY DEF ManagerInv, OrderInv, TypeOK, BuildFails, LoadingAfter, Restores, Held, Spent
<1>3. InUse'
  BY DEF ManagerInv, OrderInv, TypeOK, BuildFails, LoadingAfter, Restores, InUse, Reloads,
         Untouched
<1>4. Serving'
  BY DEF ManagerInv, OrderInv, TypeOK, BuildFails, LoadingAfter, Restores, Serving, InTurn,
         TornDownOnce, Reloads, Untouched, Busy
<1>5. TornDownOnce'
  BY DEF ManagerInv, OrderInv, TypeOK, BuildFails, LoadingAfter, Restores, TornDownOnce,
         Reloads
<1>6. Fresh'
  BY DEF ManagerInv, OrderInv, TypeOK, BuildFails, LoadingAfter, Restores, Fresh
<1>7. Swept'
  BY DEF ManagerInv, OrderInv, TypeOK, BuildFails, LoadingAfter, Restores, Swept, Resident,
         Live, CleanShutdown, Busy
<1>8. Defaulted'
  BY DEF ManagerInv, OrderInv, TypeOK, BuildFails, Restores, Defaulted, DefaultResident,
         InTurn, Busy, Targeted
<1>. QED
  BY <1>1, <1>2, <1>3, <1>4, <1>5, <1>6, <1>7, <1>8 DEF OrderInv, BuildFails

LEMMA PublishInOrder ==
  ASSUME ManagerInv, OrderInv, ManagerInv', NEW l \in Load, Publish(l)
  PROVE  OrderInv'
<1>1. InTurn'
  BY DEF ManagerInv, OrderInv, TypeOK, Publish, Conflicts, InTurn, Busy
<1>2. Defaulted'
  BY DEF ManagerInv, OrderInv, TypeOK, Publish, Conflicts, Defaulted, InTurn, Busy,
         DefaultResident
<1>3. Held'
  BY DEF ManagerInv, OrderInv, TypeOK, Publish, Conflicts, Held, Spent
<1>4. InUse'
  BY DEF ManagerInv, OrderInv, TypeOK, Publish, Conflicts, InUse, Reloads, Untouched
<1>5. Serving'
  BY DEF ManagerInv, OrderInv, TypeOK, Publish, Conflicts, Serving, InTurn, Fresh, Reloads,
         Untouched, Busy
<1>6. TornDownOnce'
  BY DEF ManagerInv, OrderInv, TypeOK, Publish, Conflicts, TornDownOnce, Fresh, Reloads
<1>7. Fresh'
  BY DEF ManagerInv, OrderInv, TypeOK, Publish, Conflicts, Fresh
<1>8. Swept'
  BY DEF ManagerInv, OrderInv, TypeOK, Publish, Conflicts, Swept, InTurn, Busy,
         CleanShutdown, Resident, Live
<1>. QED
  BY <1>1, <1>2, <1>3, <1>4, <1>5, <1>6, <1>7, <1>8 DEF OrderInv

LEMMA PublishRefusedInOrder ==
  ASSUME ManagerInv, OrderInv, ManagerInv', NEW l \in Load, PublishRefused(l)
  PROVE  OrderInv'
<1>1. InTurn'
  BY DEF ManagerInv, OrderInv, TypeOK, PublishRefused, Conflicts, InTurn, Busy
<1>2. Held'
  BY DEF ManagerInv, OrderInv, TypeOK, PublishRefused, Conflicts, Held, Spent
<1>3. InUse'
  BY DEF ManagerInv, OrderInv, TypeOK, PublishRefused, Conflicts, InUse, Targeted, Reloads,
         Untouched
<1>4. Serving'
  BY DEF ManagerInv, OrderInv, TypeOK, PublishRefused, Conflicts, Serving, Targeted,
         Reloads, Untouched
<1>5. TornDownOnce'
  BY DEF ManagerInv, OrderInv, TypeOK, PublishRefused, Conflicts, TornDownOnce, Targeted,
         Reloads
<1>6. Fresh'
  BY DEF ManagerInv, OrderInv, TypeOK, PublishRefused, Conflicts, Fresh
<1>. QED
  BY <1>1, <1>2, <1>3, <1>4, <1>5, <1>6 DEF OrderInv, PublishRefused, Defaulted, Swept,
         Resident, Live, Unpublished, DefaultResident, CleanShutdown, Busy

LEMMA AdoptInOrder ==
  ASSUME ManagerInv, OrderInv, ManagerInv', NEW l \in Load, Adopt(l)
  PROVE  OrderInv'
<1>1. InTurn'
  BY DEF ManagerInv, OrderInv, TypeOK, Adopt, InTurn, Busy
<1>2. Defaulted'
  BY DEF ManagerInv, OrderInv, TypeOK, Adopt, Defaulted, InTurn, Busy, DefaultResident
<1>3. Held'
  BY DEF ManagerInv, OrderInv, TypeOK, Adopt, Held, Spent
<1>4. InUse'
  BY DEF ManagerInv, OrderInv, TypeOK, Adopt, InUse, Reloads, Untouched
<1>5. Serving'
  BY DEF ManagerInv, OrderInv, TypeOK, Adopt, Serving, Reloads, Untouched
<1>6. TornDownOnce'
  BY DEF ManagerInv, OrderInv, TypeOK, Adopt, TornDownOnce, Reloads
<1>7. Fresh'
  BY DEF ManagerInv, OrderInv, TypeOK, Adopt, Fresh
<1>. QED
  BY <1>1, <1>2, <1>3, <1>4, <1>5, <1>6, <1>7 DEF OrderInv, Adopt, Swept, Resident, Live,
         Unpublished, CleanShutdown, Busy

LEMMA ReturnInOrder ==
  ASSUME ManagerInv, OrderInv, ManagerInv', NEW l \in Load, Return(l)
  PROVE  OrderInv'
<1>1. InTurn'
  BY DEF ManagerInv, OrderInv, TypeOK, Return, LoadingAfter, InTurn, Busy
<1>2. Held'
  BY DEF ManagerInv, OrderInv, TypeOK, Return, LoadingAfter, Held, InTurn, Fitting, Busy,
         Spent
<1>3. InUse'
  BY DEF ManagerInv, OrderInv, TypeOK, Return, LoadingAfter, InUse, Reloads, Untouched
<1>4. Serving'
  BY DEF ManagerInv, OrderInv, TypeOK, Return, LoadingAfter, Serving, Reloads, Untouched
<1>5. TornDownOnce'
  BY DEF ManagerInv, OrderInv, TypeOK, Return, LoadingAfter, TornDownOnce, Reloads
<1>6. Fresh'
  BY DEF ManagerInv, OrderInv, TypeOK, Return, LoadingAfter, Fresh
<1>. QED
  BY <1>1, <1>2, <1>3, <1>4, <1>5, <1>6 DEF OrderInv, Return, Defaulted, Swept, Resident,
         Live, Unpublished, DefaultResident, CleanShutdown, Busy

LEMMA CleanupInOrder ==
  ASSUME ManagerInv, OrderInv, ManagerInv', NEW l \in Load, Cleanup(l)
  PROVE  OrderInv'
<1>1. InTurn'
  BY DEF ManagerInv, OrderInv, TypeOK, Cleanup, LoadingAfter, Restores, Closes, CloseRaises,
         InTurn, Busy
<1>2. Held'
  BY DEF ManagerInv, OrderInv, TypeOK, Cleanup, LoadingAfter, Restores, Closes, CloseRaises,
         Held, Spent
<1>3. InUse'
  BY DEF ManagerInv, OrderInv, TypeOK, Cleanup, LoadingAfter, Restores, Closes, CloseRaises,
         InUse, Fresh, Reloads, Untouched
<1>4. Serving'
  BY DEF ManagerInv, OrderInv, TypeOK, Cleanup, LoadingAfter, Restores, Closes, CloseRaises,
         Serving, InTurn, TornDownOnce, Reloads, Untouched, Busy, Fresh, Targeted
<1>5. TornDownOnce'
  BY DEF ManagerInv, OrderInv, TypeOK, Cleanup, LoadingAfter, Restores, Closes, CloseRaises,
         TornDownOnce, Fresh, Reloads
<1>6. Fresh'
  BY DEF ManagerInv, OrderInv, TypeOK, Cleanup, LoadingAfter, Restores, Closes, CloseRaises,
         Fresh
<1>7. Swept'
  BY DEF ManagerInv, OrderInv, TypeOK, Cleanup, LoadingAfter, Restores, Closes, CloseRaises,
         Swept, Resident, Live, CleanShutdown, Busy
<1>8. Defaulted'
  BY DEF ManagerInv, OrderInv, TypeOK, Cleanup, Restores, Defaulted, DefaultResident,
         InTurn, Busy, Targeted
<1>. QED
  BY <1>1, <1>2, <1>3, <1>4, <1>5, <1>6, <1>7, <1>8 DEF OrderInv, Cleanup

LEMMA SwapInOrder ==
  ASSUME ManagerInv, OrderInv, ManagerInv', NEW l \in Load, Swap(l)
  PROVE  OrderInv'
<1>1. InTurn'
  BY DEF ManagerInv, OrderInv, TypeOK, Swap, MaySwap, InTurn, Busy
<1>2. Held'
  BY DEF ManagerInv, OrderInv, TypeOK, Swap, MaySwap, Held, Spent, Targeted
<1>3. InUse'
  BY DEF ManagerInv, OrderInv, TypeOK, Swap, MaySwap, InUse, Reloads, Untouched
<1>4. Serving'
  BY DEF ManagerInv, OrderInv, TypeOK, Swap, MaySwap, Serving, Reloads, Untouched
<1>5. TornDownOnce'
  BY DEF ManagerInv, OrderInv, TypeOK, Swap, MaySwap, TornDownOnce, InTurn, Reloads, Busy
<1>6. Fresh'
  BY DEF ManagerInv, OrderInv, TypeOK, Swap, MaySwap, Fresh, InUse
<1>7. Defaulted'
  BY DEF ManagerInv, OrderInv, TypeOK, Swap, Defaulted, DefaultResident
<1>8. Swept'
  BY DEF ManagerInv, OrderInv, TypeOK, Swap, Swept, CleanShutdown, Resident, Live, Busy
<1>. QED
  BY <1>1, <1>2, <1>3, <1>4, <1>5, <1>6, <1>7, <1>8 DEF OrderInv, Swap, Unpublished

LEMMA CloseCurrentInOrder ==
  ASSUME ManagerInv, OrderInv, ManagerInv', NEW l \in Load, CloseCurrent(l)
  PROVE  OrderInv'
<1>1. InTurn'
  BY DEF ManagerInv, OrderInv, TypeOK, CloseCurrent, Closes, CloseRaises, InTurn, Busy
<1>2. Held'
  BY DEF ManagerInv, OrderInv, TypeOK, CloseCurrent, Closes, CloseRaises, Held, Spent,
         Targeted
<1>3. InUse'
  BY DEF ManagerInv, OrderInv, TypeOK, CloseCurrent, Closes, CloseRaises, InUse, Reloads,
         Untouched
<1>4. Serving'
  BY DEF ManagerInv, OrderInv, TypeOK, CloseCurrent, Closes, CloseRaises, Serving, Reloads,
         Untouched
<1>5. TornDownOnce'
  <2>1. stage = "up" => /\ current[l] \in Load /\ Reloads(l, current[l])
                        /\ unloading[current[l]] = "no" /\ state[current[l]] # "none"
    BY DEF ManagerInv, OrderInv, TypeOK, CloseCurrent, Targeted, InTurn, TornDownOnce,
           Reloads
  <2>2. CASE Closes(current[l]) /\ UNCHANGED state /\ Goes(l, "release")
    BY <2>1, <2>2 DEF ManagerInv, OrderInv, TypeOK, CloseCurrent, Closes, TornDownOnce,
           Reloads
  <2>3. CASE CloseRaises(current[l]) /\ Becomes(current[l], "failed") /\ Goes(l, "abandon")
    BY <2>1, <2>3 DEF ManagerInv, OrderInv, TypeOK, CloseCurrent, CloseRaises, TornDownOnce,
           Reloads
  <2>. QED
    BY <2>2, <2>3 DEF CloseCurrent
<1>6. Fresh'
  BY DEF ManagerInv, OrderInv, TypeOK, CloseCurrent, Closes, CloseRaises, Fresh,
         TornDownOnce, Reloads, InTurn, Targeted
<1>7. Swept'
  BY DEF ManagerInv, OrderInv, TypeOK, CloseCurrent, Closes, CloseRaises, Swept, Resident,
         Live, CleanShutdown, Busy
<1>8. Defaulted'
  BY DEF ManagerInv, OrderInv, TypeOK, CloseCurrent, Defaulted, DefaultResident
<1>. QED
  BY <1>1, <1>2, <1>3, <1>4, <1>5, <1>6, <1>7, <1>8 DEF OrderInv, CloseCurrent

LEMMA ReleaseCurrentInOrder ==
  ASSUME ManagerInv, OrderInv, ManagerInv', NEW l \in Load, ReleaseCurrent(l)
  PROVE  OrderInv'
<1>1. InTurn'
  BY DEF ManagerInv, OrderInv, TypeOK, ReleaseCurrent, Released, InTurn, Busy, Overtakes
<1>2. Held'
  BY DEF ManagerInv, OrderInv, TypeOK, ReleaseCurrent, Released, Held, InTurn, Busy, Spent,
         Overtakes, Targeted, Fresh
<1>3. InUse'
  BY DEF ManagerInv, OrderInv, TypeOK, ReleaseCurrent, Released, InUse, Reloads, Untouched
<1>4. Serving'
  BY DEF ManagerInv, OrderInv, TypeOK, ReleaseCurrent, Released, Serving, Reloads, Untouched
<1>5. TornDownOnce'
  BY DEF ManagerInv, OrderInv, TypeOK, ReleaseCurrent, Released, TornDownOnce, Reloads
<1>6. Fresh'
  BY DEF ManagerInv, OrderInv, TypeOK, ReleaseCurrent, Released, Fresh
<1>7. Swept'
  BY DEF ManagerInv, OrderInv, TypeOK, ReleaseCurrent, Released, Swept, Resident, Live,
         CleanShutdown, Busy, Overtakes
<1>8. Defaulted'
  BY DEF ManagerInv, OrderInv, TypeOK, ReleaseCurrent, Overtakes, Defaulted, DefaultResident
<1>. QED
  BY <1>1, <1>2, <1>3, <1>4, <1>5, <1>6, <1>7, <1>8 DEF OrderInv, ReleaseCurrent

LEMMA ReplaceInOrder ==
  ASSUME ManagerInv, OrderInv, ManagerInv', NEW l \in Load, Replace(l)
  PROVE  OrderInv'
<1>1. InTurn'
  BY DEF ManagerInv, OrderInv, TypeOK, Replace, WithoutAliases, InTurn, Targeted, Busy,
         Held, Spent, Fresh
<1>2. Defaulted'
  BY DEF ManagerInv, OrderInv, TypeOK, Replace, WithoutAliases, Defaulted, DefaultResident,
         InTurn, Busy, Targeted
<1>3. Held'
  BY DEF ManagerInv, OrderInv, TypeOK, Replace, WithoutAliases, Held, Targeted, Fitting,
         Spent
<1>4. InUse'
  BY DEF ManagerInv, OrderInv, TypeOK, Replace, WithoutAliases, InUse, Reloads, Untouched
<1>5. Serving'
  BY DEF ManagerInv, OrderInv, TypeOK, Replace, WithoutAliases, Serving, InTurn, Targeted,
         Fresh, Reloads, Untouched, Busy
<1>6. TornDownOnce'
  BY DEF ManagerInv, OrderInv, TypeOK, Replace, WithoutAliases, TornDownOnce, InTurn,
         Reloads, Busy, Fresh, Targeted
<1>7. Fresh'
  BY DEF ManagerInv, OrderInv, TypeOK, Replace, WithoutAliases, Fresh
<1>8. Swept'
  BY DEF ManagerInv, OrderInv, TypeOK, Replace, WithoutAliases, Swept, InTurn, Busy,
         CleanShutdown, Resident, Live
<1>. QED
  BY <1>1, <1>2, <1>3, <1>4, <1>5, <1>6, <1>7, <1>8 DEF OrderInv

LEMMA ReplaceLostInOrder ==
  ASSUME ManagerInv, OrderInv, ManagerInv', NEW l \in Load, ReplaceLost(l)
  PROVE  OrderInv'
<1>1. InTurn'
  BY DEF ManagerInv, OrderInv, TypeOK, ReplaceLost, InTurn, Busy
<1>2. Held'
  BY DEF ManagerInv, OrderInv, TypeOK, ReplaceLost, Held, Spent
<1>3. InUse'
  BY DEF ManagerInv, OrderInv, TypeOK, ReplaceLost, InUse, Reloads, Untouched
<1>4. Serving'
  BY DEF ManagerInv, OrderInv, TypeOK, ReplaceLost, Serving, Reloads, Untouched
<1>5. TornDownOnce'
  BY DEF ManagerInv, OrderInv, TypeOK, ReplaceLost, TornDownOnce, InTurn, Reloads, Busy
<1>6. Fresh'
  BY DEF ManagerInv, OrderInv, TypeOK, ReplaceLost, Fresh, TornDownOnce, Reloads, InTurn,
         Targeted
<1>. QED
  BY <1>1, <1>2, <1>3, <1>4, <1>5, <1>6 DEF OrderInv, ReplaceLost, Defaulted, Swept,
         Resident, Live, Unpublished, DefaultResident, CleanShutdown, Busy

LEMMA BeginReloadInOrder ==
  ASSUME ManagerInv, OrderInv, ManagerInv', NEW l \in Load, NEW r \in Load, BeginReload(l, r)
  PROVE  OrderInv'
<1>1. InTurn'
  BY DEF ManagerInv, OrderInv, TypeOK, BeginReload, MayAddress, InTurn, Busy
<1>2. Held'
  BY DEF ManagerInv, OrderInv, TypeOK, BeginReload, MayAddress, Held, Spent
<1>3. InUse'
  BY DEF ManagerInv, OrderInv, TypeOK, BeginReload, MayAddress, InUse, Reloads, Untouched
<1>4. Serving'
  BY DEF ManagerInv, OrderInv, TypeOK, BeginReload, MayAddress, Serving, Reloads, Untouched
<1>5. TornDownOnce'
  BY DEF ManagerInv, OrderInv, TypeOK, BeginReload, MayAddress, TornDownOnce, Serving,
         Reloads
<1>6. Fresh'
  BY DEF ManagerInv, OrderInv, TypeOK, BeginReload, MayAddress, Fresh
<1>. QED
  BY <1>1, <1>2, <1>3, <1>4, <1>5, <1>6 DEF OrderInv, BeginReload, Defaulted, Swept,
         Resident, Live, Unpublished, DefaultResident, CleanShutdown, Busy

LEMMA BeginUnloadInOrder ==
  ASSUME ManagerInv, OrderInv, ManagerInv', NEW r \in Load, BeginUnload(r)
  PROVE  OrderInv'
<1>1. InTurn'
  BY DEF ManagerInv, OrderInv, TypeOK, BeginUnload, MayAddress, InTurn, Busy
<1>2. Held'
  BY DEF ManagerInv, OrderInv, TypeOK, BeginUnload, MayAddress, Held, Spent
<1>3. InUse'
  BY DEF ManagerInv, OrderInv, TypeOK, BeginUnload, MayAddress, InUse, Reloads, Untouched
<1>4. Serving'
  BY DEF ManagerInv, OrderInv, TypeOK, BeginUnload, MayAddress, Serving, Reloads, Untouched
<1>5. TornDownOnce'
  BY DEF ManagerInv, OrderInv, TypeOK, BeginUnload, MayAddress, TornDownOnce, Reloads
<1>6. Fresh'
  BY DEF ManagerInv, OrderInv, TypeOK, BeginUnload, MayAddress, Fresh
<1>. QED
  BY <1>1, <1>2, <1>3, <1>4, <1>5, <1>6 DEF OrderInv, BeginUnload, Defaulted, Swept,
         Resident, Live, Unpublished, DefaultResident, CleanShutdown, Busy

LEMMA UnloadCloseInOrder ==
  ASSUME ManagerInv, OrderInv, ManagerInv', NEW r \in Load, UnloadClose(r)
  PROVE  OrderInv'
<1>1. InTurn'
  BY DEF ManagerInv, OrderInv, TypeOK, UnloadClose, Closes, CloseRaises, InTurn, Busy
<1>2. Held'
  BY DEF ManagerInv, OrderInv, TypeOK, UnloadClose, Closes, CloseRaises, Held, Spent
<1>3. InUse'
  BY DEF ManagerInv, OrderInv, TypeOK, UnloadClose, Closes, CloseRaises, InUse, Reloads,
         Untouched
<1>4. Serving'
  BY DEF ManagerInv, OrderInv, TypeOK, UnloadClose, Closes, CloseRaises, Serving, Reloads,
         Untouched
<1>5. TornDownOnce'
  BY DEF ManagerInv, OrderInv, TypeOK, UnloadClose, Closes, CloseRaises, TornDownOnce,
         InTurn, Reloads, Busy
<1>6. Fresh'
  BY DEF ManagerInv, OrderInv, TypeOK, UnloadClose, Closes, CloseRaises, Fresh,
         TornDownOnce, Untouched, InTurn
<1>7. Swept'
  BY DEF ManagerInv, OrderInv, TypeOK, UnloadClose, Closes, CloseRaises, Swept, Resident,
         Live, CleanShutdown, Busy
<1>8. Defaulted'
  BY DEF ManagerInv, OrderInv, TypeOK, UnloadClose, Defaulted, DefaultResident
<1>. QED
  BY <1>1, <1>2, <1>3, <1>4, <1>5, <1>6, <1>7, <1>8 DEF OrderInv, UnloadClose

LEMMA UnloadReleaseInOrder ==
  ASSUME ManagerInv, OrderInv, ManagerInv', NEW r \in Load, UnloadRelease(r)
  PROVE  OrderInv'
<1>1. InTurn'
  BY DEF ManagerInv, OrderInv, TypeOK, UnloadRelease, Released, InTurn, Busy, Overtakes
<1>2. Held'
  BY DEF ManagerInv, OrderInv, TypeOK, UnloadRelease, Released, Held, InTurn, Busy, Spent,
         Overtakes, Targeted, Fresh
<1>3. InUse'
  BY DEF ManagerInv, OrderInv, TypeOK, UnloadRelease, Released, InUse, Reloads, Untouched
<1>4. Serving'
  BY DEF ManagerInv, OrderInv, TypeOK, UnloadRelease, Released, Serving, Reloads, Untouched
<1>5. TornDownOnce'
  BY DEF ManagerInv, OrderInv, TypeOK, UnloadRelease, Released, TornDownOnce, Reloads
<1>6. Swept'
  BY DEF ManagerInv, OrderInv, TypeOK, UnloadRelease, Released, Swept, Resident, Live,
         CleanShutdown, Busy, Overtakes
<1>7. Defaulted'
  BY DEF ManagerInv, OrderInv, TypeOK, UnloadRelease, Overtakes, Defaulted, DefaultResident
<1>. QED
  BY <1>1, <1>2, <1>3, <1>4, <1>5, <1>6, <1>7 DEF OrderInv, UnloadRelease, Fresh, Reloads,
         Untouched

LEMMA UnloadRemoveInOrder ==
  ASSUME ManagerInv, OrderInv, ManagerInv', NEW r \in Load, UnloadRemove(r)
  PROVE  OrderInv'
<1>1. InTurn'
  BY DEF ManagerInv, OrderInv, TypeOK, UnloadRemove, WithoutAliases, NextReady, Resident,
         InTurn, Busy, Held, Spent, Fresh
<1>2. Defaulted'
  <2>1. CASE default = KeyOf[r] /\ Registered(r)
    <3>1. \/ default' = None
          \/ \E x \in Load : /\ Registered(x) /\ state[x] = "ready"
                           /\ default' = KeyOf[x] /\ KeyOf[x] # KeyOf[r]
      BY <2>1 DEF UnloadRemove, NextReady, Resident
    <3>2. UNCHANGED <<stage, late, overtaken>> /\ state' = [state EXCEPT ![r] = "stopped"]
      BY DEF UnloadRemove
    <3>3. runtimes' = [runtimes EXCEPT ![KeyOf[r]] = None]
      BY <2>1 DEF UnloadRemove
    <3>. QED
      BY <3>1, <3>2, <3>3 DEF ManagerInv, OrderInv, TypeOK, Defaulted, DefaultResident
  <2>2. CASE default # KeyOf[r] \/ ~Registered(r)
    BY <2>2 DEF ManagerInv, OrderInv, TypeOK, UnloadRemove, Defaulted, InTurn, Busy,
           DefaultResident
  <2>. QED
    BY <2>1, <2>2
<1>3. Held'
  BY DEF ManagerInv, OrderInv, TypeOK, UnloadRemove, WithoutAliases, NextReady, Resident,
         Held, Spent
<1>4. InUse'
  BY DEF ManagerInv, OrderInv, TypeOK, UnloadRemove, WithoutAliases, NextReady, Resident,
         InUse, Reloads, Untouched
<1>5. Serving'
  BY DEF ManagerInv, OrderInv, TypeOK, UnloadRemove, WithoutAliases, NextReady, Resident,
         Serving, Reloads, Untouched
<1>6. TornDownOnce'
  BY DEF ManagerInv, OrderInv, TypeOK, UnloadRemove, WithoutAliases, NextReady, Resident,
         TornDownOnce, InTurn, Reloads, Busy
<1>7. Fresh'
  BY DEF ManagerInv, OrderInv, TypeOK, UnloadRemove, WithoutAliases, NextReady, Resident,
         Fresh, TornDownOnce, InTurn
<1>8. Swept'
  BY DEF ManagerInv, OrderInv, TypeOK, UnloadRemove, WithoutAliases, NextReady, Resident,
         Swept, Live, CleanShutdown, Busy
<1>. QED
  BY <1>1, <1>2, <1>3, <1>4, <1>5, <1>6, <1>7, <1>8 DEF OrderInv

LEMMA LeaseInOrder ==
  ASSUME ManagerInv, OrderInv, ManagerInv', NEW r \in Load, Lease(r)
  PROVE  OrderInv'
<1>1. InUse'
  BY DEF ManagerInv, OrderInv, TypeOK, Lease, InUse, Serving, Reloads, Untouched
<1>. QED
  BY <1>1 DEF OrderInv, Lease, InTurn, Defaulted, Held, Serving, TornDownOnce, Fresh, Swept,
         Reloads, Untouched, Resident, Live, Unpublished, Busy, Spent, DefaultResident,
         CleanShutdown

LEMMA EndLeaseInOrder ==
  ASSUME ManagerInv, OrderInv, ManagerInv', NEW r \in Load, EndLease(r)
  PROVE  OrderInv'
<1>1. InUse'
  BY DEF ManagerInv, OrderInv, TypeOK, EndLease, InUse, Reloads, Untouched
<1>. QED
  BY <1>1 DEF OrderInv, EndLease, InTurn, Defaulted, Held, Serving, TornDownOnce, Fresh,
         Swept, Reloads, Untouched, Resident, Live, Unpublished, Busy, Spent,
         DefaultResident, CleanShutdown

LEMMA SetDefaultInOrder ==
  ASSUME ManagerInv, OrderInv, ManagerInv', NEW r \in Load, SetDefault(r)
  PROVE  OrderInv'
<1>1. Defaulted'
  BY DEF ManagerInv, OrderInv, TypeOK, SetDefault, MayAddress, Defaulted, DefaultResident
<1>. QED
  BY <1>1 DEF OrderInv, SetDefault, InTurn, Held, InUse, Serving, TornDownOnce, Fresh,
         Swept, Reloads, Untouched, Resident, Live, Unpublished, Busy, Spent, CleanShutdown

LEMMA SetConfiguredInOrder ==
  ASSUME ManagerInv, OrderInv, ManagerInv', NEW r \in Load, SetConfigured(r)
  PROVE  OrderInv'
<1>. QED
  BY DEF OrderInv, SetConfigured, InTurn, Defaulted, Held, InUse, Serving, TornDownOnce,
         Fresh, Swept, Reloads, Untouched, Resident, Live, Unpublished, Busy, Spent,
         DefaultResident, CleanShutdown

LEMMA ShutBeginInOrder ==
  ASSUME ManagerInv, OrderInv, ManagerInv', ShutBegin
  PROVE  OrderInv'
<1>1. InTurn'
  BY DEF ManagerInv, OrderInv, TypeOK, ShutBegin, Resident, InTurn, Busy, Fresh
<1>2. Defaulted'
  BY DEF ManagerInv, OrderInv, TypeOK, ShutBegin, Resident, Defaulted, DefaultResident
<1>3. Held'
  BY DEF ManagerInv, OrderInv, TypeOK, ShutBegin, Resident, Held, Spent
<1>4. InUse'
  BY DEF ManagerInv, OrderInv, TypeOK, ShutBegin, Resident, InUse, Reloads, Untouched
<1>5. Serving'
  BY DEF ManagerInv, OrderInv, TypeOK, ShutBegin, Resident, Serving, Reloads, Untouched
<1>6. TornDownOnce'
  BY DEF ManagerInv, OrderInv, TypeOK, ShutBegin, Resident, TornDownOnce, Reloads
<1>7. Fresh'
  BY DEF ManagerInv, OrderInv, TypeOK, ShutBegin, Resident, Fresh
<1>8. Swept'
  BY DEF ManagerInv, OrderInv, TypeOK, ShutBegin, Resident, Swept, CleanShutdown, Live, Busy
<1>. QED
  BY <1>1, <1>2, <1>3, <1>4, <1>5, <1>6, <1>7, <1>8 DEF OrderInv

LEMMA ShutDrainedInOrder ==
  ASSUME ManagerInv, OrderInv, ManagerInv', ShutDrained
  PROVE  OrderInv'
<1>1. InTurn'
  BY DEF ManagerInv, OrderInv, TypeOK, ShutDrained, InTurn, Busy
<1>2. Defaulted'
  BY DEF ManagerInv, OrderInv, TypeOK, ShutDrained, Defaulted, DefaultResident
<1>3. Held'
  BY DEF ManagerInv, OrderInv, TypeOK, ShutDrained, Held, Spent
<1>4. Serving'
  BY DEF ManagerInv, OrderInv, TypeOK, ShutDrained, Serving, Reloads, Untouched
<1>5. TornDownOnce'
  BY DEF ManagerInv, OrderInv, TypeOK, ShutDrained, TornDownOnce, Reloads
<1>6. Swept'
  BY DEF ManagerInv, OrderInv, TypeOK, ShutDrained, Swept, Resident, CleanShutdown, Live,
         Busy
<1>. QED
  BY <1>1, <1>2, <1>3, <1>4, <1>5, <1>6 DEF OrderInv, ShutDrained, InUse, Fresh, Reloads,
         Untouched

LEMMA ShutNextInOrder ==
  ASSUME ManagerInv, OrderInv, ManagerInv', ShutNext
  PROVE  OrderInv'
<1>1. InTurn'
  BY DEF ManagerInv, OrderInv, TypeOK, ShutNext, InTurn, Busy
<1>2. Defaulted'
  BY DEF ManagerInv, OrderInv, TypeOK, ShutNext, Defaulted, DefaultResident
<1>3. Held'
  BY DEF ManagerInv, OrderInv, TypeOK, ShutNext, Held, Spent
<1>4. InUse'
  BY DEF ManagerInv, OrderInv, TypeOK, ShutNext, InUse, Reloads, Untouched
<1>5. Serving'
  BY DEF ManagerInv, OrderInv, TypeOK, ShutNext, Serving, Reloads, Untouched, InTurn
<1>6. TornDownOnce'
  BY DEF ManagerInv, OrderInv, TypeOK, ShutNext, TornDownOnce, InTurn, Reloads, Busy
<1>7. Fresh'
  BY DEF ManagerInv, OrderInv, TypeOK, ShutNext, Fresh
<1>8. Swept'
  BY DEF ManagerInv, OrderInv, TypeOK, ShutNext, Swept, InTurn, Resident, Busy,
         CleanShutdown, Live
<1>. QED
  BY <1>1, <1>2, <1>3, <1>4, <1>5, <1>6, <1>7, <1>8 DEF OrderInv

LEMMA ShutCloseInOrder ==
  ASSUME ManagerInv, OrderInv, ManagerInv', ShutClose
  PROVE  OrderInv'
<1>1. InTurn'
  BY DEF ManagerInv, OrderInv, TypeOK, ShutClose, Closes, CloseRaises, InTurn, Busy
<1>2. Defaulted'
  BY DEF ManagerInv, OrderInv, TypeOK, ShutClose, Closes, CloseRaises, Defaulted,
         DefaultResident
<1>3. Held'
  BY DEF ManagerInv, OrderInv, TypeOK, ShutClose, Closes, CloseRaises, Held, Spent
<1>4. InUse'
  BY DEF ManagerInv, OrderInv, TypeOK, ShutClose, Closes, CloseRaises, InUse, Reloads,
         Untouched
<1>5. Serving'
  BY DEF ManagerInv, OrderInv, TypeOK, ShutClose, Closes, CloseRaises, Serving, Reloads,
         Untouched
<1>6. TornDownOnce'
  BY DEF ManagerInv, OrderInv, TypeOK, ShutClose, Closes, CloseRaises, TornDownOnce, InTurn,
         Reloads, Busy
<1>7. Fresh'
  BY DEF ManagerInv, OrderInv, TypeOK, ShutClose, Closes, CloseRaises, Fresh, TornDownOnce,
         Reloads, InTurn, Targeted
<1>8. Swept'
  BY DEF ManagerInv, OrderInv, TypeOK, ShutClose, Closes, CloseRaises, Swept, Resident,
         CleanShutdown, Live, Busy
<1>. QED
  BY <1>1, <1>2, <1>3, <1>4, <1>5, <1>6, <1>7, <1>8 DEF OrderInv

LEMMA ShutReleaseInOrder ==
  ASSUME ManagerInv, OrderInv, ManagerInv', ShutRelease
  PROVE  OrderInv'
<1>1. InTurn'
  BY DEF ManagerInv, OrderInv, TypeOK, ShutRelease, Released, InTurn, Busy, Overtakes
<1>2. Defaulted'
  BY DEF ManagerInv, OrderInv, TypeOK, ShutRelease, Released, Defaulted, DefaultResident,
         Overtakes
<1>3. Held'
  BY DEF ManagerInv, OrderInv, TypeOK, ShutRelease, Released, Held, InTurn, Busy, Spent,
         Overtakes, Targeted, Fresh
<1>4. Serving'
  BY DEF ManagerInv, OrderInv, TypeOK, ShutRelease, Released, Serving, Reloads, Untouched
<1>5. TornDownOnce'
  BY DEF ManagerInv, OrderInv, TypeOK, ShutRelease, Released, TornDownOnce, Reloads
<1>6. Swept'
  BY DEF ManagerInv, OrderInv, TypeOK, ShutRelease, Released, Swept, Resident,
         CleanShutdown, Live, Busy, Overtakes
<1>. QED
  BY <1>1, <1>2, <1>3, <1>4, <1>5, <1>6 DEF OrderInv, ShutRelease, InUse, Fresh, Reloads,
         Untouched

LEMMA ShutRemoveInOrder ==
  ASSUME ManagerInv, OrderInv, ManagerInv', ShutRemove
  PROVE  OrderInv'
<1>1. InTurn'
  BY DEF ManagerInv, OrderInv, TypeOK, ShutRemove, WithoutAliases, InTurn, Busy, Held,
         Spent, Targeted, Fresh
<1>2. Defaulted'
  BY DEF ManagerInv, OrderInv, TypeOK, ShutRemove, WithoutAliases, Defaulted,
         DefaultResident
<1>3. Held'
  BY DEF ManagerInv, OrderInv, TypeOK, ShutRemove, WithoutAliases, Held, Spent
<1>4. InUse'
  BY DEF ManagerInv, OrderInv, TypeOK, ShutRemove, WithoutAliases, InUse, Reloads, Untouched
<1>5. Serving'
  BY DEF ManagerInv, OrderInv, TypeOK, ShutRemove, WithoutAliases, Serving, Reloads,
         Untouched
<1>6. TornDownOnce'
  BY DEF ManagerInv, OrderInv, TypeOK, ShutRemove, WithoutAliases, TornDownOnce, InTurn,
         Reloads, Busy
<1>7. Fresh'
  BY DEF ManagerInv, OrderInv, TypeOK, ShutRemove, WithoutAliases, Fresh, TornDownOnce,
         InTurn, Targeted
<1>8. Swept'
  BY DEF ManagerInv, OrderInv, TypeOK, ShutRemove, WithoutAliases, Swept, Resident,
         CleanShutdown, Live, Busy
<1>. QED
  BY <1>1, <1>2, <1>3, <1>4, <1>5, <1>6, <1>7, <1>8 DEF OrderInv

LEMMA ShutEndInOrder ==
  ASSUME ManagerInv, OrderInv, ManagerInv', ShutEnd
  PROVE  OrderInv'
<1>1. InTurn'
  BY DEF ManagerInv, OrderInv, TypeOK, ShutEnd, InTurn, Busy
<1>2. Defaulted'
  BY DEF ManagerInv, OrderInv, TypeOK, ShutEnd, Defaulted, DefaultResident
<1>3. Held'
  BY DEF ManagerInv, OrderInv, TypeOK, ShutEnd, Held, Spent
<1>4. InUse'
  BY DEF ManagerInv, OrderInv, TypeOK, ShutEnd, InUse, Fresh, Reloads, Untouched
<1>5. Serving'
  BY DEF ManagerInv, OrderInv, TypeOK, ShutEnd, Serving, Reloads, Untouched, Fresh
<1>6. TornDownOnce'
  BY DEF ManagerInv, OrderInv, TypeOK, ShutEnd, TornDownOnce, Fresh, Reloads
<1>7. Fresh'
  BY DEF ManagerInv, OrderInv, TypeOK, ShutEnd, Fresh
<1>8. Swept'
  BY DEF ManagerInv, OrderInv, TypeOK, ShutEnd, Swept, InTurn, Held, Findable, Resident,
         Live, Unpublished, Busy, Spent, CleanShutdown
<1>. QED
  BY <1>1, <1>2, <1>3, <1>4, <1>5, <1>6, <1>7, <1>8 DEF OrderInv

-----------------------------------------------------------------------------
(* The invariants.                                                           *)

\* Initially nothing is loaded.
LEMMA ManagerInit ==
  ASSUME Init
  PROVE  ManagerInv
<1>1. Bytes({}) = 0
  BY FS_EmptySet, TotalUnfolds DEF Bytes
<1>2. TypeOK
  <2>1. /\ runtimes \in [Key -> Load \cup {None}]
        /\ aliases \in [Name -> Key \cup {None}]
        /\ configured \in Name \cup {None}
    BY DEF Init
  <2>2. state \in [Load -> RuntimeStates] /\ active \in [Load -> 0..MaxLeases]
    BY DEF Init, RuntimeStates
  <2>3. failures \in BOOLEAN
    BY DEF Init
  <2>. QED
    BY <2>1, <2>2, <2>3 DEF Init, TypeOK
<1>. QED
  BY <1>1, <1>2 DEF Init, ManagerInv, Backed, Fitting, BuiltOnce, Targeted, ClosedFirst,
         Findable, Routed

\* Initially no call is under way.
LEMMA OrderInit ==
  ASSUME Init
  PROVE  OrderInv
<1>1. InTurn /\ Defaulted /\ Held
  BY DEF Init, InTurn, Defaulted, Held, Busy, Spent, DefaultResident
<1>2. InUse /\ Serving /\ TornDownOnce /\ Fresh
  BY DEF Init, InUse, Serving, TornDownOnce, Fresh, Untouched, Reloads
<1>3. Swept
  BY DEF Init, Swept, CleanShutdown, Resident, Live, Busy
<1>. QED
  BY <1>1, <1>2, <1>3 DEF OrderInv

\* Every step preserves the first invariant.
LEMMA ManagerStep ==
  ASSUME ManagerInv, [Next]_vars
  PROVE  ManagerInv'
<1>1. CASE Next
  <2>1. ASSUME NEW l \in Load, BeginLoad(l)
        PROVE  ManagerInv'
    BY <2>1, BeginLoadKeeps
  <2>2. ASSUME NEW l \in Load, Reserve(l)
        PROVE  ManagerInv'
    BY <2>2, ReserveKeeps
  <2>3. ASSUME NEW l \in Load, ReserveRejected(l)
        PROVE  ManagerInv'
    BY <2>3, ReserveRejectedKeeps
  <2>4. ASSUME NEW l \in Load, Build(l)
        PROVE  ManagerInv'
    BY <2>4, BuildKeeps
  <2>5. ASSUME NEW l \in Load, BuildFails(l)
        PROVE  ManagerInv'
    BY <2>5, BuildFailsKeeps
  <2>6. ASSUME NEW l \in Load, Publish(l)
        PROVE  ManagerInv'
    BY <2>6, PublishKeeps
  <2>7. ASSUME NEW l \in Load, PublishRefused(l)
        PROVE  ManagerInv'
    BY <2>7, PublishRefusedKeeps
  <2>8. ASSUME NEW l \in Load, Adopt(l)
        PROVE  ManagerInv'
    BY <2>8, AdoptKeeps
  <2>9. ASSUME NEW l \in Load, Return(l)
        PROVE  ManagerInv'
    BY <2>9, ReturnKeeps
  <2>10. ASSUME NEW l \in Load, Cleanup(l)
        PROVE  ManagerInv'
    BY <2>10, CleanupKeeps
  <2>11. ASSUME NEW l \in Load, Swap(l)
        PROVE  ManagerInv'
    BY <2>11, SwapKeeps
  <2>12. ASSUME NEW l \in Load, CloseCurrent(l)
        PROVE  ManagerInv'
    BY <2>12, CloseCurrentKeeps
  <2>13. ASSUME NEW l \in Load, ReleaseCurrent(l)
        PROVE  ManagerInv'
    BY <2>13, ReleaseCurrentKeeps
  <2>14. ASSUME NEW l \in Load, Replace(l)
        PROVE  ManagerInv'
    BY <2>14, ReplaceKeeps
  <2>15. ASSUME NEW l \in Load, ReplaceLost(l)
        PROVE  ManagerInv'
    BY <2>15, ReplaceLostKeeps
  <2>16. ASSUME NEW l \in Load, NEW r \in Load, BeginReload(l, r)
        PROVE  ManagerInv'
    BY <2>16, BeginReloadKeeps
  <2>17. ASSUME NEW r \in Load, BeginUnload(r)
        PROVE  ManagerInv'
    BY <2>17, BeginUnloadKeeps
  <2>18. ASSUME NEW r \in Load, UnloadClose(r)
        PROVE  ManagerInv'
    BY <2>18, UnloadCloseKeeps
  <2>19. ASSUME NEW r \in Load, UnloadRelease(r)
        PROVE  ManagerInv'
    BY <2>19, UnloadReleaseKeeps
  <2>20. ASSUME NEW r \in Load, UnloadRemove(r)
        PROVE  ManagerInv'
    BY <2>20, UnloadRemoveKeeps
  <2>21. ASSUME NEW r \in Load, Lease(r)
        PROVE  ManagerInv'
    BY <2>21, LeaseKeeps
  <2>22. ASSUME NEW r \in Load, EndLease(r)
        PROVE  ManagerInv'
    BY <2>22, EndLeaseKeeps
  <2>23. ASSUME NEW r \in Load, SetDefault(r)
        PROVE  ManagerInv'
    BY <2>23, SetDefaultKeeps
  <2>24. ASSUME NEW r \in Load, SetConfigured(r)
        PROVE  ManagerInv'
    BY <2>24, SetConfiguredKeeps
  <2>25. CASE ShutBegin
    BY <2>25, ShutBeginKeeps
  <2>26. CASE ShutDrained
    BY <2>26, ShutDrainedKeeps
  <2>27. CASE ShutNext
    BY <2>27, ShutNextKeeps
  <2>28. CASE ShutClose
    BY <2>28, ShutCloseKeeps
  <2>29. CASE ShutRelease
    BY <2>29, ShutReleaseKeeps
  <2>30. CASE ShutRemove
    BY <2>30, ShutRemoveKeeps
  <2>31. CASE ShutEnd
    BY <2>31, ShutEndKeeps
  <2>. QED
    BY <1>1, <2>1, <2>2, <2>3, <2>4, <2>5, <2>6, <2>7, <2>8, <2>9, <2>10, <2>11, <2>12,
           <2>13, <2>14, <2>15, <2>16, <2>17, <2>18, <2>19, <2>20, <2>21, <2>22, <2>23,
           <2>24, <2>25, <2>26, <2>27, <2>28, <2>29, <2>30, <2>31 DEF Next
<1>2. CASE UNCHANGED vars
  <2>1. TypeOK'
    BY <1>2 DEF vars, ManagerInv, TypeOK
  <2>2. Backed' /\ Fitting' /\ BuiltOnce'
    BY <1>2, LedgerShrinks DEF vars, ManagerInv, Backed, BuiltOnce
  <2>3. Targeted' /\ ClosedFirst' /\ Findable' /\ Routed'
    BY <1>2 DEF vars, ManagerInv, Targeted, ClosedFirst, Findable, Routed
  <2>. QED
    BY <2>1, <2>2, <2>3 DEF ManagerInv
<1>. QED
  BY <1>1, <1>2

\* Every step preserves the order.
LEMMA OrderStep ==
  ASSUME ManagerInv, OrderInv, ManagerInv', [Next]_vars
  PROVE  OrderInv'
<1>1. CASE Next
  <2>1. ASSUME NEW l \in Load, BeginLoad(l)
        PROVE  OrderInv'
    BY <2>1, BeginLoadInOrder
  <2>2. ASSUME NEW l \in Load, Reserve(l)
        PROVE  OrderInv'
    BY <2>2, ReserveInOrder
  <2>3. ASSUME NEW l \in Load, ReserveRejected(l)
        PROVE  OrderInv'
    BY <2>3, ReserveRejectedInOrder
  <2>4. ASSUME NEW l \in Load, Build(l)
        PROVE  OrderInv'
    BY <2>4, BuildInOrder
  <2>5. ASSUME NEW l \in Load, BuildFails(l)
        PROVE  OrderInv'
    BY <2>5, BuildFailsInOrder
  <2>6. ASSUME NEW l \in Load, Publish(l)
        PROVE  OrderInv'
    BY <2>6, PublishInOrder
  <2>7. ASSUME NEW l \in Load, PublishRefused(l)
        PROVE  OrderInv'
    BY <2>7, PublishRefusedInOrder
  <2>8. ASSUME NEW l \in Load, Adopt(l)
        PROVE  OrderInv'
    BY <2>8, AdoptInOrder
  <2>9. ASSUME NEW l \in Load, Return(l)
        PROVE  OrderInv'
    BY <2>9, ReturnInOrder
  <2>10. ASSUME NEW l \in Load, Cleanup(l)
        PROVE  OrderInv'
    BY <2>10, CleanupInOrder
  <2>11. ASSUME NEW l \in Load, Swap(l)
        PROVE  OrderInv'
    BY <2>11, SwapInOrder
  <2>12. ASSUME NEW l \in Load, CloseCurrent(l)
        PROVE  OrderInv'
    BY <2>12, CloseCurrentInOrder
  <2>13. ASSUME NEW l \in Load, ReleaseCurrent(l)
        PROVE  OrderInv'
    BY <2>13, ReleaseCurrentInOrder
  <2>14. ASSUME NEW l \in Load, Replace(l)
        PROVE  OrderInv'
    BY <2>14, ReplaceInOrder
  <2>15. ASSUME NEW l \in Load, ReplaceLost(l)
        PROVE  OrderInv'
    BY <2>15, ReplaceLostInOrder
  <2>16. ASSUME NEW l \in Load, NEW r \in Load, BeginReload(l, r)
        PROVE  OrderInv'
    BY <2>16, BeginReloadInOrder
  <2>17. ASSUME NEW r \in Load, BeginUnload(r)
        PROVE  OrderInv'
    BY <2>17, BeginUnloadInOrder
  <2>18. ASSUME NEW r \in Load, UnloadClose(r)
        PROVE  OrderInv'
    BY <2>18, UnloadCloseInOrder
  <2>19. ASSUME NEW r \in Load, UnloadRelease(r)
        PROVE  OrderInv'
    BY <2>19, UnloadReleaseInOrder
  <2>20. ASSUME NEW r \in Load, UnloadRemove(r)
        PROVE  OrderInv'
    BY <2>20, UnloadRemoveInOrder
  <2>21. ASSUME NEW r \in Load, Lease(r)
        PROVE  OrderInv'
    BY <2>21, LeaseInOrder
  <2>22. ASSUME NEW r \in Load, EndLease(r)
        PROVE  OrderInv'
    BY <2>22, EndLeaseInOrder
  <2>23. ASSUME NEW r \in Load, SetDefault(r)
        PROVE  OrderInv'
    BY <2>23, SetDefaultInOrder
  <2>24. ASSUME NEW r \in Load, SetConfigured(r)
        PROVE  OrderInv'
    BY <2>24, SetConfiguredInOrder
  <2>25. CASE ShutBegin
    BY <2>25, ShutBeginInOrder
  <2>26. CASE ShutDrained
    BY <2>26, ShutDrainedInOrder
  <2>27. CASE ShutNext
    BY <2>27, ShutNextInOrder
  <2>28. CASE ShutClose
    BY <2>28, ShutCloseInOrder
  <2>29. CASE ShutRelease
    BY <2>29, ShutReleaseInOrder
  <2>30. CASE ShutRemove
    BY <2>30, ShutRemoveInOrder
  <2>31. CASE ShutEnd
    BY <2>31, ShutEndInOrder
  <2>. QED
    BY <1>1, <2>1, <2>2, <2>3, <2>4, <2>5, <2>6, <2>7, <2>8, <2>9, <2>10, <2>11, <2>12,
           <2>13, <2>14, <2>15, <2>16, <2>17, <2>18, <2>19, <2>20, <2>21, <2>22, <2>23,
           <2>24, <2>25, <2>26, <2>27, <2>28, <2>29, <2>30, <2>31 DEF Next
<1>2. CASE UNCHANGED vars
  <2>1. InTurn' /\ Defaulted' /\ Held'
    BY <1>2 DEF vars, OrderInv, InTurn, Defaulted, Held, Busy, Spent, DefaultResident
  <2>2. InUse' /\ Serving' /\ TornDownOnce' /\ Fresh'
    BY <1>2 DEF vars, OrderInv, InUse, Serving, TornDownOnce, Fresh, Untouched, Reloads
  <2>3. Swept'
    BY <1>2 DEF vars, OrderInv, Swept, Resident, Live, CleanShutdown, Busy
  <2>. QED
    BY <2>1, <2>2, <2>3 DEF OrderInv
<1>. QED
  BY <1>1, <1>2

\* The first invariant holds, however calls overlap.
THEOREM InvariantHolds == Spec => []ManagerInv
<1>1. Init => ManagerInv
  BY ManagerInit
<1>2. ManagerInv /\ [Next]_vars => ManagerInv'
  BY ManagerStep
<1>. QED
  BY <1>1, <1>2, PTL DEF Spec

\* Who may use a runtime and who tears it down: the invariant behind what follows.
THEOREM OrderHolds == Spec => []OrderInv
<1>1. Init => OrderInv
  BY OrderInit
<1>2. ManagerInv /\ OrderInv /\ [Next]_vars /\ ManagerInv' => OrderInv'
  BY OrderStep
<1>. QED
  BY <1>1, <1>2, InvariantHolds, PTL DEF Spec

-----------------------------------------------------------------------------
(* The properties.                                                           *)

\* Every variable has its type.
THEOREM TypeCorrect == Spec => []TypeOK
<1>1. ManagerInv => TypeOK
  BY DEF ManagerInv
<1>. QED
  BY <1>1, InvariantHolds, PTL

\* The engines that are alive fit the budget together, however loads, reloads,
\* teardowns that fail, requests and the shutdown overlap (runtime.py, load:
\* a reservation is made before the engine and released after it is closed).
THEOREM LiveEnginesDoFit == Spec => []LiveEnginesFit
<1>1. ManagerInv => LiveEnginesFit
  <2>1. ASSUME ManagerInv
        PROVE  Bytes({r \in Live : Size[r] # None}) <= Budget
    <3> DEFINE Sized == {r \in Live : Size[r] # None}
    <3>1. Sized \subseteq ledger /\ ledger \in SUBSET Load /\ \A r \in ledger : Size[r] # None
      BY <2>1 DEF ManagerInv, TypeOK, Backed, Fitting, Live
    <3>2. Bytes(Sized) \in Nat /\ Bytes(ledger) \in Nat /\ Bytes(Sized) <= Bytes(ledger)
      <4> HIDE DEF Sized
      <4>. QED
        BY <2>1, <3>1, BytesOfPart DEF ManagerInv
    <3>. QED
      BY <2>1, <3>2 DEF ManagerInv, Fitting
  <2>. QED
    BY <2>1 DEF LiveEnginesFit
<1>. QED
  BY <1>1, InvariantHolds, PTL

\* No live engine is lost: a call, a table or the shutdown leads to it (runtime.py,
\* _cleanup_unpublished_engine and _pending_cleanup).
THEOREM EnginesAreOwned == Spec => []EnginesOwned
<1>1. ManagerInv => EnginesOwned
  BY DEF ManagerInv, Findable, Unpublished, EnginesOwned, Live, Busy, Resident
<1>. QED
  BY <1>1, InvariantHolds, PTL

\* Key and model id of a resident runtime lead to it, and no name leads nowhere,
\* also when two models share an id (runtime.py, add, _unload and reload).
THEOREM AliasesAreResident == Spec => []AliasesResident
<1>1. ManagerInv => AliasesResident
  BY DEF ManagerInv, TypeOK, Routed, AliasesResident, Resident, Resolved
<1>. QED
  BY <1>1, InvariantHolds, PTL

\* No reservation is held for nobody, but that of a runtime torn down before its load has
\* set its resource_reservation_id (runtime.py:317, _release_runtime_load), however calls
\* overlap and whenever the shutdown comes.
THEOREM ReservationsAreOwned == Spec => []ReservationsOwned
<1>1. ManagerInv /\ OrderInv => ReservationsOwned
  BY DEF ManagerInv, TypeOK, OrderInv, Held, ReservationsOwned, Busy, Resident
<1>. QED
  BY <1>1, InvariantHolds, OrderHolds, PTL

\* The default route leads to a resident runtime unless a load whose runtime was torn down,
\* or a call a shutdown found under way, has set it (product_runtime_manager.py, add;
\* runtime.py, _unload and shutdown).
THEOREM DefaultIsResident == Spec => []DefaultResident
<1>1. OrderInv => DefaultResident
  BY DEF OrderInv, Defaulted
<1>. QED
  BY <1>1, OrderHolds, PTL

\* No engine is closed under a request, but one that a failed reload has put back to READY
\* during a shutdown (runtime.py, lease_runtime, unload, reload and shutdown).
THEOREM NoTeardownUnderRequest == Spec => []NoTeardownInUse
<1>1. OrderInv => NoTeardownInUse
  BY DEF OrderInv, InUse, Untouched, NoTeardownInUse
<1>. QED
  BY <1>1, OrderHolds, PTL

\* A shutdown that reports no failure has stopped every engine and returned every
\* reservation but those of the loads it found under way and of runtimes that were torn
\* down before their load returned (runtime.py, shutdown).
THEOREM ShutdownIsClean == Spec => []CleanShutdown
<1>1. OrderInv => CleanShutdown
  BY DEF OrderInv, Swept
<1>. QED
  BY <1>1, OrderHolds, PTL

=============================================================================
