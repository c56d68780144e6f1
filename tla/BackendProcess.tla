--------------------------- MODULE BackendProcess ---------------------------
(***************************************************************************)
(* Engines that run a server program of their own: llama-server, mlx_vlm    *)
(* and sd-server (engine.py, stable_diffusion_cpp_image_engine.py) on       *)
(* ManagedProcess (process.py), the port runtime.py gives them, and the     *)
(* version probe with its cache (llama_server_compat.py).                   *)
(***************************************************************************)
EXTENDS Integers, FiniteSets, FiniteSetsExt

CONSTANTS
    Engines, Kind,    \* Kind[e]: "llama", "vlm" or "sd"
    Ports,            \* a range of integers
    AllowUnvalidated, \* llama_server_allow_unvalidated
    MaxReplacements,  \* bound: replacements of the llama-server executable
    MaxForeign        \* bound: ports taken by programs that are not the server's

VARIABLES
    eng,      \* eng[e] = [pc, port, stamp, modern, answeredBy]
    child,    \* child[e] = [state, killed, stamp, build]: the process of e
    foreign,  \* ports that other programs listen on
    reserved, \* _reserved_ports
    exe,      \* the executable: [stamp, build], build "old" or "new"
    cache     \* _VERSION_IDENTITY_CACHE

vars == <<eng, child, foreign, reserved, exe, cache>>

NoPort == 0
Nobody == "nobody"
Stranger == "stranger"
Unused == [pc |-> "none", port |-> NoPort, stamp |-> 0, modern |-> FALSE, answeredBy |-> Nobody]
NoChild == [state |-> "none", killed |-> FALSE, stamp |-> 0, build |-> "new"]
NotCached == [stamp |-> 0, build |-> "none"]

Alive(e) == child[e].state \in {"loading", "listening"}
Listening(p) == p \in foreign \/ \E e \in Engines : child[e].state = "listening" /\ eng[e].port = p

\* A runtime is registered with its port until its engine has been closed.
Registered(e) == eng[e].pc \in {"ready", "closing", "closeKill", "closeFailed"}

TypeOK ==
    /\ \A e \in Engines : eng[e].port \in Ports \cup {NoPort} /\ eng[e].modern \in BOOLEAN
    /\ foreign \subseteq Ports /\ reserved \subseteq Ports

Init ==
    /\ eng = [e \in Engines |-> Unused] /\ child = [e \in Engines |-> NoChild]
    /\ foreign = {} /\ reserved = {}
    /\ exe \in {[stamp |-> 1, build |-> b] : b \in {"old", "new"}} /\ cache = NotCached

-----------------------------------------------------------------------------
(* The port and the executable. *)

\* Mutant of Taken: the ports of loads that are still under way.
TakenByRegistered(p) == \E e \in Engines : Registered(e) /\ eng[e].port = p

Taken(p) == p \in reserved \/ \E e \in Engines : Registered(e) /\ eng[e].port = p

\* Under the manager's lock: the first port that is not used and can be bound.
Assign(e) ==
    /\ eng[e].pc = "none"
    /\ LET free == {p \in Ports : ~Taken(p) /\ ~Listening(p)} IN
       /\ free # {}
       /\ eng' = [eng EXCEPT ![e].port = Min(free),
                             ![e].pc = IF Kind[e] = "llama" THEN "stat" ELSE "spawn"]
       /\ reserved' = reserved \cup {Min(free)}
    /\ UNCHANGED <<child, foreign, exe, cache>>

\* _executable_cache_key, before the lock of the cache is taken.
StatBinary(e) ==
    /\ eng[e].pc = "stat"
    /\ eng' = [eng EXCEPT ![e].pc = "probe", ![e].stamp = exe.stamp]
    /\ UNCHANGED <<child, foreign, reserved, exe, cache>>

Hit(e) == cache # NotCached /\ cache.stamp = eng[e].stamp

\* The load fails: its port is given back.
Failed(e) ==
    /\ eng' = [eng EXCEPT ![e].pc = "failed"]
    /\ reserved' = reserved \ {eng[e].port}

\* `--version` runs under the lock; only what could be parsed is cached.
Probe(e) ==
    /\ eng[e].pc = "probe"
    /\ \E build \in IF Hit(e) THEN {cache.build} ELSE {exe.build, "unknown"} :
          /\ cache' = IF Hit(e) \/ build = "unknown" THEN cache
                      ELSE [stamp |-> eng[e].stamp, build |-> build]
          /\ IF build = "new" \/ AllowUnvalidated
             THEN /\ eng' = [eng EXCEPT ![e].pc = "spawn", ![e].modern = build = "new"]
                  /\ UNCHANGED reserved
             ELSE Failed(e)
    /\ UNCHANGED <<child, foreign, exe>>

-----------------------------------------------------------------------------
(* Start: Popen, then wait_ready. *)

Spawn(e) ==
    /\ eng[e].pc = "spawn"
    /\ eng' = [eng EXCEPT ![e].pc = "poll"]
    /\ child' = [child EXCEPT ![e] = [state |-> "loading", killed |-> FALSE,
                                      stamp |-> exe.stamp, build |-> exe.build]]
    /\ UNCHANGED <<foreign, reserved, exe, cache>>

\* poll(): a child that has exited ends the wait, in which nothing is left to stop.
PollChild(e) ==
    /\ eng[e].pc = "poll"
    /\ IF Alive(e) THEN eng' = [eng EXCEPT ![e].pc = "check"] /\ UNCHANGED reserved
                   ELSE Failed(e)
    /\ UNCHANGED <<child, foreign, exe, cache>>

\* mlx_vlm is asked for the model it has loaded; the others only for their health.
Accepts(e, who) == Kind[e] = "vlm" => who = e

\* check_ready asks whoever listens on the port; its exceptions mean "not yet".
CheckReady(e) ==
    /\ eng[e].pc = "check"
    /\ LET p == eng[e].port
           there == {o \in Engines : child[o].state = "listening" /\ ~child[o].killed /\ eng[o].port = p}
                        \cup (IF p \in foreign THEN {Stranger} ELSE {})
       IN  \E who \in there \cup {Nobody} :
              IF who # Nobody /\ Accepts(e, who)
              THEN /\ eng' = [eng EXCEPT ![e].pc = "ready", ![e].answeredBy = who]
                   /\ reserved' = reserved \ {p}
              ELSE eng' = [eng EXCEPT ![e].pc = "poll"] /\ UNCHANGED reserved
    /\ UNCHANGED <<child, foreign, exe, cache>>

\* The deadline: wait_ready closes the process before it raises.
StartTimesOut(e) ==
    /\ eng[e].pc = "poll"
    /\ eng' = [eng EXCEPT ![e].pc = "stopping"]
    /\ UNCHANGED <<child, foreign, reserved, exe, cache>>

-----------------------------------------------------------------------------
(* ManagedProcess.close: SIGTERM, wait, SIGKILL, wait.  "stopping" and "stopKill"  *)
(* are the close of a start that failed, "closing" and "closeKill" that of a       *)
(* runtime that is unloaded.                                                       *)

Close(e) ==
    /\ eng[e].pc \in {"ready", "closeFailed"}
    /\ eng' = [eng EXCEPT ![e].pc = "closing"]
    /\ UNCHANGED <<child, foreign, reserved, exe, cache>>

ChildGone(e) ==
    /\ eng[e].pc \in {"stopping", "stopKill", "closing", "closeKill"} /\ ~Alive(e)
    /\ IF eng[e].pc \in {"stopping", "stopKill"} THEN Failed(e)
       ELSE eng' = [eng EXCEPT ![e] = Unused] /\ UNCHANGED reserved
    /\ child' = [child EXCEPT ![e] = NoChild]
    /\ UNCHANGED <<foreign, exe, cache>>

TermTimesOut(e) ==
    /\ eng[e].pc \in {"stopping", "closing"} /\ Alive(e)
    /\ child' = [child EXCEPT ![e].killed = TRUE]
    /\ eng' = [eng EXCEPT ![e].pc = IF @ = "stopping" THEN "stopKill" ELSE "closeKill"]
    /\ UNCHANGED <<foreign, reserved, exe, cache>>

\* TimeoutExpired: the engine under construction is lost, the runtime is kept as
\* failed.  (llama and sd close once more before they raise, which sends the same
\* signals again.)
KillTimesOut(e) ==
    /\ eng[e].pc \in {"stopKill", "closeKill"} /\ Alive(e)
    /\ IF eng[e].pc = "stopKill" THEN Failed(e)
       ELSE eng' = [eng EXCEPT ![e].pc = "closeFailed"] /\ UNCHANGED reserved
    /\ UNCHANGED <<child, foreign, exe, cache>>

\* Another load of the model.
Retry(e) ==
    /\ eng[e].pc = "failed" /\ ~Alive(e)
    /\ eng' = [eng EXCEPT ![e] = Unused] /\ child' = [child EXCEPT ![e] = NoChild]
    /\ UNCHANGED <<foreign, reserved, exe, cache>>

-----------------------------------------------------------------------------
(* The programs and the machine. *)

\* A server that finds its port taken exits.
Bind(e) ==
    /\ child[e].state = "loading" /\ ~child[e].killed
    /\ child' = [child EXCEPT ![e].state = IF Listening(eng[e].port) THEN "dead" ELSE "listening"]
    /\ UNCHANGED <<eng, foreign, reserved, exe, cache>>

Die(e) ==
    /\ Alive(e)
    /\ child' = [child EXCEPT ![e].state = "dead"]
    /\ UNCHANGED <<eng, foreign, reserved, exe, cache>>

Intrude(p) ==
    /\ ~Listening(p) /\ Cardinality(foreign) < MaxForeign
    /\ foreign' = foreign \cup {p}
    /\ UNCHANGED <<eng, child, reserved, exe, cache>>

ReplaceBinary ==
    /\ exe.stamp <= MaxReplacements
    /\ \E b \in {"old", "new"} : exe' = [stamp |-> exe.stamp + 1, build |-> b]
    /\ UNCHANGED <<eng, child, foreign, reserved, cache>>

Next ==
    \/ \E e \in Engines :
          \/ Assign(e) \/ StatBinary(e) \/ Probe(e) \/ Spawn(e) \/ PollChild(e) \/ CheckReady(e)
          \/ StartTimesOut(e) \/ Close(e) \/ ChildGone(e) \/ TermTimesOut(e) \/ KillTimesOut(e)
          \/ Retry(e) \/ Bind(e) \/ Die(e)
    \/ \E p \in Ports : Intrude(p)
    \/ ReplaceBinary

Spec == Init /\ [][Next]_vars

-----------------------------------------------------------------------------
(* Properties. *)

\* A program that runs although its engine is lost has been killed.
NoOrphan == \A e \in Engines : eng[e].pc = "failed" /\ Alive(e) => child[e].killed

\* An engine that became ready was answered by its own server, never by that of
\* another runtime; only an unrelated program can be taken for it, and not by mlx_vlm.
ReadyIsOwn ==
    \A e \in Engines : eng[e].answeredBy \in
        {Nobody, e} \cup (IF Kind[e] = "vlm" \/ foreign = {} THEN {} ELSE {Stranger})

\* Options of the modern profile are given to no executable below the floor, unless it
\* was replaced after its version had been established.
ProfileFits ==
    \A e \in Engines :
        child[e].state # "none" /\ eng[e].modern /\ child[e].stamp = eng[e].stamp
            => child[e].build = "new"

\* Servers are the engines' own, although ports and versions are looked up before
\* they are used and starts fail half-way.
ServersAreOwn == NoOrphan /\ ReadyIsOwn /\ ProfileFits

=============================================================================
