--------------------------- MODULE ChatCompletions ---------------------------
(***************************************************************************)
(* One model's chat completions: the policy middleware, the route of        *)
(* server.py, its response cache, and the status a runtime keeps of its     *)
(* requests.  A runtime is a generation: a reload makes another one under   *)
(* the same key, with a configuration of its own, and only when the present *)
(* one has no request (ModelRuntimeManager has the reload in detail).       *)
(***************************************************************************)
EXTENDS Integers, Sequences, FiniteSets, Selections

CONSTANTS
    Requests,
    Wants(_),    \* what a request asks for: a member of Demands
    Prompts,
    Configs,     \* what a reload may configure: a subset of Settings
    MaxLoads,    \* bound: generations
    Slots,       \* max_concurrent_requests
    CacheSize, TTL,
    MaxTicks     \* bound: passages of time

VARIABLES
    config,   \* config[g] of generation g
    current,  \* the resident generation, or Cold
    active,   \* active[g]: active_requests
    inside,   \* inside[g]: holders of the runtime's semaphore
    status,   \* status[g]: the flag `active` of /status
    proc,     \* proc[r]: where the request is
    cache,    \* entries, least recently used first
    ticks,
    loads     \* generations there have been

vars == <<config, current, active, inside, status, proc, cache, ticks, loads>>

Cold == 0
Generations == 1..MaxLoads
Thinking == {"none", "switchable", "always"}
Demands == [stream : BOOLEAN, greedy : BOOLEAN, thinking : {"unset", "on", "off"},
            image : BOOLEAN, prompt : Prompts]
\* forwards: the backend passes a request's thinking switch on to the model.
Settings == [thinking : Thinking, forwards : BOOLEAN, image : BOOLEAN]

Answer(g, prompt) == <<g, prompt>>
NoAnswer == <<>>

Init ==
    /\ config \in [Generations -> Configs]
    /\ loads \in {0, 1} /\ current = loads
    /\ active = [g \in Generations |-> 0] /\ inside = [g \in Generations |-> 0]
    /\ status = [g \in Generations |-> FALSE]
    /\ proc = [r \in Requests |-> [pc |-> "new", gen |-> Cold, answer |-> NoAnswer, age |-> 0]]
    /\ cache = <<>> /\ ticks = 0

Goes(r, pc) == proc' = [proc EXCEPT ![r].pc = pc]

-----------------------------------------------------------------------------
(* What a runtime accepts. *)

\* effective_thinking_mode: without a switch the mode is what is configured, which
\* for the settings here is none.
Effective(c) == IF c.thinking = "switchable" /\ ~c.forwards THEN "none" ELSE c.thinking

Conflict(wish, mode) == (wish = "on" /\ mode = "none") \/ (wish = "off" /\ mode = "always")

\* descriptor_from_registry_entry, as far as the demands here depend on it.
Descriptor(c) == [image |-> c.image, thinking |-> Effective(c)]
Supports(descriptor, d) ==
    (d.image => descriptor.image) /\ ~Conflict(d.thinking, descriptor.thinking)

\* prepare_chat_request, build_backend_request and enforce_request_capabilities, for
\* the runtime that is resident when the request arrives.
Prepared(d, c) ==
    (d.image => c.image) /\ ~Conflict(d.thinking, Effective(c)) /\ Supports(Descriptor(c), d)

\* chat_completions checks again, against the declared mode.
Accepts(d, c) == (d.image => c.image) /\ ~Conflict(d.thinking, c.thinking)

-----------------------------------------------------------------------------
(* The cache. *)

\* Mutant of CacheKey: the key has the model but not which load of it.
CacheKeyOfModel(g, prompt) == prompt

CacheKey(g, prompt) == <<g, prompt>>

Entry(key) == {i \in 1..Len(cache) : cache[i].key = key}
Without(key) == Only(cache, {cache[i] : i \in (1..Len(cache)) \ Entry(key)})

Stale(e) == e.age >= TTL

Stored(entries) == IF Len(entries) > CacheSize THEN Tail(entries) ELSE entries

-----------------------------------------------------------------------------
(* A request. *)

\* The middleware: a request for a model that is not resident is left to the route.
Arrive(r) ==
    /\ proc[r].pc = "new"
    /\ Goes(r, IF current # Cold /\ ~Prepared(Wants(r), config[current]) THEN "refused" ELSE "queued")
    /\ UNCHANGED <<config, current, active, inside, status, cache, ticks, loads>>

\* The route, up to the cache: 404, 400, or a request of this generation.
Route(r) ==
    /\ proc[r].pc = "queued"
    /\ IF current = Cold \/ ~Accepts(Wants(r), config[current])
       THEN Goes(r, "refused")
       ELSE proc' = [proc EXCEPT ![r].pc = IF Wants(r).greedy /\ ~Wants(r).stream
                                           THEN "lookup" ELSE "lease",
                                 ![r].gen = current]
    /\ UNCHANGED <<config, current, active, inside, status, cache, ticks, loads>>

Lookup(r) ==
    /\ proc[r].pc = "lookup"
    /\ \E key \in {CacheKey(proc[r].gen, Wants(r).prompt)} :
          IF Entry(key) = {}
          THEN Goes(r, "lease") /\ UNCHANGED cache
          ELSE \E e \in {cache[i] : i \in Entry(key)} :
                  IF Stale(e)
                  THEN Goes(r, "lease") /\ cache' = Without(key)
                  ELSE /\ cache' = Append(Without(key), e)
                       /\ proc' = [proc EXCEPT ![r].pc = "answered", ![r].answer = e.value,
                                               ![r].age = e.age]
    /\ UNCHANGED <<config, current, active, inside, status, ticks, loads>>

\* lease_runtime counts the request before it waits for the semaphore, and raises
\* for a runtime that has been replaced.
Lease(r) ==
    /\ proc[r].pc = "lease"
    /\ IF current = proc[r].gen
       THEN /\ Goes(r, "wait")
            /\ active' = [active EXCEPT ![current] = @ + 1]
       ELSE Goes(r, "failed") /\ UNCHANGED active
    /\ UNCHANGED <<config, current, inside, status, cache, ticks, loads>>

Enter(r) ==
    /\ proc[r].pc = "wait" /\ inside[proc[r].gen] < Slots
    /\ inside' = [inside EXCEPT ![proc[r].gen] = @ + 1]
    /\ Goes(r, "start")
    /\ UNCHANGED <<config, current, active, status, cache, ticks, loads>>

MarkStarted(r) ==
    /\ proc[r].pc = "start"
    /\ status' = [status EXCEPT ![proc[r].gen] = TRUE]
    /\ Goes(r, "engine")
    /\ UNCHANGED <<config, current, active, inside, cache, ticks, loads>>

\* engine.complete returns or raises; a stream ends, fails or loses its client.
Generate(r) ==
    /\ proc[r].pc = "engine"
    /\ \/ proc' = [proc EXCEPT ![r].pc = IF Wants(r).greedy /\ ~Wants(r).stream
                                         THEN "put" ELSE "idle",
                               ![r].answer = Answer(proc[r].gen, Wants(r).prompt)]
       \/ Goes(r, "idle")
    /\ UNCHANGED <<config, current, active, inside, status, cache, ticks, loads>>

Put(r) ==
    /\ proc[r].pc = "put"
    /\ LET key == CacheKey(proc[r].gen, Wants(r).prompt)
       IN  cache' = Stored(Append(Without(key), [key |-> key, value |-> proc[r].answer, age |-> 0]))
    /\ Goes(r, "idle")
    /\ UNCHANGED <<config, current, active, inside, status, ticks, loads>>

\* Mutant of Remaining: a request that finishes counts nobody else.
RemainingNone(g) == 0

\* mark_idle, inside the lease: what the lease counts, less this request.
Remaining(g) == IF active[g] > 0 THEN active[g] - 1 ELSE 0

MarkIdle(r) ==
    /\ proc[r].pc = "idle"
    /\ status' = [status EXCEPT ![proc[r].gen] = @ /\ Remaining(proc[r].gen) > 0]
    /\ Goes(r, "leave")
    /\ UNCHANGED <<config, current, active, inside, cache, ticks, loads>>

Leave(r) ==
    /\ proc[r].pc = "leave"
    /\ inside' = [inside EXCEPT ![proc[r].gen] = @ - 1]
    /\ Goes(r, "release")
    /\ UNCHANGED <<config, current, active, status, cache, ticks, loads>>

Release(r) ==
    /\ proc[r].pc = "release"
    /\ active' = [active EXCEPT ![proc[r].gen] = @ - 1]
    /\ Goes(r, IF proc[r].answer = NoAnswer THEN "failed" ELSE "answered")
    /\ UNCHANGED <<config, current, inside, status, cache, ticks, loads>>

-----------------------------------------------------------------------------
(* The surroundings. *)

\* A load, a reload of the runtime while nothing is active on it, or an unload.
Replace ==
    /\ current # Cold => active[current] = 0
    /\ \/ loads < MaxLoads /\ loads' = loads + 1 /\ current' = loads + 1
       \/ current # Cold /\ current' = Cold /\ UNCHANGED loads
    /\ UNCHANGED <<config, active, inside, status, proc, cache, ticks>>

Tick ==
    /\ ticks < MaxTicks /\ cache # <<>>
    /\ ticks' = ticks + 1
    /\ cache' = [i \in 1..Len(cache) |-> [cache[i] EXCEPT !.age = @ + 1]]
    /\ UNCHANGED <<config, current, active, inside, status, proc, loads>>

Next ==
    \/ \E r \in Requests :
          Arrive(r) \/ Route(r) \/ Lookup(r) \/ Lease(r) \/ Enter(r) \/ MarkStarted(r)
          \/ Generate(r) \/ Put(r) \/ MarkIdle(r) \/ Leave(r) \/ Release(r)
    \/ Replace \/ Tick

Spec == Init /\ [][Next]_vars

-----------------------------------------------------------------------------
(* Properties. *)

TypeOK ==
    /\ config \in [Generations -> Settings] /\ current \in {Cold} \cup Generations
    /\ active \in [Generations -> 0..Cardinality(Requests)] /\ inside \in [Generations -> 0..Slots]
    /\ status \in [Generations -> BOOLEAN]
    /\ \A r \in Requests : proc[r].gen \in {Cold} \cup Generations

\* An answer, generated or cached, comes from the very load of the model the route
\* resolved for the request, for its own prompt, and is younger than the time to
\* live; the cache never exceeds its size, though requests miss and put at once.
AnswersAreCurrent ==
    /\ \A r \in Requests :
          proc[r].pc = "answered" => /\ proc[r].answer = Answer(proc[r].gen, Wants(r).prompt)
                                     /\ proc[r].age < TTL
    /\ Len(cache) <= CacheSize

\* Reloads between the policy check and the execution notwithstanding, a runtime
\* executes only what its own configuration allows.
RuntimeCanServe ==
    \A r \in Requests : proc[r].pc \in {"start", "engine"} =>
        LET c == config[proc[r].gen] IN
        (Wants(r).image => c.image) /\ ~Conflict(Wants(r).thinking, c.thinking)

\* /status never calls a runtime idle that is working on a request, whatever other
\* requests start and finish on it (mark_started and mark_idle of runtime.py).
BusyIsReported ==
    \A r \in Requests : proc[r].pc = "engine" => status[proc[r].gen]

=============================================================================
