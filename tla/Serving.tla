------------------------------- MODULE Serving -------------------------------
(***************************************************************************)
(* The components between a request and its answer, side by side: each is   *)
(* an instance over constants and variables of its own, and they share no   *)
(* state.  A behaviour is of the one that `component` names; the variables  *)
(* of the others stay as they are.                                          *)
(***************************************************************************)
EXTENDS Integers, Sequences, FiniteSets

CONSTANTS
    Listeners, Limit, QueueSize, MaxLines,                          \* LogStream
    Trigger, Clear, TriggerSamples, ClearSamples, MaxSamples,       \* PressurePolicy
    Keys, Leasers, MaxPublished, MaxChanges,                        \* ResidencyPolicy
    Painters, ImageSlots, Sizes, Default, MaxPixels, MaxFaults,      \* ImageJobs
    Engines, Kind, Ports, AllowUnvalidated, MaxReplacements, MaxForeign, \* BackendProcess
    Askers, Wants(_), Prompts, Configs, MaxLoads, Slots,            \* ChatCompletions
    CacheSize, TTL, MaxTicks

VARIABLES
    component,
    buffer, lines, listeners, queue, stream, read, overflow, shutdown,
    policy, samples, attempts,
    rt, used, pins, byDefault, byConfig, req, loader, unloader, evictor, published, changes,
    img, sdJobs, sdQueue, leases, unload, faults,
    eng, child, foreign, reserved, exe, versions,
    config, resident, leased, inside, status, proc, cache, ticks, loads

Log == INSTANCE LogStream

Pressure == INSTANCE PressurePolicy

Residency == INSTANCE ResidencyPolicy WITH
    Requests <- Leasers, MaxLoads <- MaxPublished, default <- byDefault,
    configured <- byConfig, loads <- published

Images == INSTANCE ImageJobs WITH
    Requests <- Painters, Slots <- ImageSlots, req <- img, jobs <- sdJobs, queue <- sdQueue

Backends == INSTANCE BackendProcess WITH cache <- versions

Chat == INSTANCE ChatCompletions WITH
    Requests <- Askers, current <- resident, active <- leased

-----------------------------------------------------------------------------
(* Which component a behaviour is of. *)

logVars == <<buffer, lines, listeners, queue, stream, read, overflow, shutdown>>
pressureVars == <<policy, samples, attempts>>
residencyVars == <<rt, used, pins, byDefault, byConfig, req, loader, unloader, evictor,
                   published, changes>>
imagesVars == <<img, sdJobs, sdQueue, leases, unload, faults>>
backendsVars == <<eng, child, foreign, reserved, exe, versions>>
chatVars == <<config, resident, leased, inside, status, proc, cache, ticks, loads>>
servingVars == <<component, logVars, pressureVars, residencyVars, imagesVars, backendsVars,
                 chatVars>>

\* The variables of a component that the behaviour is not of.
NoLog == /\ buffer = 0 /\ lines = 0 /\ listeners = 0 /\ queue = 0
         /\ stream = 0 /\ read = 0 /\ overflow = 0 /\ shutdown = 0
NoPressure == policy = 0 /\ samples = 0 /\ attempts = 0
NoResidency == /\ rt = 0 /\ used = 0 /\ pins = 0 /\ byDefault = 0 /\ byConfig = 0 /\ req = 0
               /\ loader = 0 /\ unloader = 0 /\ evictor = 0 /\ published = 0 /\ changes = 0
NoImages == /\ img = 0 /\ sdJobs = 0 /\ sdQueue = 0 /\ leases = 0
            /\ unload = 0 /\ faults = 0
NoBackends == eng = 0 /\ child = 0 /\ foreign = 0 /\ reserved = 0 /\ exe = 0 /\ versions = 0
NoChat == /\ config = 0 /\ resident = 0 /\ leased = 0 /\ inside = 0 /\ status = 0
          /\ proc = 0 /\ cache = 0 /\ ticks = 0 /\ loads = 0

ServedInit ==
    /\ IF component = "log" THEN Log!Init ELSE NoLog
    /\ IF component = "pressure" THEN Pressure!Init ELSE NoPressure
    /\ IF component = "residency" THEN Residency!Init ELSE NoResidency
    /\ IF component = "images" THEN Images!Init ELSE NoImages
    /\ IF component = "backends" THEN Backends!Init ELSE NoBackends
    /\ IF component = "chat" THEN Chat!Init ELSE NoChat

ServedNext ==
    \/ /\ component = "log" /\ Log!Next
       /\ UNCHANGED <<component, pressureVars, residencyVars, imagesVars, backendsVars, chatVars>>
    \/ /\ component = "pressure" /\ Pressure!Next
       /\ UNCHANGED <<component, logVars, residencyVars, imagesVars, backendsVars, chatVars>>
    \/ /\ component = "residency" /\ Residency!Next
       /\ UNCHANGED <<component, logVars, pressureVars, imagesVars, backendsVars, chatVars>>
    \/ /\ component = "images" /\ Images!Next
       /\ UNCHANGED <<component, logVars, pressureVars, residencyVars, backendsVars, chatVars>>
    \/ /\ component = "backends" /\ Backends!Next
       /\ UNCHANGED <<component, logVars, pressureVars, residencyVars, imagesVars, chatVars>>
    \/ /\ component = "chat" /\ Chat!Next
       /\ UNCHANGED <<component, logVars, pressureVars, residencyVars, imagesVars, backendsVars>>

ServedSpec == ServedInit /\ [][ServedNext]_servingVars

-----------------------------------------------------------------------------
(* Properties: those of the components. *)

\* An answer, cached or not, is the one the runtime that is resident gives, no
\* runtime executes what it cannot serve, although it may have been replaced since the
\* request was prepared (server.py, chat_completions and the response cache), and one at
\* work says so (runtime.py, mark_idle).
AnsweredByTheResident ==
    component = "chat" => Chat!AnswersAreCurrent /\ Chat!RuntimeCanServe /\ Chat!BusyIsReported

\* A log stream has no gap and no repetition (server.py, LogStreamBuffer).
StreamIsContiguous == component = "log" => Log!StreamIsContiguous

\* Requests at work protect a runtime from eviction, and so do its pin and the default
\* as they were when candidates were chosen (residency_api.py, product_runtime_manager.py),
\* and the pressure policy evicts once per episode of pressure (residency_pressure.py).
EvictionIsJustified ==
    /\ component = "residency" => Residency!ProtectionHolds
    /\ component = "pressure" => Pressure!EpisodesAreOfTheSamples

\* Server programs are the engines' own and none is left over (process.py, engine.py),
\* and image jobs belong to requests that wait for them
\* (stable_diffusion_cpp_image_engine.py).
NothingIsLeftBehind ==
    /\ component = "backends" => Backends!ServersAreOwn
    /\ component = "images" => Images!JobsAreOwned

=============================================================================
