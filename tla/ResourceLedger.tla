---------------------------- MODULE ResourceLedger ----------------------------
(***************************************************************************)
(* The one ledger of memory that residents and requests share:              *)
(* ResourceManager (resource_manager.py) under the budget of                *)
(* resource_policy.py, with the estimates of memory_envelope.py.  An owner   *)
(* is a runtime, from the reservation of its load to its unload, or the      *)
(* execution of a request (transient_resource.py).                          *)
(***************************************************************************)
EXTENDS Integers, Sequences, FiniteSets, Sums

CONSTANTS
    Runtimes, Requests,     \* owners
    RuntimeConfigs,         \* what may be configured about a runtime's memory
    RequestConfigs,         \* and about a request's
    Limit, Headroom,        \* of the budget; Unknown: no limit
    Observed                \* footprints that a commit may be told of

Unknown == -1
None == <<>>

\* What may be known of a number of bytes.
Number == Nat \cup {Unknown}

ASSUME LedgerAssumption ==
    /\ IsFiniteSet(Runtimes \cup Requests) /\ Runtimes \cap Requests = {}
    /\ RuntimeConfigs \subseteq
        [override : Number, weights : Number, bundle : Seq(Number), size : Number,
         file : Number, overhead : Number, context : Number, prompt : Number,
         cacheRam : Number, projector : Number, mmprojFile : Number, mmproj : BOOLEAN,
         margin : Number]
    /\ RequestConfigs \subseteq
        [override : Number, base : Number, multiplier : Number, bytes : Nat,
         perToken : Number, maxTokens : Number, margin : Number]
    /\ Limit \in Number /\ Headroom \in Nat
    /\ Observed \subseteq Nat

VARIABLES
    ledger,     \* ledger[o]: the reservation of o, by owners that have one
    phase,      \* phase[o], from "idle" over "reserved" to "live"
    config      \* config[o]: with which it was reserved

vars == <<ledger, phase, config>>

Owners == Runtimes \cup Requests

\* ResourceBudget.usable_bytes
Usable == IF Limit = Unknown THEN Unknown
          ELSE IF Headroom > Limit THEN 0 ELSE Limit - Headroom

-----------------------------------------------------------------------------
(* Envelopes: components with a number or without one, and those it needs. *)

\* The first source of a number that has one.
FirstKnown(sources) ==
    LET known == {i \in DOMAIN sources : sources[i] # Unknown}
    IN IF known = {} THEN Unknown ELSE sources[Min(known)]

\* A bundle of artifacts counts when all of its files are there.
BundleBytes(sizes) ==
    IF sizes = <<>> \/ \E i \in DOMAIN sizes : sizes[i] = Unknown THEN Unknown
    ELSE Total(sizes, DOMAIN sizes)

\* resident_memory_envelope
ResidentParts(c) ==
    [weights |-> FirstKnown(<<c.weights, BundleBytes(c.bundle), c.size, c.file>>),
     overhead |-> c.overhead, context |-> c.context,
     prompt |-> FirstKnown(<<c.prompt, c.cacheRam>>),
     projector |-> FirstKnown(<<c.projector, c.mmprojFile>>),
     margin |-> c.margin]

ResidentNeeds(c) ==
    {"weights", "overhead", "context", "margin"}
        \cup (IF c.mmproj THEN {"projector"} ELSE {})

\* request_memory_envelope, and transcription_memory_envelope without an output.
TransientParts(c) ==
    [base |-> c.base,
     input |-> IF c.multiplier = Unknown THEN Unknown ELSE c.bytes * c.multiplier,
     output |-> IF c.perToken = Unknown \/ c.maxTokens = Unknown THEN Unknown
                ELSE c.perToken * c.maxTokens,
     margin |-> c.margin]

TransientNeeds(c) == IF c.perToken = Unknown THEN {} ELSE {"output"}

Parts(o, c) == IF o \in Runtimes THEN ResidentParts(c) ELSE TransientParts(c)
Needs(o, c) == IF o \in Runtimes THEN ResidentNeeds(c) ELSE TransientNeeds(c)

Known(o, c) == {p \in DOMAIN Parts(o, c) : Parts(o, c)[p] # Unknown}

\* MemoryEnvelope.accounted_bytes: what is known of it, if anything is.
Estimate(o, c) ==
    CASE c.override # Unknown -> c.override
      [] c.override = Unknown /\ Known(o, c) = {} -> Unknown
      [] OTHER -> Total(Parts(o, c), Known(o, c))

\* MemoryEnvelope.complete
Complete(o, c) ==
    c.override # Unknown \/ (Estimate(o, c) # Unknown /\ Needs(o, c) \subseteq Known(o, c))

-----------------------------------------------------------------------------
(* The ledger. *)

Bytes == [o \in DOMAIN ledger |-> ledger[o].bytes]

BytesOf(S) == Total(Bytes, S)

Accounted == BytesOf(DOMAIN ledger)

InState(s) == {o \in DOMAIN ledger : ledger[o].state = s}

\* Mutant of Fits: reservations count when they are committed.
FitsCommitted(others, bytes) ==
    BytesOf({o \in others : ledger[o].state = "committed"}) + bytes <= Usable

\* _decision_for and the check of commit().
Fits(others, bytes) == BytesOf(others) + bytes <= Usable

\* Mutant of Without: the reservation of an owner that has ended is kept.
WithoutNobody(o) == ledger

Without(o) == [x \in DOMAIN ledger \ {o} |-> ledger[x]]

Entry(o, entry) == [x \in DOMAIN ledger \cup {o} |-> IF x = o THEN entry ELSE ledger[x]]

Init == ledger = <<>> /\ phase = [o \in Owners |-> "idle"] /\ config = [o \in Owners |-> None]

\* _reserve_runtime_load and reserve_transient_resource.  Without a limit or an
\* estimate nothing is reserved and the owner goes on.
Reserve(o, c) ==
    /\ phase[o] \in {"idle", "refused"}
    /\ config' = [config EXCEPT ![o] = c]
    /\ LET bytes == Estimate(o, c)
       IN IF Usable = Unknown \/ bytes = Unknown
          THEN phase' = [phase EXCEPT ![o] = "unaccounted"] /\ UNCHANGED ledger
          ELSE IF Fits(DOMAIN ledger, bytes)
          THEN /\ ledger' = Entry(o, [requested |-> bytes, bytes |-> bytes,
                                      state |-> "reserved"])
               /\ phase' = [phase EXCEPT ![o] = "reserved"]
          ELSE phase' = [phase EXCEPT ![o] = "refused"] /\ UNCHANGED ledger

\* commit(): with what was observed of a resident, or with what was reserved.
Commit(o, observed) ==
    /\ phase[o] = "reserved"
    /\ o \in Requests => observed = Unknown
    /\ LET bytes == IF observed = Unknown THEN ledger[o].bytes ELSE observed
       IN IF Fits(DOMAIN ledger \ {o}, bytes)
          THEN /\ ledger' = Entry(o, [ledger[o] EXCEPT !.bytes = bytes,
                                                       !.state = "committed"])
               /\ phase' = [phase EXCEPT ![o] = "live"]
          ELSE phase' = [phase EXCEPT ![o] = "rejected"] /\ UNCHANGED ledger
    /\ UNCHANGED config

\* release() and rollback(), once the backend of a resident is closed or was never
\* built, and when the execution or the body of a request is over.
Release(o) ==
    /\ phase[o] \in {"reserved", "rejected", "live", "unaccounted"}
    /\ phase' = [phase EXCEPT ![o] = "idle"]
    /\ config' = [config EXCEPT ![o] = None]
    /\ ledger' = Without(o)

Next ==
    \/ \E o \in Runtimes, c \in RuntimeConfigs : Reserve(o, c)
    \/ \E o \in Requests, c \in RequestConfigs : Reserve(o, c)
    \/ \E o \in Owners, b \in Observed \cup {Unknown} : Commit(o, b)
    \/ \E o \in Owners : Release(o)

Spec == Init /\ [][Next]_vars

-----------------------------------------------------------------------------
(* Properties. *)

TypeOK ==
    /\ DOMAIN ledger \subseteq Owners
    /\ \A o \in DOMAIN ledger :
        ledger[o] \in [requested : Nat, bytes : Nat, state : {"reserved", "committed"}]

\* resource_policy_snapshot
Snapshot ==
    LET committed == BytesOf(InState("committed"))
        reserved == BytesOf(InState("reserved"))
    IN [committed |-> committed, reserved |-> reserved,
        remaining |-> IF Usable - committed - reserved > 0
                      THEN Usable - committed - reserved ELSE 0]

\* "individually safe owners cannot collectively exceed the configured usable
\* budget" (resource_manager.py:6), whatever is reserved, committed with another
\* number or given back in between, and what is shown adds up to the budget.
WithinBudget ==
    Usable # Unknown =>
        /\ Accounted <= Usable
        /\ Snapshot.committed + Snapshot.reserved + Snapshot.remaining = Usable

\* Whoever uses memory under an estimate is in the ledger, and nobody else: with
\* what was reserved until something was observed, and never with less than is
\* known.  Nothing known is not the same as zero.
OwnersAreAccounted ==
    /\ DOMAIN ledger = {o \in Owners : phase[o] \in {"reserved", "rejected", "live"}}
    /\ \A o \in DOMAIN ledger :
        LET c == config[o] IN
        /\ ledger[o].requested = Estimate(o, c)
        /\ ledger[o].bytes \in {Estimate(o, c)} \cup Observed
        /\ c.override = Unknown =>
            \A p \in DOMAIN Parts(o, c) : Parts(o, c)[p] <= ledger[o].requested
    /\ \A o \in Owners : phase[o] = "unaccounted" /\ Usable # Unknown =>
        /\ \A p \in DOMAIN Parts(o, config[o]) : Parts(o, config[o])[p] = Unknown
        /\ ~Complete(o, config[o])

=============================================================================
