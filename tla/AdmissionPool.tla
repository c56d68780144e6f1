--------------------------- MODULE AdmissionPool ---------------------------
(***************************************************************************)
(* What an admission component of the server promises its clients, whatever *)
(* its queues, counters and wake-ups look like: a fixed number of permits,  *)
(* lent to one request each; requests of one class are served in the order  *)
(* in which they arrived; a permit is only given up by its holder.          *)
(* GlobalExecutionGovernor implements it with the runtimes as classes and   *)
(* RuntimeGate with a single class.                                         *)
(***************************************************************************)
EXTENDS Integers, Sequences, FiniteSets, Selections

CONSTANTS
  Request,  \* requests, each made once
  Class,    \* classes of requests
  ClassOf,  \* the class of each request
  Permits   \* number of permits

VARIABLES
  phase,  \* idle, waiting, granted or over
  line    \* the waiting requests of every class, oldest first

Phases == {"idle", "waiting", "granted", "over"}

Holders == {r \in Request : phase[r] = "granted"}

Init ==
  /\ phase = [r \in Request |-> "idle"]
  /\ line = [c \in Class |-> << >>]

\* A request asks, is granted a permit, gives up, is refused or finishes.
Moves == {<<"idle", "waiting">>, <<"idle", "granted">>, <<"idle", "over">>,
          <<"waiting", "granted">>, <<"waiting", "over">>, <<"granted", "over">>}

Moved == {r \in Request : phase'[r] # phase[r]}

Arrived(c) == {r \in Moved : ClassOf[r] = c /\ phase[r] = "idle" /\ phase'[r] = "waiting"}

\* Those who still wait keep their places, an arrival joins at the end.
LineKept(c) ==
  LET kept == Only(line[c], {r \in Request : phase'[r] = "waiting"})
  IN  IF Arrived(c) = {} THEN line'[c] = kept
      ELSE \E r \in Arrived(c) : line'[c] = Append(kept, r)

\* Whoever is granted a permit leaves no older request of its class waiting.
InTurn(r) ==
  LET l == line[ClassOf[r]]
  IN  \A i \in 1..Len(l) :
        phase'[l[i]] = "waiting" => \E j \in 1..(i - 1) : l[j] = r

Step ==
  /\ phase' \in [Request -> Phases]
  /\ \A r \in Moved : <<phase[r], phase'[r]>> \in Moves
  /\ \A r, s \in Moved : phase[r] # "waiting" /\ phase[s] # "waiting" => r = s
  /\ Cardinality(Holders') <= Permits
  /\ \A r \in Holders' \ Holders : InTurn(r)
  /\ DOMAIN line' = Class
  /\ \A c \in Class : LineKept(c)

Spec == Init /\ [][Step]_<<phase, line>>

=============================================================================
