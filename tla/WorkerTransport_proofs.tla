----------------------- MODULE WorkerTransport_proofs -----------------------
(***************************************************************************)
(* Proofs about WorkerTransport, for any callers and any commands of       *)
(* theirs.                                                                 *)
(***************************************************************************)
EXTENDS WorkerTransport, TLAPS

-----------------------------------------------------------------------------
(* Types.                                                                   *)

Commands == {"start", "prepare", "generate", "health", "drain", "cancel", "stop"}

Sessions == [state : States, prepared : BOOLEAN]

Messages == Calls \X Commands

Lines == [id : Messages, accepted : BOOLEAN, state : States]

Spots == {"idle", "moving", "poll", "lock", "write", "read", "answered", "refused", "closing",
          "killing", "returned", "raised"}

\* Which commands a call sends.
Sends(c, m) ==
  CASE c = Loader -> m \in {"start", "prepare", "stop"}
    [] c \in Requests -> m \in {"generate", "health", "drain", "cancel"}
    [] c \in Stops -> m = "stop"

Exchange == {"poll", "lock", "write", "read"}

Types ==
  /\ lifecycle \in States /\ attached \in BOOLEAN /\ hung \in BOOLEAN
  /\ child \in {"absent", "running", "dead"}
  /\ session \in Sessions
  /\ inbox \in Seq(Messages) /\ outbox \in Seq(Lines)
  /\ lock \in Calls \cup {Nobody} /\ readers \in SUBSET Calls
  /\ pc \in [Calls -> Spots]
  /\ command \in [Calls -> Commands \cup {"none"}]
  /\ answer \in [Calls -> Lines \cup {<< >>}]
  /\ \A c \in Calls : pc[c] \in Exchange \cup {"answered"} => Sends(c, command[c])

-----------------------------------------------------------------------------
(* The inductive invariant.                                                 *)

\* The places where a call has the lock.
Locked == {"write", "read"}

\* The lock belongs to the call that writes its line or reads its answer.
OneReads == \A c \in Calls : pc[c] \in Locked <=> lock = c

\* There is no process beside the one the transport has, and a stopped worker has none;
\* nor has a worker that somebody has come back from stopping.
Accounted ==
  /\ child = "running" => attached
  /\ lifecycle = "stopped" => ~attached
  /\ \A c \in Stops : pc[c] = "returned" => ~attached

\* What the constructor does before anybody else can.
LoaderFirst ==
  /\ ~Built => \A c \in Requests \cup Stops : pc[c] = "idle"
  /\ pc[Loader] = "idle" => child = "absent"
  /\ child = "absent" => outbox = << >>
  /\ pc[Loader] \in Exchange /\ command[Loader] # "stop" => attached
  /\ pc[Loader] \in {"refused", "killing"} => attached

\* Only a request settles, and a request does not stop the worker.
Role(c, place) ==
  /\ place = "answered" => c \in Requests
  /\ place = "moving" => c \notin Requests

Roles == \A c \in Calls : Role(c, pc[c])

Prepared == session.prepared \/ child = "dead"

\* A child whose engine is said to be prepared has prepared it.
PreparedIsTrue ==
  /\ Built => Prepared
  /\ \A i \in 1..Len(outbox) : outbox[i].id[2] = "prepare" /\ outbox[i].accepted => Prepared

IInv ==
  Types /\ OneReads /\ Accounted /\ LoaderFirst /\ Roles /\ PreparedIsTrue /\ OwnAnswer

\* A failure does not undo a stop.
LEMMA FailureSound ==
  ASSUME lifecycle \in States
  PROVE  /\ Failed \in States
         /\ Failed = "stopped" <=> lifecycle = "stopped"
BY DEF States, Failed

\* A worker that is stopped does not drain.
LEMMA StoppedIsFinal ==
  ASSUME lifecycle = "stopped"
  PROVE  ~May("draining")
<1>1. Transitions.stopped = {}
  BY DEF Transitions
<1>2. Transitions[lifecycle] = {}
  BY <1>1
<1>. QED
  BY <1>2 DEF May

\* Where a round trip that raises goes.
LEMMA RaisedSound ==
  ASSUME NEW c \in Calls, Types, pc[c] \in Exchange
  PROVE  /\ Raised(c) \in {"closing", "killing", "raised"}
         /\ Raised(c) \in {"closing", "killing"} => command[c] \in {"start", "stop"}
         /\ Raised(c) = "killing" => c = Loader /\ command[c] # "stop"
BY WorkerAssumption DEF Types, Exchange, Sends, Raised, Calls

\* Where a call goes on once it has its answer.
LEMMA AcceptedSound ==
  ASSUME NEW c \in Calls, Types, pc[c] \in Exchange, NEW line \in Lines
  PROVE  LET place == Accepted(c, line)
         IN  /\ place \in {"answered", "closing", "poll", "killing", "returned", "refused"}
             /\ place = "answered" => c \in Requests /\ Sends(c, command[c])
             /\ place = "poll" => c = Loader /\ command[c] = "start"
             /\ place \in {"killing", "refused"} => c = Loader /\ command[c] # "stop"
             /\ place = "returned" => c = Loader /\ command[c] = "prepare" /\ line.accepted
<1>1. Sends(c, command[c])
  BY DEF Types
<1>2. CASE c = Loader
  BY <1>1, <1>2, WorkerAssumption DEF Sends, Accepted
<1>3. CASE c \in Requests
  BY <1>1, <1>3, WorkerAssumption DEF Sends, Accepted
<1>4. CASE c \in Stops
  BY <1>1, <1>4, WorkerAssumption DEF Sends, Accepted
<1>. QED
  BY <1>2, <1>3, <1>4 DEF Calls

\* How the child answers a command.
LEMMA HandledSound ==
  ASSUME NEW m \in Commands, session \in Sessions, NEW h \in Handled(m)
  PROVE  /\ h[1] \in Sessions /\ h[2] \in BOOLEAN
         /\ m # "stop" => (session.prepared => h[1].prepared)
         /\ m = "prepare" /\ h[2] => h[1].prepared
<1> DEFINE refused == <<session, FALSE>>
           ready == session.state = "ready"
           begun == [session EXCEPT !.state = "ready"]
           drained == [session EXCEPT !.state = "draining"]
           able == [session EXCEPT !.prepared = TRUE]
           ended == [state |-> "stopped", prepared |-> FALSE]
           alive == session.state # "stopped"
<1>1. /\ alive \in BOOLEAN
      /\ begun \in Sessions /\ drained \in Sessions /\ able \in Sessions /\ ended \in Sessions
      /\ begun.prepared = session.prepared /\ drained.prepared = session.prepared
      /\ able.prepared = TRUE
  BY DEF Sessions, States
<1>2. \/ m = "start" /\ h \in {<<begun, TRUE>>, refused}
      \/ m = "health" /\ h = <<session, alive>>
      \/ m = "prepare" /\ h \in {<<able, TRUE>>, refused}
      \/ m = "generate" /\ h \in {<<session, TRUE>>, refused}
      \/ m = "drain" /\ h \in {<<drained, TRUE>>, refused}
      \/ m = "cancel" /\ h = refused
      \/ m = "stop" /\ h = <<ended, TRUE>>
  BY DEF Handled, Commands
<1> HIDE DEF begun, drained, able, ended, alive
<1>3. PICK x \in Sessions, b \in BOOLEAN : h = <<x, b>>
  BY <1>1, <1>2
<1>4. h[1] = x /\ h[2] = b
  BY <1>3
<1>5. m # "stop" /\ session.prepared => x.prepared
  BY <1>1, <1>2, <1>3
<1>6. m = "prepare" /\ b => x.prepared
  BY <1>1, <1>2, <1>3
<1>. QED
  BY <1>4, <1>5, <1>6

-----------------------------------------------------------------------------
(* Steps.                                                                   *)

\* Nothing is promised of an engine that is not prepared.
Truthful(lines) ==
  \A i \in 1..Len(lines) : lines[i].id[2] = "prepare" /\ lines[i].accepted => Prepared

\* A step of call c, to place p, that leaves the process alone.
LEMMA CallKeeps ==
  ASSUME IInv, NEW c \in Calls, NEW p \in Spots \ {"idle"}, pc' = [pc EXCEPT ![c] = p],
         UNCHANGED <<child, session, attached>>,
         \* types
         lifecycle' \in States, hung' \in BOOLEAN, lock' \in Calls \cup {Nobody},
         inbox' \in Seq(Messages), outbox' \in Seq(Lines), readers' \in SUBSET Calls,
         answer' \in [Calls -> Lines \cup {<< >>}],
         command' \in [Calls -> Commands \cup {"none"}],
         \A d \in Calls \ {c} : command'[d] = command[d],
         p \in Exchange \cup {"answered"} => Sends(c, command'[c]),
         \* the rest
         p \in Locked <=> lock' = c, \A d \in Calls \ {c} : lock' = d <=> lock = d,
         lifecycle' = "stopped" => ~attached,
         child = "absent" => outbox' = << >>,
         Truthful(outbox'),
         OwnAnswer',
         c # Loader => Built,
         Role(c, p),
         c \in Stops /\ p = "returned" => ~attached,
         c = Loader => /\ ~Built
                       /\ p = "returned" => Prepared
                       /\ p \in Exchange /\ command'[c] # "stop" => attached
                       /\ p \in {"refused", "killing"} => attached
  PROVE  IInv'
<1>1. /\ pc \in [Calls -> Spots] /\ pc' \in [Calls -> Spots] /\ pc'[c] = p
      /\ \A d \in Calls \ {c} : pc'[d] = pc[d]
      /\ Loader \in Calls /\ Requests \cup Stops \subseteq Calls \ {Loader}
  BY WorkerAssumption DEF IInv, Types, Calls
<1>2. Prepared' <=> Prepared
  BY DEF Prepared
<1>3. Types'
  <2>1. ASSUME NEW d \in Calls, pc'[d] \in Exchange \cup {"answered"}
        PROVE  Sends(d, command'[d])
    BY <1>1, <2>1 DEF IInv, Types
  <2>2. \A d \in Calls : pc'[d] \in Exchange \cup {"answered"} => Sends(d, command[d])'
    BY <2>1 DEF Sends
  <2>. QED
    BY <1>1, <2>2 DEF IInv, Types
<1>4. OneReads'
  BY <1>1 DEF IInv, OneReads
<1>5. Accounted'
  BY <1>1 DEF IInv, Accounted
<1>6. LoaderFirst'
  <2>1. CASE c = Loader
    BY <1>1, <2>1 DEF IInv, LoaderFirst, Built
  <2>2. CASE c # Loader
    <3>1. pc[Loader] = "returned" /\ pc'[Loader] = "returned"
      BY <1>1, <2>2 DEF Built
    <3>. QED
      BY <3>1 DEF LoaderFirst, Built, Exchange
  <2>. QED
    BY <2>1, <2>2
<1>7. PreparedIsTrue'
  <2>1. Built' => Prepared
    BY <1>1 DEF IInv, PreparedIsTrue, Built
  <2>. QED
    BY <1>2, <2>1 DEF PreparedIsTrue, Truthful
<1>8. Roles'
  BY <1>1 DEF IInv, Roles, Role
<1>. QED
  BY <1>3, <1>4, <1>5, <1>6, <1>7, <1>8 DEF IInv

\* What the invariant says of a call that has begun.
LEMMA CallOf ==
  ASSUME IInv, NEW c \in Calls
  PROVE  /\ lifecycle \in States /\ attached \in BOOLEAN /\ hung \in BOOLEAN
         /\ lock \in Calls \cup {Nobody} /\ readers \in SUBSET Calls /\ Nobody \notin Calls
         /\ inbox \in Seq(Messages) /\ outbox \in Seq(Lines)
         /\ answer \in [Calls -> Lines \cup {<< >>}]
         /\ command \in [Calls -> Commands \cup {"none"}] /\ pc \in [Calls -> Spots]
         /\ pc[c] \in Exchange \cup {"answered"} => Sends(c, command[c])
         /\ pc[c] \in Locked <=> lock = c
         /\ child = "absent" => outbox = << >>
         /\ lifecycle = "stopped" => ~attached
         /\ Truthful(outbox) /\ OwnAnswer
         /\ c # Loader => pc[c] = "idle" \/ Built
         /\ Role(c, pc[c])
         /\ c = Loader => /\ pc[c] \in Exchange /\ command[c] # "stop" => attached
                          /\ pc[c] \in {"refused", "killing"} => attached
         /\ Built => Prepared
BY WorkerAssumption DEF IInv, Types, OneReads, Accounted, LoaderFirst, Roles, PreparedIsTrue,
   Truthful, Calls

LEMMA RequestKeeps ==
  ASSUME IInv, NEW c \in Calls, Request(c)
  PROVE  IInv'
<1> DEFINE p == IF Accepts(CommandOf[c]) THEN "poll" ELSE "raised"
<1>1. /\ c \in Requests /\ pc[c] = "idle" /\ Built /\ pc' = [pc EXCEPT ![c] = p]
      /\ command' = [command EXCEPT ![c] = CommandOf[c]]
      /\ UNCHANGED <<lifecycle, attached, lock, answer, worker, readers>>
  BY DEF Request, Go
<1>2. p \in Spots \ {"idle"} /\ p \notin Locked \cup {"returned"} /\ lock # c /\ Role(c, p)
  BY <1>1, CallOf DEF Spots, Locked, Role
<1>3. c # Loader /\ CommandOf[c] \in Commands /\ Sends(c, CommandOf[c])
  BY <1>1, WorkerAssumption DEF Sends, Commands
<1>4. /\ command' \in [Calls -> Commands \cup {"none"}] /\ command'[c] = CommandOf[c]
      /\ \A d \in Calls \ {c} : command'[d] = command[d]
  BY <1>1, <1>3, CallOf
<1> HIDE DEF p
<1>5. OwnAnswer'
  BY <1>1, CallOf DEF OwnAnswer
<1>. QED
  BY <1>1, <1>2, <1>3, <1>4, <1>5, CallOf, CallKeeps DEF worker

\* A thread of its own, or the constructor, ends with nothing to do or goes for a last
\* round trip.
LEMMA BeginStopKeeps ==
  ASSUME IInv, NEW c \in Calls, BeginStop(c), c \in Stops \/ c = Loader,
         pc[c] \in {"idle", "refused"}, c # Loader => Built,
         c = Loader => pc[c] = "refused",
         UNCHANGED <<attached, lock, answer, worker, readers>>
  PROVE  IInv'
<1> DEFINE p == pc'[c]
<1>1. /\ pc' = [pc EXCEPT ![c] = p]
      /\ p \in {"moving", "poll", "closing", "returned"}
      /\ p \in Exchange => command' = [command EXCEPT ![c] = "stop"]
      /\ p \notin Exchange => command' \in {command, [command EXCEPT ![c] = "stop"]}
      /\ lifecycle' \in {lifecycle, "stopping", "stopped"}
      /\ lifecycle' = "stopped" => ~attached
      /\ p = "returned" => lifecycle = "stopped" \/ ~attached
  <2>1. pc \in [Calls -> Spots] /\ (lifecycle = "stopped" => ~attached)
    BY CallOf
  <2>. QED
    BY <2>1 DEF BeginStop, AskToStop, Go, Exchange
<1>2. /\ p \in Spots \ {"idle"} /\ p \notin Locked \cup {"refused", "killing"}
      /\ lock # c /\ Role(c, p)
  BY <1>1, CallOf, WorkerAssumption DEF Spots, Locked, Role
<1>3. /\ command' \in [Calls -> Commands \cup {"none"}]
      /\ \A d \in Calls \ {c} : command'[d] = command[d]
      /\ p \in Exchange => command'[c] = "stop" /\ Sends(c, "stop")
  BY <1>1, CallOf, WorkerAssumption DEF Sends, Commands
<1>4. c = Loader => p \notin {"returned", "refused", "killing"} /\ ~Built
  BY <1>1, CallOf DEF Built
<1>5. lifecycle' \in States
  BY <1>1, CallOf DEF States
<1>6. (p = "returned" => ~attached) /\ p # "answered"
  BY <1>1, CallOf
<1>7. p \in Exchange \cup {"answered"} => Sends(c, command'[c])
  BY <1>3, <1>6
<1> HIDE DEF p
<1>8. OwnAnswer'
  BY CallOf DEF OwnAnswer
<1>. QED
  BY <1>1, <1>2, <1>3, <1>4, <1>5, <1>6, <1>7, <1>8, CallOf, CallKeeps DEF worker

LEMMA StopKeeps ==
  ASSUME IInv, NEW c \in Calls, Stop(c)
  PROVE  IInv'
BY BeginStopKeeps, WorkerAssumption DEF Stop

LEMMA GiveUpKeeps ==
  ASSUME IInv, GiveUp
  PROVE  IInv'
<1>1. Loader \in Calls
  BY DEF Calls
<1>. QED
  BY <1>1, BeginStopKeeps DEF GiveUp

LEMMA MoveKeeps ==
  ASSUME IInv, NEW c \in Calls, Move(c)
  PROVE  IInv'
<1> DEFINE p == pc'[c]
<1>1. /\ pc[c] = "moving" /\ pc' = [pc EXCEPT ![c] = p]
      /\ UNCHANGED <<attached, lock, answer, worker, readers>>
      /\ \/ p \in {"poll", "closing"} /\ command' = [command EXCEPT ![c] = "stop"]
         \/ p = "raised" /\ command' = command
      /\ lifecycle' \in {lifecycle, "stopping"}
  <2>1. pc \in [Calls -> Spots]
    BY CallOf
  <2>. QED
    BY <2>1 DEF Move, AskToStop, Go
<1>2. c \notin Requests /\ lock # c /\ (c # Loader => Built) /\ (c = Loader => ~Built)
  BY <1>1, CallOf DEF Role, Locked, Built
<1>3. p \in Spots \ {"idle"} /\ p \notin Locked \cup {"returned", "refused", "killing"} /\ Role(c, p)
  BY <1>1 DEF Spots, Locked, Role
<1>4. /\ command' \in [Calls -> Commands \cup {"none"}]
      /\ \A d \in Calls \ {c} : command'[d] = command[d]
      /\ p \in Exchange \cup {"answered"} => command'[c] = "stop" /\ Sends(c, "stop")
  BY <1>1, <1>2, CallOf, WorkerAssumption DEF Sends, Commands, Exchange, Calls
<1>5. lifecycle' \in States /\ (lifecycle' = "stopped" => ~attached)
  BY <1>1, CallOf DEF States
<1>6. OwnAnswer'
  BY <1>1, CallOf DEF OwnAnswer
<1> HIDE DEF p
<1>. QED
  BY <1>1, <1>2, <1>3, <1>4, <1>5, <1>6, CallOf, CallKeeps DEF worker

\* A round trip of c raises, and c has the lock no longer.
LEMMA RaisedKeeps ==
  ASSUME IInv, NEW c \in Calls, pc[c] \in Exchange, pc' = [pc EXCEPT ![c] = Raised(c)],
         lifecycle' \in {lifecycle, Failed}, lock' \in Calls \cup {Nobody}, lock' # c,
         \A d \in Calls \ {c} : lock' = d <=> lock = d,
         readers' \in SUBSET Calls, outbox' \in Seq(Lines), Truthful(outbox'),
         child = "absent" => outbox' = << >>,
         UNCHANGED <<attached, command, answer, child, session, hung, inbox>>
  PROVE  IInv'
<1> DEFINE p == Raised(c)
<1>1. /\ p \in {"closing", "killing", "raised"}
      /\ p = "killing" => c = Loader /\ command[c] # "stop"
  BY RaisedSound DEF IInv
<1>2. p \in Spots \ {"idle"} /\ p \notin Exchange \cup {"answered", "returned", "refused"}
  BY <1>1 DEF Spots, Exchange
<1>3. lifecycle' \in States /\ (lifecycle' = "stopped" => ~attached)
  BY FailureSound, CallOf
<1>4. c # Loader => Built
  BY CallOf DEF Exchange
<1>5. c = Loader => ~Built
  BY DEF Built, Exchange
<1>6. c = Loader /\ p = "killing" => attached
  BY <1>1, CallOf
<1>7. OwnAnswer'
  BY CallOf DEF OwnAnswer
<1> HIDE DEF p
<1>8. p \notin Locked /\ Role(c, p)
  BY <1>1, <1>2 DEF Exchange, Locked, Role
<1>. QED
  BY <1>2, <1>3, <1>4, <1>5, <1>6, <1>7, <1>8, CallOf, CallKeeps DEF p

LEMMA PollKeeps ==
  ASSUME IInv, NEW c \in Calls, Poll(c)
  PROVE  IInv'
<1>1. /\ pc[c] = "poll" /\ lock # c /\ lifecycle' \in {lifecycle, Failed}
      /\ UNCHANGED <<attached, lock, command, answer, worker, readers>>
  BY CallOf DEF Poll, Locked
<1>2. CASE pc' = [pc EXCEPT ![c] = Raised(c)]
  BY <1>1, <1>2, RaisedKeeps, CallOf DEF Exchange, worker
<1>3. CASE pc' = [pc EXCEPT ![c] = "lock"]
  <2>1. lifecycle' \in States /\ (lifecycle' = "stopped" => ~attached)
    BY <1>1, FailureSound, CallOf
  <2>2. /\ c # Loader => Built
        /\ c = Loader => ~Built /\ (command[c] # "stop" => attached)
        /\ Sends(c, command[c])
    BY <1>1, CallOf DEF Exchange, Built
  <2>3. OwnAnswer'
    BY <1>1, CallOf DEF OwnAnswer
  <2>4. "lock" \in Spots \ {"idle"} /\ "lock" \notin Locked /\ Role(c, "lock")
    BY DEF Spots, Locked, Role
  <2>. QED
    BY <1>1, <1>3, <2>1, <2>2, <2>3, <2>4, CallOf, CallKeeps DEF worker
<1>. QED
  BY <1>2, <1>3 DEF Poll, Go

LEMMA LockKeeps ==
  ASSUME IInv, NEW c \in Calls, Lock(c)
  PROVE  IInv'
<1>1. /\ pc[c] = "lock" /\ lock = Nobody /\ lock' = c /\ pc' = [pc EXCEPT ![c] = "write"]
      /\ UNCHANGED <<lifecycle, attached, command, answer, worker, readers>>
  BY DEF Lock, Go
<1>2. /\ c # Loader => Built
      /\ c = Loader => ~Built /\ (command[c] # "stop" => attached)
      /\ Sends(c, command[c])
  BY <1>1, CallOf DEF Exchange, Built
<1>3. OwnAnswer'
  BY <1>1, CallOf DEF OwnAnswer
<1>4. "write" \in Spots \ {"idle"} /\ "write" \in Locked /\ Role(c, "write")
  BY DEF Spots, Locked, Role
<1>5. \A d \in Calls \ {c} : lock' = d <=> lock = d
  BY <1>1, CallOf
<1>. QED
  BY <1>1, <1>2, <1>3, <1>4, <1>5, CallOf, CallKeeps DEF worker

LEMMA WriteKeeps ==
  ASSUME IInv, NEW c \in Calls, Write(c)
  PROVE  IInv'
<1>1. /\ pc[c] = "write" /\ lock = c
      /\ UNCHANGED <<lifecycle, attached, command, answer, child, session, hung, outbox>>
  BY CallOf DEF Write, Locked
<1>2. CASE /\ pc' = [pc EXCEPT ![c] = Raised(c)] /\ lock' = Nobody
           /\ UNCHANGED <<inbox, readers>>
  <2>1. lock' # c /\ \A d \in Calls \ {c} : lock' = d <=> lock = d
    BY <1>1, <1>2, CallOf
  <2>. QED
    BY <1>1, <1>2, <2>1, RaisedKeeps, CallOf DEF Exchange
<1>3. CASE /\ lock' = lock /\ inbox' = Append(inbox, <<c, command[c]>>)
           /\ readers' = readers \cup {c} /\ pc' = [pc EXCEPT ![c] = "read"]
  <2>1. /\ c # Loader => Built
        /\ c = Loader => ~Built /\ (command[c] # "stop" => attached)
        /\ Sends(c, command[c])
    BY <1>1, CallOf DEF Exchange, Built
  <2>2. command[c] \in Commands
    BY <2>1, WorkerAssumption DEF Sends, Commands, Calls
  <2>3. inbox' \in Seq(Messages)
    <3>1. <<c, command[c]>> \in Messages /\ inbox \in Seq(Messages)
      BY <2>2, CallOf DEF Messages
    <3>. QED
      BY <1>3, <3>1
  <2>4. OwnAnswer'
    BY <1>1, CallOf DEF OwnAnswer
  <2>5. /\ "read" \in Spots \ {"idle"} /\ "read" \in Locked /\ Role(c, "read")
        /\ readers' \in SUBSET Calls
    BY <1>3, CallOf DEF Spots, Locked, Role
  <2>. QED
    BY <1>1, <1>3, <2>1, <2>3, <2>4, <2>5, CallOf, CallKeeps
<1>. QED
  BY <1>2, <1>3 DEF Write, Go

LEMMA TimeOutKeeps ==
  ASSUME IInv, NEW c \in Calls, TimeOut(c)
  PROVE  IInv'
<1>1. /\ pc[c] = "read" /\ lock = c /\ lock' = Nobody /\ lifecycle' = Failed
      /\ pc' = [pc EXCEPT ![c] = Raised(c)]
      /\ UNCHANGED <<attached, command, answer, worker, readers>>
  BY CallOf DEF TimeOut, Go, Locked
<1>2. \A d \in Calls \ {c} : lock' = d <=> lock = d
  BY <1>1, CallOf
<1>. QED
  BY <1>1, <1>2, RaisedKeeps, CallOf DEF Exchange, worker

\* A step of nobody: the process and its lines may change, but for what they say.
LEMMA ProcessKeeps ==
  ASSUME IInv, UNCHANGED owner,
         child' \in {child, "dead"}, child = "absent" => child' = "absent" /\ outbox' = << >>,
         session' \in Sessions, hung' \in BOOLEAN,
         inbox' \in Seq(Messages), outbox' \in Seq(Lines), readers' \in SUBSET Calls,
         Prepared => Prepared', Truthful(outbox)'
  PROVE  IInv'
<1>1. UNCHANGED <<lifecycle, attached, lock, pc, command, answer>>
  BY DEF owner
<1>2. child' \in {"absent", "running", "dead"} /\ (child' = "running" => child = "running")
      /\ (child' = "absent" => child = "absent")
  BY DEF IInv, Types
<1>3. Types'
  <2>1. \A c \in Calls : pc'[c] \in Exchange \cup {"answered"} => Sends(c, command[c])'
    BY <1>1 DEF IInv, Types, Sends
  <2>. QED
    BY <1>1, <1>2, <2>1 DEF IInv, Types
<1>4. OneReads' /\ Accounted' /\ LoaderFirst' /\ Roles'
  BY <1>1, <1>2 DEF IInv, OneReads, Accounted, LoaderFirst, Roles, Built, Exchange
<1>5. OwnAnswer'
  BY <1>1 DEF IInv, OwnAnswer
<1>6. PreparedIsTrue'
  BY <1>1 DEF IInv, PreparedIsTrue, Truthful, Built
<1>. QED
  BY <1>3, <1>4, <1>5, <1>6 DEF IInv

\* Lines that stay as they are.
LEMMA LinesOf ==
  ASSUME IInv
  PROVE  /\ session \in Sessions /\ hung \in BOOLEAN /\ Truthful(outbox)
         /\ inbox \in Seq(Messages) /\ outbox \in Seq(Lines) /\ readers \in SUBSET Calls
         /\ child = "absent" => outbox = << >>
BY DEF IInv, Types, LoaderFirst, PreparedIsTrue, Truthful

LEMMA ReadNothingKeeps ==
  ASSUME IInv, NEW c \in Calls, ReadNothing(c)
  PROVE  IInv'
<1>1. /\ readers' = readers \ {c} /\ UNCHANGED <<attached, command, answer, worker>>
  BY DEF ReadNothing
<1>2. CASE pc[c] # "read"
  <2>1. UNCHANGED owner
    BY <1>1, <1>2 DEF ReadNothing, owner
  <2>2. session \in Sessions /\ readers' \in SUBSET Calls
    BY <1>1 DEF IInv, Types
  <2>3. (Prepared' <=> Prepared) /\ Truthful(outbox)'
    BY <1>1, LinesOf DEF worker, Prepared, Truthful
  <2>. QED
    BY <1>1, <2>1, <2>2, <2>3, ProcessKeeps, LinesOf DEF worker
<1>3. CASE pc[c] = "read"
  <2>1. /\ lifecycle' = Failed /\ lock = c /\ lock' = Nobody
        /\ pc' = [pc EXCEPT ![c] = Raised(c)] /\ readers' \in SUBSET Calls
    BY <1>1, <1>3, CallOf DEF ReadNothing, Go, Locked
  <2>2. \A d \in Calls \ {c} : lock' = d <=> lock = d
    BY <2>1, CallOf
  <2>. QED
    BY <1>1, <1>3, <2>1, <2>2, RaisedKeeps, CallOf DEF Exchange, worker
<1>. QED
  BY <1>2, <1>3

LEMMA SettleKeeps ==
  ASSUME IInv, NEW c \in Calls, Settle(c)
  PROVE  IInv'
<1> DEFINE p == pc'[c]
<1>1. /\ pc[c] = "answered" /\ pc' = [pc EXCEPT ![c] = p] /\ p \in {"returned", "raised"}
      /\ lifecycle' = lifecycle \/ (lifecycle' = "draining" /\ May("draining"))
      /\ UNCHANGED <<attached, lock, command, answer, worker, readers>>
  <2>1. pc \in [Calls -> Spots]
    BY CallOf
  <2>. QED
    BY <2>1 DEF Settle, Go
<1>2. c \in Requests /\ c \notin Stops \cup {Loader} /\ Built /\ lock # c
  BY <1>1, CallOf, WorkerAssumption DEF Role, Locked
<1>3. lifecycle' \in States /\ (lifecycle' = "stopped" => ~attached)
  BY <1>1, CallOf DEF States
<1>4. p \in Spots \ {"idle"} /\ p \notin Exchange \cup Locked \cup {"answered"} /\ Role(c, p)
  BY <1>1 DEF Spots, Exchange, Locked, Role
<1>5. OwnAnswer'
  BY <1>1, CallOf DEF OwnAnswer
<1> HIDE DEF p
<1>. QED
  BY <1>1, <1>2, <1>3, <1>4, <1>5, CallOf, CallKeeps DEF worker

\* The line that is read, and what is left.
LEMMA HeadSound ==
  ASSUME IInv, outbox # << >>
  PROVE  /\ Head(outbox) \in Lines /\ Tail(outbox) \in Seq(Lines)
         /\ Head(outbox).id[2] = "prepare" /\ Head(outbox).accepted => Prepared
         /\ Truthful(Tail(outbox))
         /\ child # "absent"
<1>1. outbox \in Seq(Lines) /\ Truthful(outbox) /\ (child = "absent" => outbox = << >>)
  BY LinesOf
<1>2. Len(outbox) \in Nat /\ Len(outbox) >= 1 /\ Head(outbox) = outbox[1]
  BY <1>1
<1>3. /\ Len(Tail(outbox)) = Len(outbox) - 1
      /\ \A i \in 1..(Len(outbox) - 1) : Tail(outbox)[i] = outbox[i + 1]
  BY <1>1
<1>4. ASSUME NEW i \in 1..Len(Tail(outbox)), Tail(outbox)[i].id[2] = "prepare",
             Tail(outbox)[i].accepted
      PROVE  Prepared
  <2>1. i + 1 \in 1..Len(outbox) /\ Tail(outbox)[i] = outbox[i + 1]
    BY <1>2, <1>3
  <2>. QED
    BY <1>1, <1>4, <2>1 DEF Truthful
<1>. QED
  BY <1>1, <1>2, <1>4 DEF Truthful

LEMMA ReceiveKeeps ==
  ASSUME IInv, NEW c \in Calls, Receive(c)
  PROVE  IInv'
<1> DEFINE line == Head(outbox)
           p == Accepted(c, line)
<1>1. /\ outbox # << >> /\ outbox' = Tail(outbox) /\ readers' = readers \ {c}
      /\ UNCHANGED <<child, session, hung, inbox>>
  BY DEF Receive
<1>2. /\ line \in Lines /\ outbox' \in Seq(Lines) /\ Truthful(outbox') /\ child # "absent"
      /\ readers' \in SUBSET Calls
      /\ line.id[2] = "prepare" /\ line.accepted => Prepared
  BY <1>1, HeadSound, LinesOf
<1>3. CASE pc[c] # "read"
  <2>1. UNCHANGED owner
    BY <1>3 DEF Receive
  <2>2. (Prepared' <=> Prepared) /\ Truthful(outbox)'
    BY <1>1, <1>2 DEF Prepared, Truthful
  <2>. QED
    BY <1>1, <1>2, <2>1, <2>2, ProcessKeeps, LinesOf
<1>4. CASE pc[c] = "read" /\ ~Matches(c, line)
  <2>1. /\ lifecycle' = Failed /\ lock = c /\ lock' = Nobody
        /\ pc' = [pc EXCEPT ![c] = Raised(c)] /\ UNCHANGED <<attached, command, answer>>
    BY <1>4, CallOf DEF Receive, Go, Locked
  <2>2. \A d \in Calls \ {c} : lock' = d <=> lock = d
    BY <2>1, CallOf
  <2>. QED
    BY <1>1, <1>2, <1>4, <2>1, <2>2, RaisedKeeps, CallOf DEF Exchange
<1>5. CASE pc[c] = "read" /\ Matches(c, line)
  <2>1. /\ lock = c /\ lock' = Nobody /\ answer' = [answer EXCEPT ![c] = line]
        /\ pc' = [pc EXCEPT ![c] = p] /\ UNCHANGED attached
        /\ lifecycle' \in {lifecycle, "ready", "failed"}
        /\ command' = IF command[c] = "start" /\ p = "poll"
                      THEN [command EXCEPT ![c] = "prepare"] ELSE command
    BY <1>5, CallOf DEF Receive, Go, Locked
  <2>2. /\ p \in {"answered", "closing", "poll", "killing", "returned", "refused"}
        /\ p = "answered" => c \in Requests /\ Sends(c, command[c])
        /\ p = "poll" => c = Loader /\ command[c] = "start"
        /\ p \in {"killing", "refused"} => c = Loader /\ command[c] # "stop"
        /\ p = "returned" => c = Loader /\ command[c] = "prepare" /\ line.accepted
    BY <1>2, <1>5, AcceptedSound DEF IInv, Exchange
  <2>3. line.id = <<c, command[c]>>
    BY <1>5 DEF Matches
  <2> HIDE DEF line, p
  <2>4. p = "returned" => Prepared
    BY <1>2, <2>2, <2>3
  <2>5. OwnAnswer' /\ answer' \in [Calls -> Lines \cup {<< >>}]
    <3>1. answer \in [Calls -> Lines \cup {<< >>}] /\ OwnAnswer
      BY CallOf
    <3>2. line.id[1] = c
      BY <2>3
    <3>. QED
      BY <1>2, <2>1, <3>1, <3>2 DEF OwnAnswer
  <2>6. /\ command' \in [Calls -> Commands \cup {"none"}]
        /\ \A d \in Calls \ {c} : command'[d] = command[d]
        /\ p = "answered" => Sends(c, command'[c])
        /\ p = "poll" => Sends(c, command'[c])
    <3>1. command \in [Calls -> Commands \cup {"none"}]
      BY CallOf
    <3>2. "prepare" \in Commands /\ (c = Loader => Sends(c, "prepare"))
      BY WorkerAssumption DEF Commands, Sends
    <3>3. CASE command[c] = "start" /\ p = "poll"
      BY <2>1, <2>2, <3>1, <3>2, <3>3
    <3>4. CASE ~(command[c] = "start" /\ p = "poll")
      BY <2>1, <2>2, <3>1, <3>4
    <3>. QED
      BY <3>3, <3>4
  <2>7. /\ c # Loader => Built
        /\ c = Loader => ~Built
        /\ c \in Stops => p # "returned"
        /\ c = Loader /\ command[c] # "stop" => attached
    BY <1>5, <2>2, CallOf, WorkerAssumption DEF Exchange, Built
  <2>8. lifecycle' \in States /\ (lifecycle' = "stopped" => ~attached)
    BY <2>1, CallOf DEF States
  <2>9. p \in Spots \ {"idle"} /\ (p \in Exchange => p = "poll") /\ p \notin Locked /\ Role(c, p)
    BY <2>2 DEF Spots, Exchange, Locked, Role
  <2>10. \A d \in Calls \ {c} : lock' = d <=> lock = d
    BY <2>1, CallOf
  <2>11. lock' # c /\ lock' \in Calls \cup {Nobody}
    BY <2>1, CallOf
  <2>12. c = Loader => /\ p \in Exchange => attached
                       /\ p \in {"refused", "killing"} => attached
    BY <2>2, <2>7, <2>9
  <2>. QED
    BY <1>1, <1>2, <2>1, <2>4, <2>5, <2>6, <2>7, <2>8, <2>9, <2>10, <2>11, <2>12, LinesOf, CallKeeps
<1>. QED
  BY <1>3, <1>4, <1>5

\* A step of c that ends what process there is.
LEMMA EndKeeps ==
  ASSUME IInv, NEW c \in Calls, NEW p \in {"raised", "returned"},
         pc' = [pc EXCEPT ![c] = p],
         pc[c] \in {"closing", "killing"}, c = Loader => p = "raised",
         attached' = FALSE, child' # "running",
         child' \in {child, "dead"}, lifecycle' \in States,
         UNCHANGED <<lock, command, answer, session, hung, inbox, outbox, readers>>
  PROVE  IInv'
<1>1. /\ pc \in [Calls -> Spots] /\ pc' \in [Calls -> Spots] /\ pc'[c] = p
      /\ \A d \in Calls \ {c} : pc'[d] = pc[d]
      /\ Loader \in Calls /\ Requests \cup Stops \subseteq Calls \ {Loader}
  BY WorkerAssumption DEF IInv, Types, Calls, Spots
<1>2. child' \in {"absent", "dead"} /\ (child' = "absent" => child = "absent")
  BY DEF IInv, Types
<1>3. Types'
  <2>1. ASSUME NEW d \in Calls, pc'[d] \in Exchange \cup {"answered"}
        PROVE  Sends(d, command'[d])
    BY <1>1, <2>1 DEF IInv, Types, Exchange
  <2>2. \A d \in Calls : pc'[d] \in Exchange \cup {"answered"} => Sends(d, command[d])'
    BY <2>1 DEF Sends
  <2>. QED
    BY <1>1, <1>2, <2>2 DEF IInv, Types
<1>4. OneReads' /\ Roles'
  BY <1>1 DEF IInv, OneReads, Locked, Roles, Role
<1>5. Accounted'
  BY DEF Accounted
<1>6. LoaderFirst'
  <2>1. CASE c = Loader
    BY <1>1, <1>2, <2>1 DEF IInv, LoaderFirst, Built, Exchange
  <2>2. CASE c # Loader
    <3>1. pc[Loader] = "returned" /\ pc'[Loader] = "returned"
      BY <1>1, <2>2, CallOf DEF Built
    <3>. QED
      BY <1>2, <3>1 DEF IInv, LoaderFirst, Built, Exchange
  <2>. QED
    BY <2>1, <2>2
<1>7. PreparedIsTrue'
  <2>1. Built' => Built
    BY <1>1 DEF Built
  <2>2. Prepared => Prepared'
    BY DEF Prepared
  <2>. QED
    BY <2>1, <2>2 DEF IInv, PreparedIsTrue
<1>8. OwnAnswer'
  BY DEF IInv, OwnAnswer
<1>. QED
  BY <1>3, <1>4, <1>5, <1>6, <1>7, <1>8 DEF IInv

\* A child that was terminated does not run.
LEMMA TerminatedSound ==
  ASSUME IInv
  PROVE  Terminated \in {child, "dead"} /\ Terminated # "running"
BY DEF Terminated

\* A child that outlives both signals leaves the invariant to the next who stops it.
LEMMA OutlivedKeeps ==
  ASSUME IInv, NEW c \in Calls, Outlived(c), pc[c] \in {"closing", "killing"},
         lifecycle' \in {lifecycle, Failed},
         UNCHANGED <<lock, command, answer, session, inbox, outbox, readers>>
  PROVE  IInv'
<1>1. /\ pc' = [pc EXCEPT ![c] = "raised"] /\ hung' = TRUE
      /\ UNCHANGED <<child, attached>>
  BY DEF Outlived, Go
<1>2. /\ "raised" \in Spots \ {"idle"} /\ "raised" \notin Exchange \cup Locked \cup {"answered"}
      /\ Role(c, "raised") /\ lock # c /\ (c # Loader => Built) /\ (c = Loader => ~Built)
  BY CallOf DEF Spots, Exchange, Locked, Role, Built
<1>3. lifecycle' \in States /\ (lifecycle' = "stopped" => ~attached)
  BY CallOf, FailureSound
<1>4. OwnAnswer'
  BY CallOf DEF OwnAnswer
<1>. QED
  BY <1>1, <1>2, <1>3, <1>4, CallOf, CallKeeps

LEMMA CloseKeeps ==
  ASSUME IInv, NEW c \in Calls, Close(c)
  PROVE  IInv'
<1> DEFINE p == IF c = Loader THEN "raised" ELSE "returned"
<1>1. /\ pc[c] = "closing"
      /\ UNCHANGED <<lock, command, answer, session, inbox, outbox, readers>>
  BY DEF Close
<1>2. CASE Outlived(c) /\ UNCHANGED lifecycle
  BY <1>1, <1>2, OutlivedKeeps
<1>3. CASE /\ attached' = FALSE /\ pc' = [pc EXCEPT ![c] = p] /\ UNCHANGED hung
           /\ child' = (IF attached THEN Terminated ELSE child)
           /\ lifecycle' \in {lifecycle, "stopped"}
  <2>1. child' # "running" /\ child' \in {child, "dead"}
    BY <1>3, TerminatedSound DEF IInv, Accounted
  <2>2. lifecycle' \in States
    BY <1>3, CallOf DEF States
  <2>. QED
    BY <1>1, <1>3, <2>1, <2>2, EndKeeps
<1>. QED
  BY <1>2, <1>3 DEF Close, Go

LEMMA KillKeeps ==
  ASSUME IInv, Kill
  PROVE  IInv'
<1>1. /\ pc[Loader] = "killing" /\ lifecycle' = Failed
      /\ UNCHANGED <<lock, command, answer, session, inbox, outbox, readers>>
      /\ Loader \in Calls
  BY DEF Kill, Calls
<1>2. CASE Outlived(Loader)
  BY <1>1, <1>2, OutlivedKeeps
<1>3. CASE /\ attached' = FALSE /\ pc' = [pc EXCEPT ![Loader] = "raised"] /\ UNCHANGED hung
           /\ child' = Terminated
  <2>1. lifecycle' \in States
    BY <1>1, CallOf, FailureSound
  <2>. QED
    BY <1>1, <1>3, <2>1, TerminatedSound, EndKeeps
<1>. QED
  BY <1>2, <1>3 DEF Kill, Go

LEMMA StartKeeps ==
  ASSUME IInv, Start
  PROVE  IInv'
<1>1. /\ pc[Loader] = "idle" /\ lifecycle = "new" /\ child = "absent"
      /\ command' = [command EXCEPT ![Loader] = "start"]
      /\ UNCHANGED <<session, hung, inbox, outbox, lock, readers, answer>>
      /\ Loader \in Calls
  BY DEF Start, Accepts, IInv, LoaderFirst, Calls
<1>2. /\ command' \in [Calls -> Commands \cup {"none"}] /\ command'[Loader] = "start"
      /\ \A d \in Calls \ {Loader} : command'[d] = command[d]
      /\ Sends(Loader, "start")
  BY <1>1, CallOf, WorkerAssumption DEF Commands, Sends
<1>3. CASE /\ child' = "running" /\ attached' = TRUE /\ lifecycle' = "starting"
           /\ pc' = [pc EXCEPT ![Loader] = "poll"]
  <2>1. /\ pc \in [Calls -> Spots] /\ pc' \in [Calls -> Spots] /\ pc'[Loader] = "poll"
        /\ \A d \in Calls \ {Loader} : pc'[d] = pc[d]
    BY <1>1, <1>3 DEF IInv, Types, Spots
  <2>2. Types'
    <3>1. \A d \in Calls : pc'[d] \in Exchange \cup {"answered"} => Sends(d, command'[d])
      BY <1>2, <2>1 DEF IInv, Types
    <3>2. \A d \in Calls : pc'[d] \in Exchange \cup {"answered"} => Sends(d, command[d])'
      BY <3>1 DEF Sends
    <3>. QED
      BY <1>1, <1>2, <1>3, <2>1, <3>2 DEF IInv, Types, States
  <2>3. OneReads' /\ Roles'
    BY <1>1, <2>1 DEF IInv, OneReads, Locked, Roles, Role
  <2>4. \A d \in Requests \cup Stops : d \in Calls \ {Loader} /\ pc[d] = "idle"
    BY <1>1, WorkerAssumption DEF IInv, LoaderFirst, Built, Calls
  <2>5. Accounted' /\ LoaderFirst'
    BY <1>3, <2>1, <2>4 DEF Accounted, LoaderFirst
  <2>6. PreparedIsTrue'
    <3>1. outbox' = << >> /\ ~Built'
      BY <1>1, <2>1 DEF IInv, LoaderFirst, Built
    <3>. QED
      BY <3>1 DEF PreparedIsTrue
  <2>7. OwnAnswer'
    BY <1>1 DEF IInv, OwnAnswer
  <2>. QED
    BY <2>2, <2>3, <2>5, <2>6, <2>7 DEF IInv
<1>4. CASE /\ lifecycle' = "failed" /\ pc' = [pc EXCEPT ![Loader] = "raised"]
           /\ UNCHANGED <<child, attached>>
  <2>1. "raised" \in Spots \ {"idle"} /\ "failed" \in States
        /\ "raised" \notin Exchange \cup Locked \cup {"answered"} /\ Role(Loader, "raised")
    BY DEF Spots, States, Exchange, Locked, Role
  <2>2. ~Built /\ lock # Loader
    BY <1>1, CallOf DEF Built, Locked
  <2>3. OwnAnswer'
    BY <1>1, CallOf DEF OwnAnswer
  <2>. QED
    BY <1>1, <1>2, <1>4, WorkerAssumption, <2>1, <2>2, <2>3, CallOf, CallKeeps
<1>. QED
  BY <1>3, <1>4 DEF Start, Go

LEMMA WorkKeeps ==
  ASSUME IInv, Work
  PROVE  IInv'
<1> DEFINE m == Head(inbox)
<1>1. /\ child = "running" /\ inbox # << >> /\ inbox' = Tail(inbox)
      /\ UNCHANGED <<owner, hung, readers>>
  BY DEF Work
<1>2. PICK h \in Handled(m[2]) :
         /\ session' = h[1]
         /\ outbox' = Append(outbox, [id |-> m, accepted |-> h[2], state |-> h[1].state])
         /\ child' = IF m[2] = "stop" THEN "dead" ELSE "running"
  BY DEF Work
<1>3. m \in Messages /\ m[2] \in Commands /\ Tail(inbox) \in Seq(Messages)
  BY <1>1, LinesOf DEF Messages
<1> HIDE DEF m
<1>4. /\ h[1] \in Sessions /\ h[2] \in BOOLEAN
      /\ m[2] # "stop" => (session.prepared => h[1].prepared)
      /\ m[2] = "prepare" /\ h[2] => h[1].prepared
  BY <1>2, <1>3, LinesOf, HandledSound
<1> DEFINE line == [id |-> m, accepted |-> h[2], state |-> h[1].state]
<1>5. line \in Lines /\ line.id = m /\ line.accepted = h[2]
  BY <1>3, <1>4 DEF Lines, Sessions
<1>6. outbox' = Append(outbox, line)
  BY <1>2
<1> HIDE DEF line
<1>7. outbox \in Seq(Lines) /\ outbox' \in Seq(Lines)
  BY <1>5, <1>6, LinesOf
<1>8. Prepared => Prepared'
  BY <1>1, <1>2, <1>4 DEF Prepared
<1>9. Truthful(outbox)'
  <2>1. /\ Len(outbox) \in Nat /\ Len(outbox') = Len(outbox) + 1
        /\ outbox'[Len(outbox) + 1] = line
        /\ \A i \in 1..Len(outbox) : outbox'[i] = outbox[i]
    BY <1>5, <1>6, <1>7
  <2>2. ASSUME NEW i \in 1..Len(outbox'), outbox'[i].id[2] = "prepare", outbox'[i].accepted
        PROVE  Prepared'
    <3>1. CASE i \in 1..Len(outbox)
      <4>1. outbox[i].id[2] = "prepare" /\ outbox[i].accepted
        BY <2>1, <2>2, <3>1
      <4>. QED
        BY <1>8, <3>1, <4>1, LinesOf DEF Truthful
    <3>2. CASE i = Len(outbox) + 1
      <4>1. m[2] = "prepare" /\ h[2]
        BY <1>5, <2>1, <2>2, <3>2
      <4>. QED
        BY <1>2, <1>4, <4>1 DEF Prepared
    <3>. QED
      BY <2>1, <3>1, <3>2
  <2>. QED
    BY <2>2 DEF Truthful
<1>10. child' \in {child, "dead"}
  BY <1>1, <1>2
<1>. QED
  BY <1>1, <1>2, <1>3, <1>4, <1>7, <1>8, <1>9, <1>10, LinesOf, ProcessKeeps

\* A child that hangs or dies, or loses its input, preserves the invariant.
LEMMA FailuresKeep ==
  ASSUME IInv, Hang \/ Crash \/ Collect
  PROVE  IInv'
<1>1. /\ UNCHANGED <<owner, session, inbox, outbox, readers>>
      /\ child = "running" /\ child' \in {child, "dead"} /\ hung' \in {hung, TRUE}
  BY DEF Hang, Crash, Collect
<1>2. (Prepared => Prepared') /\ Truthful(outbox)'
  BY <1>1, LinesOf DEF Prepared, Truthful
<1>. QED
  BY <1>1, <1>2, LinesOf, ProcessKeeps

-----------------------------------------------------------------------------
(* The theorems.                                                            *)

\* Initially there is no child.
LEMMA InitHolds ==
  ASSUME Init
  PROVE  IInv
<1>1. Types
  <2>1. session \in Sessions
    BY DEF Init, Sessions, States
  <2>2. pc \in [Calls -> Spots] /\ command \in [Calls -> Commands \cup {"none"}]
        /\ answer \in [Calls -> Lines \cup {<< >>}]
    BY DEF Init, Spots
  <2>3. /\ lifecycle \in States /\ attached \in BOOLEAN /\ hung \in BOOLEAN
        /\ child \in {"absent", "running", "dead"}
    BY DEF Init, States
  <2>4. inbox \in Seq(Messages) /\ outbox \in Seq(Lines) /\ lock \in Calls \cup {Nobody}
        /\ readers \in SUBSET Calls
    BY DEF Init
  <2>5. \A c \in Calls : pc[c] \notin Exchange \cup {"answered"}
    BY DEF Init, Exchange
  <2>. QED
    BY <2>1, <2>2, <2>3, <2>4, <2>5 DEF Types
<1>2. OneReads /\ Accounted /\ LoaderFirst /\ Roles /\ PreparedIsTrue /\ OwnAnswer
  BY WorkerAssumption DEF Init, OneReads, Accounted, LoaderFirst, Built, Calls, PreparedIsTrue,
     OwnAnswer, Exchange, Locked, Roles, Role
<1>. QED
  BY <1>1, <1>2 DEF IInv

\* Every step preserves the invariant.
LEMMA NextKeeps ==
  ASSUME IInv, [Next]_vars
  PROVE  IInv'
<1>1. CASE UNCHANGED vars
  <2>1. /\ UNCHANGED <<owner, child, session, hung, inbox, outbox, readers>>
    BY <1>1 DEF vars, worker
  <2>2. (Prepared => Prepared') /\ Truthful(outbox)'
    BY <2>1, LinesOf DEF Prepared, Truthful
  <2>. QED
    BY <2>1, <2>2, LinesOf, ProcessKeeps
<1>2. ASSUME NEW c \in Calls, Request(c) \/ Stop(c) \/ Step(c)
      PROVE  IInv'
  BY <1>2, RequestKeeps, StopKeeps, MoveKeeps, PollKeeps, LockKeeps, WriteKeeps, ReceiveKeeps, ReadNothingKeeps,
     TimeOutKeeps, SettleKeeps, CloseKeeps DEF Step
<1>. QED
  BY <1>1, <1>2, StartKeeps, GiveUpKeeps, KillKeeps, WorkKeeps, FailuresKeep DEF Next

\* In every reachable state one call at most reads, there is no process but that of the
\* transport, nobody precedes the constructor, and what the child says of its engine is
\* true.
THEOREM InvariantHolds == Spec => []IInv
BY InitHolds, NextKeeps, PTL DEF Spec

\* Every variable keeps the type the source declares for it.
THEOREM TypeCorrect == Spec => []TypeOK
<1>1. ASSUME IInv
      PROVE  TypeOK
  BY <1>1 DEF IInv, Types, TypeOK, Sessions, Spots
<1>. QED
  BY <1>1, InvariantHolds, PTL

\* A round trip never returns the answer to another call, however many of them have
\* timed out and left their readers and answers behind.
THEOREM AnswersAreOwn == Spec => []OwnAnswer
<1>1. IInv => OwnAnswer
  BY DEF IInv
<1>. QED
  BY <1>1, InvariantHolds, PTL

\* A worker that is stopped has no process, nor has one that some thread has come back
\* from stopping, however many stop it at once; and an engine whose constructor has
\* returned and whose transport is not known to have failed is one that the child has
\* prepared.
THEOREM LifecycleHolds == Spec => []LifecycleIsTrue
<1>1. ASSUME IInv
      PROVE  LifecycleIsTrue
  BY <1>1 DEF IInv, Accounted, PreparedIsTrue, Prepared, LifecycleIsTrue
<1>. QED
  BY <1>1, InvariantHolds, PTL

\* Nobody writes or reads while another call is between its line and the answer to it.
OneAtATime == \A c, d \in Calls : pc[c] \in Locked /\ pc[d] \in Locked => c = d

\* _io_lock makes round trips exclusive, also when they wait for the pipe, time out, raise
\* or find the pipe broken.
THEOREM RoundTripsAreExclusive == Spec => []OneAtATime
<1>1. ASSUME IInv
      PROVE  OneAtATime
  BY <1>1 DEF IInv, OneReads, OneAtATime
<1>. QED
  BY <1>1, InvariantHolds, PTL

=============================================================================
