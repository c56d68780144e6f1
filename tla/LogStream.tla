------------------------------ MODULE LogStream ------------------------------
(***************************************************************************)
(* The live log of the admin API: LogStreamBuffer of server.py keeps the    *)
(* last lines and feeds one bounded queue per listener; the route reads its *)
(* queue until the client is gone or the application shuts down.            *)
(***************************************************************************)
EXTENDS Integers, Sequences, SequencesExt, FiniteSets

CONSTANTS
    Listeners,
    Limit,      \* lines the buffer keeps
    QueueSize,  \* capacity of a listener's queue
    MaxLines    \* bound: lines written

VARIABLES
    buffer, lines,
    listeners,  \* the registered ones
    queue,      \* queue[l]
    stream,     \* stream[l]: "none", "open", "closed" or "broken"
    read,       \* lines that stream l has sent
    overflow,   \* listeners that have missed a line
    shutdown

vars == <<buffer, lines, listeners, queue, stream, read, overflow, shutdown>>

Init ==
    /\ buffer = <<>> /\ lines = 0 /\ listeners = {} /\ overflow = {} /\ shutdown = FALSE
    /\ queue = [l \in Listeners |-> <<>>]
    /\ stream = [l \in Listeners |-> "none"]
    /\ read = [l \in Listeners |-> <<>>]

\* deque(maxlen = Limit)
Kept(s) == IF Len(s) > Limit THEN Tail(s) ELSE s

Full(l) == Len(queue[l]) >= QueueSize

\* A line: closed listeners are forgotten, and a full queue misses it.
Write ==
    /\ lines < MaxLines
    /\ lines' = lines + 1
    /\ buffer' = Kept(Append(buffer, lines'))
    /\ listeners' = {l \in listeners : stream[l] = "open"}
    /\ queue' = [l \in Listeners |-> IF l \in listeners' /\ ~Full(l)
                                     THEN Append(queue[l], lines') ELSE queue[l]]
    /\ overflow' = overflow \cup {l \in listeners' : Full(l)}
    /\ UNCHANGED <<stream, read, shutdown>>

\* Mutant of Subscribe: the listener has what was kept, and is not registered.
SubscribeBare(l) ==
    /\ stream[l] = "none"
    /\ queue' = [queue EXCEPT ![l] = buffer]
    /\ stream' = [stream EXCEPT ![l] = "open"]
    /\ UNCHANGED <<buffer, lines, listeners, read, overflow, shutdown>>

\* add_listener under the lock: put_nowait of every kept line, which raises when
\* they are more than the queue holds.
Subscribe(l) ==
    /\ stream[l] = "none"
    /\ IF Len(buffer) > QueueSize
       THEN /\ stream' = [stream EXCEPT ![l] = "broken"]
            /\ UNCHANGED <<queue, listeners>>
       ELSE /\ queue' = [queue EXCEPT ![l] = buffer]
            /\ listeners' = listeners \cup {l}
            /\ stream' = [stream EXCEPT ![l] = "open"]
    /\ UNCHANGED <<buffer, lines, read, overflow, shutdown>>

\* One turn of log_generator's loop, or its end.
Send(l) ==
    /\ stream[l] = "open" /\ ~shutdown /\ queue[l] # <<>>
    /\ read' = [read EXCEPT ![l] = Append(@, Head(queue[l]))]
    /\ queue' = [queue EXCEPT ![l] = Tail(@)]
    /\ UNCHANGED <<buffer, lines, listeners, stream, overflow, shutdown>>

Close(l) ==
    /\ stream[l] = "open"
    /\ stream' = [stream EXCEPT ![l] = "closed"]
    /\ UNCHANGED <<buffer, lines, listeners, queue, read, overflow, shutdown>>

\* begin_app_shutdown
Shutdown ==
    /\ ~shutdown /\ shutdown' = TRUE
    /\ UNCHANGED <<buffer, lines, listeners, queue, stream, read, overflow>>

Next ==
    \/ Write \/ Shutdown
    \/ \E l \in Listeners : Subscribe(l) \/ Send(l) \/ Close(l)

Spec == Init /\ [][Next]_vars

-----------------------------------------------------------------------------
(* Properties. *)

TypeOK ==
    /\ Len(buffer) <= Limit /\ listeners \subseteq Listeners
    /\ \A l \in Listeners : Len(queue[l]) <= QueueSize

\* What a stream has sent and still holds is a stretch of the log without a gap, a
\* repetition or a swap, up to the newest line, whatever was written while it
\* subscribed, as long as its queue has never been full.
StreamIsContiguous ==
    \A l \in Listeners \ overflow :
        LET got == read[l] \o queue[l] IN
        /\ \A i \in 1..Len(got) : got[i] = got[1] + i - 1
        /\ stream[l] = "open" /\ got # <<>> => Last(got) = lines
        /\ stream[l] = "open" /\ got = <<>> => lines = 0

\* Whoever subscribes is served ("SSE endpoint streaming live console logs").
SubscribersAreServed == \A l \in Listeners : stream[l] # "broken"

=============================================================================
