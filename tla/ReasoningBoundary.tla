-------------------------- MODULE ReasoningBoundary --------------------------
(***************************************************************************)
(* What of a model's output reaches the client of a chat completion: the    *)
(* stream of server.py, the adapter of stream_contract.py, and the boundary *)
(* of reasoning_http.py with the parser of reasoning_boundary.py.           *)
(* The delimiters <think> and </think> are shortened to two and three       *)
(* symbols; as in the code they share their first symbol and no other       *)
(* overlap, so a chunk may end inside either of them.                       *)
(***************************************************************************)
EXTENDS Integers, Sequences, SequencesExt, FiniteSets, FiniteSetsExt

CONSTANTS
    MaxRaw,     \* bound: symbols the model writes
    MaxChunk,   \* bound: symbols of one chunk
    Faults      \* the engine may raise in the middle of a stream

VARIABLES
    req,      \* the request and what the runtime makes of it
    raw,      \* what the model has written
    parser,   \* _in_reasoning and _carry of ReasoningStreamParser
    parts,    \* _structured_parts
    filter,   \* is_thinking_for_client of the route
    shown,    \* content the client has received
    told,     \* other events it has received
    pc

vars == <<req, raw, parser, parts, filter, shown, told, pc>>

Symbols == {"<", "/", "t", "x"}
OPEN == <<"<", "t">>
CLOSE == <<"<", "/", "t">>
Delimiters == {OPEN, CLOSE}

Requests == [stream : BOOLEAN, structured : BOOLEAN, show : BOOLEAN, expect : BOOLEAN,
             boundary : BOOLEAN]

Init ==
    /\ req \in Requests
    /\ raw = <<>> /\ parts = <<>> /\ shown = <<>> /\ told = {}
    /\ parser = [reasoning |-> req.expect, carry |-> <<>>]
    /\ filter = FALSE
    /\ pc = "running"

-----------------------------------------------------------------------------
(* The parser. *)

At(s, d) == {i \in 1..(Len(s) - Len(d) + 1) : SubSeq(s, i, i + Len(d) - 1) = d}
Has(s, d) == At(s, d) # {}
Before(s, d) == SubSeq(s, 1, Min(At(s, d)) - 1)
After(s, d) == SubSeq(s, Min(At(s, d)) + Len(d), Len(s))

\* Mutant of SafeLength: nothing is held back for the next chunk.
SafeLengthAll(s) == Len(s)

\* _safe_prefix_length: the longest suffix that may begin a delimiter is kept.
SafeLength(s) ==
    Len(s) - Max({0} \cup {n \in 1..Min({Len(s), Len(CLOSE) - 1}) :
                             \E d \in Delimiters : IsPrefix(SubSeq(s, Len(s) - n + 1, Len(s)), d)})

\* feed: the text that may be exposed, and the state it leaves.
RECURSIVE Consume(_, _)
Consume(buffer, reasoning) ==
    LET found == {d \in Delimiters : Has(buffer, d)}
        visible(s) == IF reasoning THEN <<>> ELSE s
    IN  IF found = {}
        THEN [text |-> visible(SubSeq(buffer, 1, SafeLength(buffer))), reasoning |-> reasoning,
              carry |-> SubSeq(buffer, SafeLength(buffer) + 1, Len(buffer))]
        ELSE LET first == CHOOSE d \in found : \A e \in found : Min(At(buffer, d)) <= Min(At(buffer, e))
                 rest == Consume(After(buffer, first), first = OPEN)
             IN  [rest EXCEPT !.text = visible(Before(buffer, first)) \o @]

Feed(p, chunk) == Consume(p.carry \o chunk, p.reasoning)

\* finish: what was held back, unless it is reasoning.
Flush(p) == IF p.reasoning THEN <<>> ELSE p.carry

\* split_reasoning_content
Split(content, expect) ==
    LET closeOnly == Has(content, CLOSE) /\ ~Has(content, OPEN)
        fed == Consume(content, expect \/ closeOnly)
    IN  fed.text \o Flush(fed)

\* _strip_thinking of the route, which looks for one block.
StripThinking(content) ==
    IF Has(content, OPEN) /\ Has(content, CLOSE) /\ Has(After(content, OPEN), CLOSE)
    THEN Before(content, OPEN) \o After(After(content, OPEN), CLOSE)
    ELSE IF Has(content, CLOSE) /\ ~Has(content, OPEN) THEN After(content, CLOSE)
    ELSE IF Has(content, OPEN) THEN Before(content, OPEN)
    ELSE content

\* _build_response
Exposed(content) == IF req.show THEN content ELSE StripThinking(content)

\* parse_structured_output: the whole answer is one object, here the symbol x.
IsObject(content) == content = <<"x">>

\* What the client is told of an answer that is none, as an event or as a status.
Verdict(content) == IF IsObject(content) THEN {} ELSE {"invalid"}

-----------------------------------------------------------------------------
(* The paths a response can take. *)

\* The middleware forwards as it is what it does not have to change.
PassesThrough(r) ==
    \/ ~r.boundary
    \/ ~r.stream /\ ~r.structured
    \/ r.stream /\ r.show /\ ~r.structured

\* It asks the route for everything otherwise.
RouteShows == req.show \/ ~PassesThrough(req)

\* The filter of the route works on one chunk and one delimiter at a time.
RouteText(chunk) ==
    IF RouteShows THEN chunk
    ELSE IF filter THEN IF Has(chunk, CLOSE) THEN After(chunk, CLOSE) ELSE <<>>
    ELSE IF Has(chunk, OPEN)
         THEN LET rest == After(chunk, OPEN)
              IN  Before(chunk, OPEN) \o IF Has(rest, CLOSE) THEN After(rest, CLOSE) ELSE <<>>
    ELSE chunk

FilterAfter(chunk) ==
    IF RouteShows THEN filter
    ELSE IF filter THEN ~Has(chunk, CLOSE)
    ELSE Has(chunk, OPEN) /\ ~Has(After(chunk, OPEN), CLOSE)

-----------------------------------------------------------------------------
(* Streams. *)

Chunks == UNION {[1..n -> Symbols] : n \in 1..MaxChunk}

\* A chunk with content.  Structured content is collected until the end.
Token(chunk) ==
    /\ pc = "running" /\ req.stream /\ Len(raw) + Len(chunk) <= MaxRaw
    /\ raw' = raw \o chunk
    /\ filter' = FilterAfter(chunk)
    /\ IF PassesThrough(req)
       THEN /\ shown' = shown \o RouteText(chunk)
            /\ UNCHANGED <<parser, parts>>
       ELSE \E fed \in {Feed(parser, chunk)} :
               /\ parser' = [reasoning |-> fed.reasoning, carry |-> fed.carry]
               /\ parts' = IF req.structured THEN parts \o fed.text ELSE parts
               /\ shown' = IF req.structured THEN shown ELSE shown \o fed.text
    /\ UNCHANGED <<req, told, pc>>

\* A last chunk with usage or timings and a finish_reason, without content: the
\* route's filter drops it, the boundary forwards it, and keeps the reason of a
\* structured answer for its only content event.
Trailer ==
    /\ pc = "running" /\ req.stream /\ "usage" \notin told
    /\ told' = IF RouteShows THEN told \cup {"usage"} ELSE told
    /\ UNCHANGED <<req, raw, parser, parts, filter, shown, pc>>

\* _finish_application_content
Finish(more) ==
    /\ IF req.structured
       THEN LET final == parts \o Flush(parser)
            IN  /\ shown' = IF IsObject(final) THEN final ELSE shown
                /\ told' = told \cup more \cup Verdict(final)
       ELSE /\ shown' = shown \o Flush(parser)
            /\ told' = told \cup more
    /\ parser' = [parser EXCEPT !.carry = <<>>]

\* The engine's stream ends, or the server shuts down and breaks it off: in both
\* cases the route sends [DONE].
Ends ==
    /\ pc = "running" /\ req.stream
    /\ pc' = "done"
    /\ IF PassesThrough(req)
       THEN told' = told \cup {"done"} /\ UNCHANGED <<parser, shown>>
       ELSE Finish({"done"})
    /\ UNCHANGED <<req, raw, parts, filter>>

\* The engine raises: the route sends an error event and no [DONE].  The event has
\* no choices, usage or timings, so the boundary takes it for an empty one.
Forwards(event) == event # "error"

Fails ==
    /\ Faults /\ pc = "running" /\ req.stream
    /\ pc' = "failed"
    /\ IF PassesThrough(req)
       THEN told' = told \cup {"error"} /\ UNCHANGED <<parser, shown>>
       ELSE Finish({e \in {"error"} : Forwards(e)})
    /\ UNCHANGED <<req, raw, parts, filter>>

-----------------------------------------------------------------------------
(* One response. *)

Complete(content) ==
    /\ pc = "running" /\ ~req.stream /\ raw = <<>>
    /\ raw' = content /\ pc' = "done"
    /\ \E final \in {Split(content, req.expect)} :
          IF PassesThrough(req)
          THEN /\ shown' = Exposed(content)
               /\ UNCHANGED told
          ELSE /\ shown' = IF IsObject(final) THEN final ELSE <<>>
               /\ told' = told \cup Verdict(final)
    /\ UNCHANGED <<req, parser, parts, filter>>

Next ==
    \/ \E chunk \in Chunks : Token(chunk)
    \/ Trailer \/ Ends \/ Fails
    \/ \E content \in UNION {[1..n -> Symbols] : n \in 0..MaxRaw} : Complete(content)

Spec == Init /\ [][Next]_vars

-----------------------------------------------------------------------------
(* Properties. *)

TypeOK ==
    /\ req \in Requests /\ filter \in BOOLEAN
    /\ Len(parser.carry) < Len(CLOSE) /\ parser.reasoning \in BOOLEAN
    /\ told \subseteq {"usage", "error", "invalid", "done"}
    /\ pc \in {"running", "done", "failed"}

\* The answer of an output, by position: outside every delimiter and with no open
\* block, or at the start when reasoning is expected, in front of it.
Covered(s) == UNION {i..(i + Len(d) - 1) : <<i, d>> \in {<<j, e>> \in (1..Len(s)) \X Delimiters : j \in At(s, e)}}
Hidden(s, expect, i) ==
    LET opened == {j \in At(s, OPEN) : j < i}
        closed == {j \in At(s, CLOSE) : j < i}
    IN  IF opened \cup closed = {} THEN expect
        ELSE Max(opened \cup {0}) > Max(closed \cup {0})
Answer(s, expect) ==
    LET places == {i \in 1..Len(s) : i \notin Covered(s) /\ ~Hidden(s, expect, i)}
    IN  [n \in 1..Cardinality(places) |->
            s[CHOOSE i \in places : Cardinality({j \in places : j <= i}) = n]]

\* However the output is cut into chunks, a redacted stream shows a prefix of the
\* answer while it runs and all of it at its end: neither reasoning nor half a
\* delimiter gets out, and no text of the answer is lost (reasoning_boundary.py:
\* "ambiguous text remains hidden until a closing reasoning delimiter").
OnlyTheAnswerIsShown ==
    req.stream /\ ~PassesThrough(req) =>
        /\ IsPrefix(shown, Answer(raw, req.expect))
        /\ ~req.structured /\ pc # "running" => shown = Answer(raw, req.expect)

\* A structured answer arrives whole and valid or as an error, streamed or not, and
\* the same output gives the same result either way unless a lone closing
\* delimiter tells a complete response that it had begun in reasoning.
StructuredIsValidOrRefused ==
    req.structured /\ req.boundary =>
        /\ shown # <<>> => IsObject(shown)
        /\ pc # "running" => (shown = <<>>) = ("invalid" \in told)
        /\ pc = "done" /\ (req.expect \/ Has(raw, OPEN) \/ ~Has(raw, CLOSE))
              => (shown # <<>>) = IsObject(Answer(raw, req.expect))

=============================================================================
