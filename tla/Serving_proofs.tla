---------------------------- MODULE Serving_proofs ----------------------------
(***************************************************************************)
(* Proofs about the components between a request and its answer, for every  *)
(* value of their constants: each has an inductive invariant of its own,    *)
(* which holds in the behaviours of Serving that are of that component.     *)
(***************************************************************************)
EXTENDS Serving, CollectionLemmas

-----------------------------------------------------------------------------
(* Behaviours of one component.                                              *)

\* A step of Serving is one of the component that the behaviour is of, or leaves that as it
\* is, and the behaviour stays of that component.
LEMMA SameComponent ==
  ASSUME [ServedNext]_servingVars
  PROVE  /\ component' = component
         /\ component = "log" => [Log!Next]_(Log!vars)
         /\ component = "pressure" => [Pressure!Next]_(Pressure!vars)
         /\ component = "residency" => [Residency!Next]_(Residency!vars)
         /\ component = "images" => [Images!Next]_(Images!vars)
         /\ component = "backends" => [Backends!Next]_(Backends!vars)
         /\ component = "chat" => [Chat!Next]_(Chat!vars)
<1>1. CASE ServedNext
  BY <1>1 DEF ServedNext
<1>2. CASE UNCHANGED servingVars
  BY <1>2 DEF servingVars, logVars, pressureVars, residencyVars, imagesVars, backendsVars,
              chatVars, Log!vars, Pressure!vars, Residency!vars, Images!vars, Backends!vars,
              Chat!vars
<1> QED
  BY <1>1, <1>2

-----------------------------------------------------------------------------
(* Numbers in a row: what the log holds.                                     *)

\* The numbers after `from` up to `last`.
Row(s, from, last) ==
    /\ s \in Seq(Nat) /\ from \in Nat /\ last \in Nat /\ last = from + Len(s)
    /\ \A i \in 1..Len(s) : s[i] = from + i

\* A row from a number to itself is empty, and only that.
LEMMA RowEmpty ==
  /\ \A n \in Nat : Row(<< >>, n, n)
  /\ \A s, m, n : Row(s, m, n) => m <= n /\ (s = << >> <=> m = n)
<1>1. << >> \in Seq(Nat) /\ Len(<< >>) = 0
  OBVIOUS
<1>2. \A s \in Seq(Nat) : Len(s) \in Nat /\ (s = << >> <=> Len(s) = 0)
  OBVIOUS
<1> QED
  BY <1>1, <1>2 DEF Row

\* The next number continues a row.
LEMMA RowAppend ==
  ASSUME NEW s, NEW m, NEW n, Row(s, m, n)
  PROVE  Row(Append(s, n + 1), m, n + 1)
<1>1. s \in Seq(Nat) /\ n \in Nat /\ m \in Nat
  BY DEF Row
<1> DEFINE t == Append(s, n + 1)
<1>2. Len(s) \in Nat /\ t \in Seq(Nat) /\ Len(t) = Len(s) + 1
  BY <1>1
<1>3. \A i \in 1..Len(s) + 1 : t[i] = IF i <= Len(s) THEN s[i] ELSE n + 1
  BY <1>1
<1> HIDE DEF t
<1>4. n = m + Len(s) /\ n + 1 = m + Len(t) /\ n + 1 \in Nat
  BY <1>1, <1>2 DEF Row
<1>5. ASSUME NEW i \in 1..Len(t) PROVE t[i] = m + i
  <2>1. CASE i \in 1..Len(s)
    BY <1>1, <1>2, <1>3, <2>1 DEF Row
  <2>2. CASE i = Len(s) + 1
    <3>1. t[i] = n + 1
      BY <1>2, <1>3, <2>2
    <3> QED
      BY <1>1, <1>2, <1>4, <2>2, <3>1
  <2> QED
    BY <1>2, <2>1, <2>2
<1>6. Row(t, m, n + 1)
  BY <1>1, <1>2, <1>4, <1>5 DEF Row
<1> QED
  BY <1>6 DEF t

\* A row without its first number is a row, from the next number on.
LEMMA RowTail ==
  ASSUME NEW s, NEW m, NEW n, Row(s, m, n), s # << >>
  PROVE  Head(s) = m + 1 /\ Row(Tail(s), m + 1, n)
<1>1. s \in Seq(Nat) /\ n \in Nat /\ m \in Nat
  BY DEF Row
<1> DEFINE t == Tail(s)
<1>2. Len(s) \in Nat /\ Len(s) > 0 /\ t \in Seq(Nat) /\ Len(t) = Len(s) - 1
  BY <1>1
<1>3. \A i \in 1..Len(s) - 1 : t[i] = s[i + 1] /\ i + 1 \in 1..Len(s)
  BY <1>1
<1>4. Head(s) = s[1] /\ 1 \in 1..Len(s)
  BY <1>1, <1>2
<1> HIDE DEF t
<1>5. Head(s) = m + 1 /\ Row(t, m + 1, n)
  BY <1>1, <1>2, <1>3, <1>4 DEF Row
<1> QED
  BY <1>5 DEF t

\* Two rows that meet are one.
LEMMA RowConcat ==
  ASSUME NEW s, NEW t, NEW k, NEW m, NEW n, Row(s, k, m), Row(t, m, n)
  PROVE  Row(s \o t, k, n)
<1>1. /\ s \in Seq(Nat) /\ t \in Seq(Nat) /\ Len(s) \in Nat /\ Len(t) \in Nat
      /\ k \in Nat /\ m \in Nat /\ n \in Nat
  BY DEF Row
<1> DEFINE u == s \o t
<1>2. u \in Seq(Nat) /\ Len(u) = Len(s) + Len(t)
  BY <1>1
<1>3. \A i \in 1..(Len(s) + Len(t)) : u[i] = IF i <= Len(s) THEN s[i] ELSE t[i - Len(s)]
  BY <1>1
<1> HIDE DEF u
<1>4. m = k + Len(s) /\ n = m + Len(t) /\ n = k + Len(u)
  BY <1>1, <1>2 DEF Row
<1>5. ASSUME NEW i \in 1..Len(u) PROVE u[i] = k + i
  <2>1. CASE i \in 1..Len(s)
    <3>1. u[i] = s[i]
      BY <1>1, <1>2, <1>3, <2>1
    <3> QED
      BY <2>1, <3>1 DEF Row
  <2>2. CASE i - Len(s) \in 1..Len(t)
    <3>1. u[i] = t[i - Len(s)]
      BY <1>1, <1>2, <1>3, <2>2
    <3>2. t[i - Len(s)] = m + (i - Len(s))
      BY <2>2 DEF Row
    <3> QED
      BY <1>1, <1>2, <1>4, <3>1, <3>2
  <2> QED
    BY <1>1, <1>2, <2>1, <2>2
<1>6. Row(u, k, n)
  BY <1>1, <1>2, <1>4, <1>5 DEF Row
<1> QED
  BY <1>6 DEF u

\* What a row says of its numbers.
LEMMA RowNumbers ==
  ASSUME NEW s, NEW m, NEW n, Row(s, m, n)
  PROVE  /\ \A i \in 1..Len(s) : s[i] = s[1] + i - 1
         /\ s # << >> => s[Len(s)] = n
<1>1. s \in Seq(Nat) /\ Len(s) \in Nat /\ n \in Nat /\ m \in Nat
  BY DEF Row
<1>2. \A i \in 1..Len(s) : 1 \in 1..Len(s)
  BY <1>1
<1>3. s # << >> => Len(s) \in 1..Len(s)
  BY <1>1
<1> QED
  BY <1>1, <1>2, <1>3 DEF Row

-----------------------------------------------------------------------------
(* LogStream: no stream has a gap, a repetition or a swap.                   *)

\* The buffer of server.py has room for a line.
LogAssumption == Limit \in Nat \ {0}

LogType ==
    /\ lines \in Nat
    /\ queue \in [Listeners -> Seq(Nat)] /\ read \in [Listeners -> Seq(Nat)]
    /\ stream \in [Listeners -> {"none", "open", "closed", "broken"}]

\* The buffer holds the newest lines.
LogKept == \E first \in Nat : Row(buffer, first, lines) /\ (lines > 0 => first < lines)

\* What a stream has sent and what it holds are one row, which reaches the newest line
\* as long as the stream is open.
Stretch(l, start, middle, end) ==
    /\ Row(read[l], start, middle) /\ Row(queue[l], middle, end)
    /\ stream[l] = "open" => end = lines /\ (lines > 0 => start < end)

Stretched(l) ==
    /\ stream[l] \in {"none", "broken"} => queue[l] = << >> /\ read[l] = << >>
    /\ stream[l] = "open" => l \in listeners
    /\ \E start, middle, end \in Nat : Stretch(l, start, middle, end)

LogInv == LogType /\ LogKept /\ \A l \in Listeners \ overflow : Stretched(l)

\* Nothing has been written and nobody has subscribed.
LEMMA LogInit ==
  ASSUME Log!Init
  PROVE  LogInv
<1>1. << >> \in Seq(Nat) /\ Row(<< >>, 0, 0)
  BY RowEmpty
<1>2. LogType
  BY <1>1 DEF Log!Init, LogType
<1>3. LogKept
  BY <1>1 DEF Log!Init, LogKept
<1>4. ASSUME NEW l \in Listeners PROVE Stretched(l)
  BY <1>1 DEF Log!Init, Stretch, Stretched
<1> QED
  BY <1>2, <1>3, <1>4 DEF LogInv

\* The buffer keeps the new line, and forgets its oldest one when it is full.
LEMMA LogWriteKept ==
  ASSUME LogAssumption, LogInv, Log!Write
  PROVE  LogType' /\ LogKept'
<1> DEFINE longer == Append(buffer, lines + 1)
<1>1. lines \in Nat /\ lines' = lines + 1 /\ buffer' = Log!Kept(longer)
  BY DEF LogInv, LogType, Log!Write
<1>2. PICK first \in Nat : Row(buffer, first, lines)
  BY DEF LogInv, LogKept
<1>3. Row(longer, first, lines + 1) /\ first <= lines
  BY <1>2, RowAppend, RowEmpty
<1> HIDE DEF longer
<1>4. CASE Len(longer) > Limit
  <2>1. Len(longer) \in Nat /\ lines + 1 = first + Len(longer) /\ longer # << >>
    BY <1>1, <1>3, RowEmpty DEF Row
  <2>2. first + 1 < lines + 1
    BY <1>4, <1>1, <2>1 DEF LogAssumption
  <2>3. Row(buffer', first + 1, lines')
    BY <1>1, <1>3, <1>4, <2>1, RowTail DEF Log!Kept
  <2> QED
    BY <1>1, <2>2, <2>3 DEF LogKept, LogInv, LogType, Log!Write
<1>5. CASE ~(Len(longer) > Limit)
  <2>1. Row(buffer', first, lines') /\ first < lines'
    BY <1>1, <1>3, <1>5 DEF Log!Kept
  <2> QED
    BY <1>1, <2>1 DEF LogKept, LogInv, LogType, Log!Write
<1> QED
  BY <1>4, <1>5

\* A line is put behind the row of every open stream whose queue is not full.
LEMMA LogWriteStretches ==
  ASSUME LogInv, Log!Write, NEW l \in Listeners \ overflow'
  PROVE  Stretched(l)'
<1>1. /\ l \in Listeners /\ l \notin overflow /\ stream' = stream /\ read' = read
      /\ listeners' = {k \in listeners : stream[k] = "open"}
      /\ lines \in Nat /\ lines' = lines + 1
  BY DEF Log!Write, LogInv, LogType
<1>2. Stretched(l)
  BY <1>1 DEF LogInv
<1>3. PICK start, middle, end \in Nat : Stretch(l, start, middle, end)
  BY <1>2 DEF Stretched
<1>4. CASE stream[l] = "open"
  <2>1. l \in listeners' /\ ~Log!Full(l)
    BY <1>1, <1>2, <1>4 DEF Stretched, Log!Write
  <2>2. queue'[l] = Append(queue[l], lines + 1) /\ lines = end
    BY <2>1, <1>1, <1>3, <1>4 DEF Log!Write, Stretch
  <2>3. PICK newest \in Nat : newest = lines + 1 /\ Row(queue'[l], middle, newest)
    BY <2>2, <1>1, <1>3, RowAppend DEF Stretch
  <2>4. start <= middle /\ middle <= end
    BY <1>3, RowEmpty DEF Stretch
  <2>5. Stretch(l, start, middle, newest)'
    BY <2>2, <2>3, <2>4, <1>1, <1>3 DEF Stretch
  <2> QED
    BY <2>1, <2>3, <2>5, <1>1, <1>4 DEF Stretched
<1>5. CASE stream[l] # "open"
  <2>1. l \notin listeners' /\ queue'[l] = queue[l]
    BY <1>1, <1>5 DEF Log!Write
  <2>2. Stretch(l, start, middle, end)'
    BY <2>1, <1>1, <1>3, <1>5 DEF Stretch
  <2> QED
    BY <2>1, <2>2, <1>1, <1>2, <1>5 DEF Stretched
<1> QED
  BY <1>4, <1>5

\* A listener is given what the buffer holds, which ends with the newest line.
LEMMA LogSubscribe ==
  ASSUME LogInv, NEW l \in Listeners, Log!Subscribe(l)
  PROVE  LogInv'
<1>1. PICK first \in Nat : Row(buffer, first, lines) /\ (lines > 0 => first < lines)
  BY DEF LogInv, LogKept
<1>2. LogType'
  BY <1>1 DEF LogInv, LogType, Log!Subscribe, Row
<1>3. LogKept'
  BY DEF LogInv, LogKept, Log!Subscribe
<1>4. ASSUME NEW k \in Listeners \ overflow'
      PROVE  Stretched(k)'
  <2>1. Stretched(k)
    BY <1>4 DEF LogInv, Log!Subscribe
  <2>2. CASE k # l \/ Len(buffer) > QueueSize
    <3>1. /\ UNCHANGED <<lines, read>> /\ queue'[k] = queue[k] /\ listeners \subseteq listeners'
          /\ stream'[k] = stream[k] \/ (stream'[k] = "broken" /\ stream[k] = "none")
      BY <1>4, <2>2 DEF LogInv, LogType, Log!Subscribe
    <3> QED
      BY <2>1, <3>1 DEF Stretched, Stretch
  <2>3. CASE k = l /\ ~(Len(buffer) > QueueSize)
    <3>1. /\ queue'[k] = buffer /\ read'[k] = << >> /\ stream'[k] = "open" /\ k \in listeners'
          /\ lines' = lines /\ lines \in Nat
      BY <1>4, <2>1, <2>3 DEF LogInv, LogType, Stretched, Log!Subscribe
    <3>2. Stretch(k, first, first, lines)'
      BY <1>1, <3>1, RowEmpty DEF Stretch
    <3> QED
      BY <3>1, <3>2 DEF Stretched
  <2> QED
    BY <2>2, <2>3
<1> QED
  BY <1>2, <1>3, <1>4 DEF LogInv

\* A line passes from the queue to what has been sent.
LEMMA LogSend ==
  ASSUME LogInv, NEW l \in Listeners, Log!Send(l)
  PROVE  LogInv'
<1>1. LogType'
  BY DEF LogInv, LogType, Log!Send
<1>2. LogKept'
  BY DEF LogInv, LogKept, Log!Send
<1>3. ASSUME NEW k \in Listeners \ overflow'
      PROVE  Stretched(k)'
  <2>1. Stretched(k)
    BY <1>3 DEF LogInv, Log!Send
  <2>2. CASE k # l
    BY <2>1, <2>2, <1>3 DEF LogInv, LogType, Stretched, Stretch, Log!Send
  <2>3. CASE k = l
    <3>1. PICK start, middle, end \in Nat : Stretch(l, start, middle, end)
      BY <2>1, <2>3 DEF Stretched
    <3>2. /\ queue[l] # << >> /\ stream[l] = "open" /\ UNCHANGED <<stream, listeners, lines>>
          /\ read'[l] = Append(read[l], Head(queue[l])) /\ queue'[l] = Tail(queue[l])
      BY <1>3, <2>3 DEF LogInv, LogType, Log!Send
    <3>3. Head(queue[l]) = middle + 1 /\ Row(queue'[l], middle + 1, end)
      <4>1. Row(queue[l], middle, end)
        BY <3>1 DEF Stretch
      <4>2. Head(queue[l]) = middle + 1 /\ Row(Tail(queue[l]), middle + 1, end)
        BY <4>1, <3>2, RowTail
      <4> QED
        BY <4>2, <3>2
    <3>4. Row(read'[l], start, middle + 1)
      BY <3>1, <3>2, <3>3, RowAppend DEF Stretch
    <3>5. Stretch(l, start, middle + 1, end)'
      BY <3>1, <3>2, <3>3, <3>4 DEF Stretch
    <3> QED
      BY <2>1, <2>3, <3>2, <3>3, <3>5 DEF Stretched
  <2> QED
    BY <2>2, <2>3
<1> QED
  BY <1>1, <1>2, <1>3 DEF LogInv

\* A closed stream keeps what it has; a shutdown changes no row.
LEMMA LogClose ==
  ASSUME LogInv, (\E l \in Listeners : Log!Close(l)) \/ Log!Shutdown \/ UNCHANGED Log!vars
  PROVE  LogInv'
<1>1. /\ UNCHANGED <<buffer, lines, queue, read, overflow, listeners>>
      /\ stream' \in [Listeners -> {"none", "open", "closed", "broken"}]
      /\ \A l \in Listeners : stream'[l] = stream[l] \/ stream'[l] = "closed"
  BY DEF LogInv, LogType, Log!Close, Log!Shutdown, Log!vars
<1>2. ASSUME NEW l \in Listeners, Stretched(l) PROVE Stretched(l)'
  BY <1>1, <1>2 DEF Stretched, Stretch
<1> QED
  BY <1>1, <1>2 DEF LogInv, LogType, LogKept

\* The invariant holds in every behaviour.
LEMMA LogInvHolds ==
  ASSUME LogAssumption
  PROVE  ServedSpec => [](component = "log" => LogInv)
<1>1. ASSUME LogInv, Log!Write PROVE LogInv'
  BY <1>1, LogWriteKept, LogWriteStretches DEF LogInv
<1>2. LogInv /\ [Log!Next]_(Log!vars) => LogInv'
  BY <1>1, LogSubscribe, LogSend, LogClose DEF Log!Next
<1>3. ServedInit => (component = "log" => LogInv)
  BY LogInit DEF ServedInit
<1>4. (component = "log" => LogInv) /\ [ServedNext]_servingVars
         => (component = "log" => LogInv)'
  BY <1>2, SameComponent
<1> QED
  BY <1>3, <1>4, PTL DEF ServedSpec

\* What a stream of the live log has sent and still holds is a stretch of the log up to
\* its newest line, without a gap, a repetition or a swap, whatever was written while it
\* subscribed, as long as its queue has never been full (server.py, LogStreamBuffer).
THEOREM LogStreamsAreContiguous ==
  ASSUME LogAssumption
  PROVE  ServedSpec => []StreamIsContiguous
<1>1. ASSUME component = "log" => LogInv PROVE StreamIsContiguous
  <2>1. ASSUME component = "log",
               NEW l \in Listeners \ overflow, NEW got, got = read[l] \o queue[l]
        PROVE  /\ \A i \in 1..Len(got) : got[i] = got[1] + i - 1
               /\ stream[l] = "open" /\ got # << >> => got[Len(got)] = lines
               /\ stream[l] = "open" /\ got = << >> => lines = 0
    <3>1. PICK start, middle, end \in Nat : Stretch(l, start, middle, end)
      BY <1>1, <2>1 DEF LogInv, Stretched
    <3>2. Row(got, start, end) /\ lines \in Nat
      BY <1>1, <2>1, <3>1, RowConcat DEF Stretch, LogInv, LogType
    <3> QED
      BY <3>1, <3>2, RowNumbers, RowEmpty DEF Stretch
  <2> QED
    BY <2>1 DEF StreamIsContiguous, Log!StreamIsContiguous, Log!Last
<1> QED
  BY <1>1, LogInvHolds, PTL

-----------------------------------------------------------------------------
(* PressurePolicy: one attempt per episode of pressure.                      *)

\* PressurePolicySettings names levels of pressure, and counts samples.
PressureAssumption ==
    /\ Trigger \in Pressure!Ranks /\ Clear \in Pressure!Ranks
    /\ TriggerSamples \in Nat /\ ClearSamples \in Nat

\* The last m of the first i elements are in R.
Within(s, i, m, R) == i >= m /\ \A j \in (i - m + 1)..i : s[j] \in R

\* Exactly the last k elements are in R.
Ends(s, k, R) ==
    /\ k \in 0..Len(s) /\ \A j \in (Len(s) - k + 1)..Len(s) : s[j] \in R
    /\ k < Len(s) => s[Len(s) - k] \notin R

\* What was within stays so when an element is appended.
LEMMA WithinAppend ==
  ASSUME NEW X, NEW s \in Seq(X), NEW x \in X, NEW R, NEW i \in 0..Len(s), NEW m \in Nat \ {0}
  PROVE  Within(Append(s, x), i, m, R) <=> Within(s, i, m, R)
<1>1. Len(s) \in Nat /\ \A j \in 1..Len(s) : Append(s, x)[j] = s[j]
  OBVIOUS
<1>2. i >= m => \A j \in (i - m + 1)..i : j \in 1..Len(s)
  BY <1>1
<1> QED
  BY <1>1, <1>2 DEF Within

\* What a streak at the end says of the elements before it.
LEMMA WithinEnds ==
  ASSUME NEW X, NEW s \in Seq(X), NEW R, NEW k, Ends(s, k, R), NEW m \in Nat \ {0}
  PROVE  Within(s, Len(s), m, R) <=> m <= k
<1>1. /\ Len(s) \in Nat /\ k \in 0..Len(s) /\ k \in Nat
      /\ \A j \in (Len(s) - k + 1)..Len(s) : s[j] \in R
      /\ k < Len(s) => s[Len(s) - k] \notin R
  BY DEF Ends
<1>2. ASSUME m <= k PROVE Within(s, Len(s), m, R)
  <2>1. Len(s) >= m /\ \A j \in (Len(s) - m + 1)..Len(s) : j \in (Len(s) - k + 1)..Len(s)
    BY <1>1, <1>2
  <2> QED
    BY <2>1, <1>1 DEF Within
<1>3. ASSUME ~(m <= k), Within(s, Len(s), m, R) PROVE FALSE
  <2>1. Len(s) >= m /\ \A j \in (Len(s) - m + 1)..Len(s) : s[j] \in R
    BY <1>3 DEF Within
  <2>2. k < Len(s) /\ Len(s) - k \in (Len(s) - m + 1)..Len(s)
    BY <1>1, <1>3, <2>1
  <2> QED
    BY <1>1, <2>1, <2>2
<1> QED
  BY <1>2, <1>3

\* A streak goes on with an element of the set, and another one breaks it.
LEMMA EndsAppend ==
  ASSUME NEW X, NEW s \in Seq(X), NEW x \in X, NEW R, NEW k, Ends(s, k, R)
  PROVE  Ends(Append(s, x), IF x \in R THEN k + 1 ELSE 0, R)
<1> DEFINE t == Append(s, x)
<1>1. /\ Len(s) \in Nat /\ t \in Seq(X) /\ Len(t) = Len(s) + 1 /\ t[Len(s) + 1] = x
      /\ \A j \in 1..Len(s) : t[j] = s[j]
  OBVIOUS
<1>2. k \in 0..Len(s) /\ k \in Nat
  BY <1>1 DEF Ends
<1> HIDE DEF t
<1>3. CASE x \in R
  <2>1. k + 1 \in 0..Len(t)
    BY <1>1, <1>2
  <2>2. ASSUME NEW j \in (Len(t) - (k + 1) + 1)..Len(t) PROVE t[j] \in R
    <3>1. j = Len(s) + 1 \/ j \in (Len(s) - k + 1)..Len(s)
      BY <1>1, <1>2, <2>2
    <3>2. j \in (Len(s) - k + 1)..Len(s) => j \in 1..Len(s) /\ s[j] \in R
      BY <1>1, <1>2 DEF Ends
    <3> QED
      BY <1>1, <1>3, <3>1, <3>2
  <2>3. ASSUME k + 1 < Len(t) PROVE t[Len(t) - (k + 1)] \notin R
    <3>1. Len(t) - (k + 1) = Len(s) - k /\ Len(s) - k \in 1..Len(s) /\ k < Len(s)
      BY <1>1, <1>2, <2>3
    <3> QED
      BY <1>1, <3>1 DEF Ends
  <2>4. Ends(t, k + 1, R)
    BY <2>1, <2>2, <2>3 DEF Ends
  <2> QED
    BY <1>3, <2>4 DEF t
<1>4. CASE x \notin R
  <2>1. Ends(t, 0, R)
    BY <1>1, <1>2, <1>4 DEF Ends
  <2> QED
    BY <1>4, <2>1 DEF t
<1> QED
  BY <1>3, <1>4


PressureType ==
    /\ Pressure!Settings
    /\ policy \in [state : {"normal", "watching", "triggered"}, trigger : Nat, clear : Nat]
    /\ samples \in Seq(Pressure!Ranks \cup {Pressure!Unknown})
    /\ attempts \subseteq 1..Len(samples)

High == Pressure!High
Low == Pressure!Low

\* By the n-th sample the pressure has gone that led to the attempt a.
ClearedBy(a, n) == \E c \in (a + ClearSamples)..n : Within(samples, c, ClearSamples, Low)

\* Between episodes the policy counts the high samples, and the pressure of all earlier
\* episodes has gone; within one it counts the low samples, none of which are as old as
\* the last attempt.
PressureCounts ==
    /\ policy.state # "triggered" =>
          /\ Ends(samples, policy.trigger, High) /\ policy.trigger < TriggerSamples
          /\ \A a \in attempts : ClearedBy(a, Len(samples))
    /\ policy.state = "triggered" =>
          /\ Ends(samples, policy.clear, Low) /\ policy.clear < ClearSamples
          /\ \A a \in attempts : a + policy.clear <= Len(samples)
          /\ \E a \in attempts : ~ClearedBy(a, Len(samples))

\* The policy has acted at the i-th sample where it should have.
Justified(i) ==
    i \in attempts <=> /\ Within(samples, i, TriggerSamples, High)
                       /\ \A a \in attempts : a < i => ClearedBy(a, i - TriggerSamples)

PressureInv == PressureType /\ PressureCounts /\ \A i \in 1..Len(samples) : Justified(i)

\* There are no samples.
LEMMA PressureInit ==
  ASSUME PressureAssumption, Pressure!Init
  PROVE  PressureInv
<1>1. Len(<< >>) = 0 /\ << >> \in Seq(Pressure!Ranks \cup {Pressure!Unknown})
  OBVIOUS
<1>2. PressureType
  BY <1>1 DEF PressureType, Pressure!Init
<1>3. Ends(<< >>, 0, High)
  BY <1>1 DEF Ends
<1> QED
  BY <1>1, <1>2, <1>3
  DEF PressureInv, PressureCounts, Pressure!Init, Pressure!Settings, PressureAssumption

\* What a sample changes of the streaks: those that have ended stay what they are, and
\* the one that is counted goes on or is broken.
LEMMA PressureSample ==
  ASSUME PressureAssumption, PressureInv,
         NEW rank \in Pressure!Ranks \cup {Pressure!Unknown}, samples' = Append(samples, rank)
  PROVE  /\ Len(samples) \in Nat /\ Len(samples') = Len(samples) + 1
         /\ samples' \in Seq(Pressure!Ranks \cup {Pressure!Unknown})
         /\ \A i \in 0..Len(samples) :
              /\ Within(samples', i, TriggerSamples, High)
                   <=> Within(samples, i, TriggerSamples, High)
              /\ Within(samples', i, ClearSamples, Low) <=> Within(samples, i, ClearSamples, Low)
         /\ policy.state # "triggered" =>
              Ends(samples', IF rank \in High THEN policy.trigger + 1 ELSE 0, High)
         /\ policy.state = "triggered" =>
              Ends(samples', IF rank \in Low THEN policy.clear + 1 ELSE 0, Low)
         /\ \A k : Ends(samples', k, High) =>
              (Within(samples', Len(samples) + 1, TriggerSamples, High) <=> TriggerSamples <= k)
         /\ \A k : Ends(samples', k, Low) =>
              (Within(samples', Len(samples) + 1, ClearSamples, Low) <=> ClearSamples <= k)
<1> DEFINE X == Pressure!Ranks \cup {Pressure!Unknown}
<1>1. /\ samples \in Seq(X) /\ rank \in X
      /\ TriggerSamples \in Nat \ {0} /\ ClearSamples \in Nat \ {0}
  BY DEF PressureInv, PressureType, PressureAssumption, Pressure!Settings
<1> HIDE DEF X
<1>2. Len(samples) \in Nat /\ Len(samples') = Len(samples) + 1 /\ samples' \in Seq(X)
  BY <1>1
<1>3. ASSUME NEW i \in 0..Len(samples)
      PROVE  /\ Within(samples', i, TriggerSamples, High)
                   <=> Within(samples, i, TriggerSamples, High)
             /\ Within(samples', i, ClearSamples, Low) <=> Within(samples, i, ClearSamples, Low)
  BY <1>1, WithinAppend
<1>4. policy.state # "triggered" =>
        Ends(samples', IF rank \in High THEN policy.trigger + 1 ELSE 0, High)
  BY <1>1, EndsAppend DEF PressureInv, PressureCounts
<1>5. policy.state = "triggered" =>
        Ends(samples', IF rank \in Low THEN policy.clear + 1 ELSE 0, Low)
  BY <1>1, EndsAppend DEF PressureInv, PressureCounts
<1>6. ASSUME NEW k, Ends(samples', k, High)
      PROVE  Within(samples', Len(samples) + 1, TriggerSamples, High) <=> TriggerSamples <= k
  BY <1>1, <1>2, <1>6, WithinEnds
<1>7. ASSUME NEW k, Ends(samples', k, Low)
      PROVE  Within(samples', Len(samples) + 1, ClearSamples, Low) <=> ClearSamples <= k
  BY <1>1, <1>2, <1>7, WithinEnds
<1> QED
  BY <1>2, <1>3, <1>4, <1>5, <1>6, <1>7 DEF X

\* Pressure that had gone by a sample has gone by it still, and the new sample ends it where
\* it is the last of enough low ones.
LEMMA PressureCleared ==
  ASSUME PressureAssumption, PressureInv, Pressure!Observe, NEW n, n = Len(samples)
  PROVE  /\ \A a \in Nat, m \in Int : m <= n => (ClearedBy(a, m)' <=> ClearedBy(a, m))
         /\ \A a \in Nat : ClearedBy(a, n + 1)' <=>
              \/ ClearedBy(a, n)
              \/ a + ClearSamples <= n + 1 /\ Within(samples', n + 1, ClearSamples, Low)
<1>1. PICK rank \in Pressure!Ranks \cup {Pressure!Unknown} : samples' = Append(samples, rank)
  BY DEF Pressure!Observe
<1>2. /\ n \in Nat /\ ClearSamples \in Nat
      /\ \A i \in 0..n : Within(samples', i, ClearSamples, Low)
                           <=> Within(samples, i, ClearSamples, Low)
  BY <1>1, PressureSample DEF PressureAssumption
<1>3. ASSUME NEW a \in Nat, NEW m \in Int, m <= n
      PROVE  ClearedBy(a, m)' <=> ClearedBy(a, m)
  <2>1. \A c \in (a + ClearSamples)..m : c \in 0..n
    BY <1>2, <1>3
  <2> QED
    BY <1>2, <2>1 DEF ClearedBy
<1>4. ASSUME NEW a \in Nat
      PROVE  ClearedBy(a, n + 1)' <=>
               \/ ClearedBy(a, n)
               \/ a + ClearSamples <= n + 1 /\ Within(samples', n + 1, ClearSamples, Low)
  <2>1. \A c \in (a + ClearSamples)..(n + 1) :
          c = n + 1 \/ (c \in 0..n /\ c \in (a + ClearSamples)..n)
    BY <1>2
  <2>2. \A c \in (a + ClearSamples)..n : c \in 0..n /\ c \in (a + ClearSamples)..(n + 1)
    BY <1>2
  <2>3. a + ClearSamples <= n + 1 => n + 1 \in (a + ClearSamples)..(n + 1)
    BY <1>2
  <2>4. \A c \in (a + ClearSamples)..(n + 1) : a + ClearSamples <= n + 1
    BY <1>2
  <2>5. ClearedBy(a, n + 1)' <=>
          \E c \in (a + ClearSamples)..(n + 1) : Within(samples', c, ClearSamples, Low)
    BY <1>1 DEF ClearedBy, Pressure!Observe
  <2> QED
    BY <1>2, <2>1, <2>2, <2>3, <2>4, <2>5 DEF ClearedBy
<1> QED
  BY <1>3, <1>4

\* What a sample makes of the policy: an episode begins, or the policy waits for one; and
\* the episode goes on, or ends.
LEMMA PressureObserved ==
  ASSUME PressureAssumption, PressureInv, Pressure!Observe, NEW n, n = Len(samples)
  PROVE  \E rank \in Pressure!Ranks \cup {Pressure!Unknown} :
         /\ samples' = Append(samples, rank)
         /\ policy' \in [state : {"normal", "watching", "triggered"}, trigger : Nat, clear : Nat]
         /\ rank \in Low => rank \notin High
         /\ \/ /\ policy.state # "triggered" /\ policy'.state = "triggered" /\ rank \in High
               /\ policy.trigger + 1 >= TriggerSamples
               /\ policy'.clear = 0 /\ attempts' = attempts \cup {n + 1}
            \/ /\ policy.state # "triggered" /\ policy'.state # "triggered"
               /\ policy'.trigger = (IF rank \in High THEN policy.trigger + 1 ELSE 0)
               /\ policy'.trigger < TriggerSamples /\ attempts' = attempts
            \/ /\ policy.state = "triggered" /\ policy'.state = "triggered"
               /\ policy'.clear = (IF rank \in Low THEN policy.clear + 1 ELSE 0)
               /\ policy'.clear < ClearSamples /\ attempts' = attempts
            \/ /\ policy.state = "triggered" /\ policy'.state # "triggered" /\ rank \in Low
               /\ policy.clear + 1 >= ClearSamples /\ policy'.trigger = 0 /\ attempts' = attempts
<1>1. PICK rank \in Pressure!Ranks \cup {Pressure!Unknown} :
         samples' = Append(samples, rank) /\ policy' = Pressure!Observed(rank)
  BY DEF Pressure!Observe
<1>2. /\ policy \in [state : {"normal", "watching", "triggered"}, trigger : Nat, clear : Nat]
      /\ TriggerSamples \in Nat \ {0} /\ ClearSamples \in Nat \ {0} /\ Clear < Trigger
      /\ Trigger \in 0..2 /\ Clear \in 0..2
      /\ rank \in 0..2 \/ rank = -1
      /\ n \in Nat /\ Len(samples') = n + 1
  BY <1>1, PressureSample
  DEF PressureInv, PressureType, PressureAssumption, Pressure!Settings, Pressure!Ranks,
      Pressure!Unknown
<1>3. /\ rank \in High <=> rank >= Trigger
      /\ rank \in Low <=> rank <= Clear /\ rank # -1
      /\ rank \in Low => rank \notin High
  BY <1>2 DEF High, Low, Pressure!High, Pressure!Low
<1>4. attempts' = IF policy.state # "triggered" /\ policy'.state = "triggered"
                  THEN attempts \cup {n + 1} ELSE attempts
  BY <1>2 DEF Pressure!Observe
<1>5. CASE rank = -1
  <2>1. policy' = [policy EXCEPT !.trigger = 0, !.clear = 0]
    BY <1>1, <1>5 DEF Pressure!Observed, Pressure!Unknown, Pressure!Unsure
  <2>2. rank \notin High /\ rank \notin Low
    BY <1>2, <1>3, <1>5
  <2>3. /\ policy' \in [state : {"normal", "watching", "triggered"}, trigger : Nat, clear : Nat]
        /\ policy'.state = policy.state /\ policy'.trigger = 0 /\ policy'.clear = 0
        /\ 0 < TriggerSamples /\ 0 < ClearSamples
    <3>1. policy' = [state |-> policy.state, trigger |-> 0, clear |-> 0]
      BY <1>2, <2>1
    <3> QED
      BY <1>2, <3>1
  <2>4. attempts' = attempts
    BY <1>4, <2>3
  <2> QED
    BY <1>1, <2>2, <2>3, <2>4
<1>6. CASE rank # -1 /\ policy.state = "triggered"
  <2>1. policy' = Pressure!Calming(policy, rank)
    BY <1>1, <1>6 DEF Pressure!Observed, Pressure!Unknown
  <2>2. CASE rank > Clear
    BY <1>1, <1>2, <1>3, <1>4, <1>6, <2>1, <2>2 DEF Pressure!Calming
  <2>3. CASE ~(rank > Clear) /\ policy.clear + 1 < ClearSamples
    BY <1>1, <1>2, <1>3, <1>4, <1>6, <2>1, <2>3 DEF Pressure!Calming
  <2>4. CASE ~(rank > Clear) /\ ~(policy.clear + 1 < ClearSamples)
    BY <1>1, <1>2, <1>3, <1>4, <1>6, <2>1, <2>4 DEF Pressure!Calming
  <2> QED
    BY <2>2, <2>3, <2>4
<1>7. CASE rank # -1 /\ policy.state # "triggered"
  <2>1. policy' = Pressure!Rising(policy, rank)
    BY <1>1, <1>7 DEF Pressure!Observed, Pressure!Unknown
  <2>2. CASE rank < Trigger
    BY <1>1, <1>2, <1>3, <1>4, <1>7, <2>1, <2>2 DEF Pressure!Rising
  <2>3. CASE ~(rank < Trigger) /\ policy.trigger + 1 >= TriggerSamples
    BY <1>1, <1>2, <1>3, <1>4, <1>7, <2>1, <2>3 DEF Pressure!Rising
  <2>4. CASE ~(rank < Trigger) /\ ~(policy.trigger + 1 >= TriggerSamples)
    BY <1>1, <1>2, <1>3, <1>4, <1>7, <2>1, <2>4 DEF Pressure!Rising
  <2> QED
    BY <2>2, <2>3, <2>4
<1> QED
  BY <1>5, <1>6, <1>7

\* A sample of an episode that begins, and every other, keeps the invariant.
LEMMA PressureStep ==
  ASSUME PressureAssumption, PressureInv, Pressure!Observe
  PROVE  PressureInv'
<1>0. PICK n \in Nat : n = Len(samples)
  BY DEF PressureInv, PressureType
<1>1. PICK rank \in Pressure!Ranks \cup {Pressure!Unknown} :
         /\ samples' = Append(samples, rank)
         /\ policy' \in [state : {"normal", "watching", "triggered"}, trigger : Nat, clear : Nat]
         /\ rank \in Low => rank \notin High
         /\ \/ /\ policy.state # "triggered" /\ policy'.state = "triggered" /\ rank \in High
               /\ policy.trigger + 1 >= TriggerSamples
               /\ policy'.clear = 0 /\ attempts' = attempts \cup {n + 1}
            \/ /\ policy.state # "triggered" /\ policy'.state # "triggered"
               /\ policy'.trigger = (IF rank \in High THEN policy.trigger + 1 ELSE 0)
               /\ policy'.trigger < TriggerSamples /\ attempts' = attempts
            \/ /\ policy.state = "triggered" /\ policy'.state = "triggered"
               /\ policy'.clear = (IF rank \in Low THEN policy.clear + 1 ELSE 0)
               /\ policy'.clear < ClearSamples /\ attempts' = attempts
            \/ /\ policy.state = "triggered" /\ policy'.state # "triggered" /\ rank \in Low
               /\ policy.clear + 1 >= ClearSamples /\ policy'.trigger = 0 /\ attempts' = attempts
  BY <1>0, PressureObserved
<1>2. /\ n \in Nat /\ Len(samples') = n + 1
      /\ samples' \in Seq(Pressure!Ranks \cup {Pressure!Unknown})
      /\ \A i \in 0..n : Within(samples', i, TriggerSamples, High)
                           <=> Within(samples, i, TriggerSamples, High)
      /\ policy.state # "triggered" =>
           Ends(samples', IF rank \in High THEN policy.trigger + 1 ELSE 0, High)
      /\ policy.state = "triggered" =>
           Ends(samples', IF rank \in Low THEN policy.clear + 1 ELSE 0, Low)
      /\ \A k : Ends(samples', k, High) =>
           (Within(samples', n + 1, TriggerSamples, High) <=> TriggerSamples <= k)
      /\ \A k : Ends(samples', k, Low) =>
           (Within(samples', n + 1, ClearSamples, Low) <=> ClearSamples <= k)
  BY <1>0, <1>1, PressureSample
<1>3. /\ policy \in [state : {"normal", "watching", "triggered"}, trigger : Nat, clear : Nat]
      /\ TriggerSamples \in Nat \ {0} /\ ClearSamples \in Nat \ {0}
      /\ attempts \subseteq 1..n
      /\ samples \in Seq(Pressure!Ranks \cup {Pressure!Unknown})
  BY <1>0 DEF PressureInv, PressureType, PressureAssumption, Pressure!Settings
<1>4. /\ \A a \in Nat, m \in Int : m <= n => (ClearedBy(a, m)' <=> ClearedBy(a, m))
      /\ \A a \in Nat : ClearedBy(a, n + 1)' <=>
           \/ ClearedBy(a, n)
           \/ a + ClearSamples <= n + 1 /\ Within(samples', n + 1, ClearSamples, Low)
  BY <1>0, PressureCleared
<1>5. samples'[n + 1] = rank /\ \A i \in 1..n : samples'[i] = samples[i]
  BY <1>0, <1>1, <1>3
<1>6. ASSUME NEW R, rank \notin R PROVE Ends(samples', 0, R)
  BY <1>2, <1>5, <1>6 DEF Ends
<1>7. attempts' \subseteq attempts \cup {n + 1}
  BY <1>1
<1>8. PressureType'
  <2>1. attempts' \subseteq 1..Len(samples')
    BY <1>2, <1>3, <1>7
  <2> QED
    BY <1>1, <1>2, <2>1 DEF PressureInv, PressureType, Pressure!Settings
<1>9. ASSUME NEW i \in 1..n PROVE Justified(i)'
  <2>1. Justified(i)
    BY <1>0 DEF PressureInv
  <2>2. i \in attempts' <=> i \in attempts
    BY <1>1, <1>2
  <2>3. \A a : a \in attempts' /\ a < i <=> a \in attempts /\ a < i
    BY <1>1, <1>2, <1>3
  <2>4. \A a \in attempts : ClearedBy(a, i - TriggerSamples)' <=> ClearedBy(a, i - TriggerSamples)
    BY <1>2, <1>3, <1>4
  <2>5. i \in 0..n /\ (Within(samples', i, TriggerSamples, High)
                         <=> Within(samples, i, TriggerSamples, High))
    BY <1>2
  <2> QED
    BY <2>1, <2>2, <2>3, <2>4, <2>5 DEF Justified
<1>10. PressureCounts' /\ Justified(n + 1)'
  <2>1. CASE /\ policy.state # "triggered" /\ policy'.state = "triggered" /\ rank \in High
             /\ policy.trigger + 1 >= TriggerSamples
             /\ policy'.clear = 0 /\ attempts' = attempts \cup {n + 1}
    <3>1. /\ Ends(samples, policy.trigger, High) /\ policy.trigger < TriggerSamples
          /\ \A a \in attempts : ClearedBy(a, n)
      BY <1>0, <2>1 DEF PressureInv, PressureCounts
    <3>2. Ends(samples', policy.trigger + 1, High)
      BY <1>2, <2>1
    <3>3. Within(samples', n + 1, TriggerSamples, High)
      BY <1>2, <2>1, <3>2
    <3>4. ASSUME NEW a \in attempts PROVE ClearedBy(a, n + 1 - TriggerSamples)'
      <4>1. PICK c \in (a + ClearSamples)..n : Within(samples, c, ClearSamples, Low)
        BY <3>1 DEF ClearedBy
      <4>2. c \in Int /\ c \in (c - ClearSamples + 1)..c /\ c \in 1..n
        BY <1>2, <1>3
      <4>3. samples[c] \in Low
        BY <4>1, <4>2 DEF Within
      <4>4. samples[c] \notin High
        BY <4>3, <4>2, <1>3
        DEF High, Low, Pressure!High, Pressure!Low, PressureInv, PressureType,
            Pressure!Settings, PressureAssumption, Pressure!Ranks
      <4>5. c \notin (n - policy.trigger + 1)..n
        BY <1>0, <3>1, <4>4 DEF Ends
      <4>6. c <= n + 1 - TriggerSamples
        BY <1>2, <1>3, <2>1, <3>1, <4>2, <4>5
      <4>7. c \in (a + ClearSamples)..(n + 1 - TriggerSamples)
        BY <4>1, <4>6, <1>2, <1>3
      <4>8. ClearedBy(a, n + 1 - TriggerSamples)
        BY <4>1, <4>7 DEF ClearedBy
      <4> QED
        BY <1>2, <1>3, <1>4, <4>8
    <3>5. Justified(n + 1)'
      BY <1>2, <1>3, <2>1, <3>3, <3>4 DEF Justified
    <3>6. Ends(samples', 0, Low)
      BY <1>1, <1>6, <2>1
    <3>7. ~ClearedBy(n + 1, n + 1)'
      BY <1>2, <1>3 DEF ClearedBy
    <3>8. \A a \in attempts' : a + 0 <= n + 1
      BY <1>2, <1>3, <2>1
    <3> QED
      BY <1>2, <1>3, <2>1, <3>5, <3>6, <3>7, <3>8 DEF PressureCounts
  <2>2. CASE /\ policy.state # "triggered" /\ policy'.state # "triggered"
             /\ policy'.trigger = (IF rank \in High THEN policy.trigger + 1 ELSE 0)
             /\ policy'.trigger < TriggerSamples /\ attempts' = attempts
    <3>1. \A a \in attempts : ClearedBy(a, n)
      BY <1>0, <2>2 DEF PressureInv, PressureCounts
    <3>2. Ends(samples', policy'.trigger, High)
      BY <1>2, <2>2
    <3>3. ~Within(samples', n + 1, TriggerSamples, High)
      BY <1>1, <1>2, <1>3, <2>2, <3>2
    <3>4. \A a \in attempts : ClearedBy(a, n + 1)'
      BY <1>3, <1>4, <3>1
    <3>5. Justified(n + 1)'
      BY <1>2, <1>3, <2>2, <3>3 DEF Justified
    <3> QED
      BY <1>2, <2>2, <3>2, <3>4, <3>5 DEF PressureCounts
  <2>3. CASE policy.state = "triggered" /\ attempts' = attempts
    <3>1. /\ policy.clear < ClearSamples
          /\ \A a \in attempts : a + policy.clear <= n
      BY <1>0, <2>3 DEF PressureInv, PressureCounts
    <3>2. PICK a \in attempts : ~ClearedBy(a, n)
      BY <1>0, <2>3 DEF PressureInv, PressureCounts
    <3>3. ~ClearedBy(a, n + 1 - TriggerSamples)'
      <4>1. n + 1 - TriggerSamples \in Int /\ n + 1 - TriggerSamples <= n
        BY <1>2, <1>3
      <4>2. ~ClearedBy(a, n + 1 - TriggerSamples)
        <5>1. \A c \in (a + ClearSamples)..(n + 1 - TriggerSamples) : c \in (a + ClearSamples)..n
          BY <1>2, <1>3
        <5> QED
          BY <3>2, <5>1 DEF ClearedBy
      <4> QED
        BY <1>3, <1>4, <4>1, <4>2
    <3>4. Justified(n + 1)'
      BY <1>2, <1>3, <2>3, <3>2, <3>3 DEF Justified
    <3>5. CASE /\ policy'.state = "triggered" /\ policy'.clear < ClearSamples
               /\ policy'.clear = (IF rank \in Low THEN policy.clear + 1 ELSE 0)
      <4>1. Ends(samples', policy'.clear, Low)
        BY <1>2, <2>3, <3>5
      <4>2. ~Within(samples', n + 1, ClearSamples, Low)
        BY <1>1, <1>2, <1>3, <3>5, <4>1
      <4>3. ~ClearedBy(a, n + 1)'
        BY <1>3, <1>4, <3>2, <4>2
      <4>4. \A b \in attempts' : b + policy'.clear <= n + 1
        BY <1>2, <1>3, <2>3, <3>1, <3>5
      <4> QED
        BY <1>2, <2>3, <3>4, <3>5, <4>1, <4>3, <4>4 DEF PressureCounts
    <3>6. CASE /\ policy'.state # "triggered" /\ rank \in Low
               /\ policy.clear + 1 >= ClearSamples /\ policy'.trigger = 0
      <4>1. Ends(samples', policy.clear + 1, Low)
        BY <1>2, <2>3, <3>6
      <4>2. Within(samples', n + 1, ClearSamples, Low)
        BY <1>2, <1>3, <3>6, <4>1
      <4>3. \A b \in attempts' : ClearedBy(b, n + 1)'
        BY <1>2, <1>3, <1>4, <2>3, <3>1, <3>6, <4>2
      <4>4. Ends(samples', 0, High)
        BY <1>1, <1>6, <3>6
      <4> QED
        BY <1>2, <1>3, <3>4, <3>6, <4>3, <4>4 DEF PressureCounts
    <3> QED
      BY <1>1, <2>3, <3>5, <3>6
  <2> QED
    BY <1>1, <2>1, <2>2, <2>3
<1> QED
  BY <1>2, <1>8, <1>9, <1>10 DEF PressureInv

\* The invariant holds in every behaviour.
LEMMA PressureInvHolds ==
  ASSUME PressureAssumption
  PROVE  ServedSpec => [](component = "pressure" => PressureInv)
<1>1. ASSUME PressureInv, UNCHANGED Pressure!vars PROVE PressureInv'
  BY <1>1 DEF PressureInv, PressureType, PressureCounts, Justified, ClearedBy, Pressure!vars,
              Pressure!Settings
<1>2. PressureInv /\ [Pressure!Next]_(Pressure!vars) => PressureInv'
  BY <1>1, PressureStep DEF Pressure!Next
<1>3. ServedInit => (component = "pressure" => PressureInv)
  BY PressureInit DEF ServedInit
<1>4. (component = "pressure" => PressureInv) /\ [ServedNext]_servingVars
         => (component = "pressure" => PressureInv)'
  BY <1>2, SameComponent
<1> QED
  BY <1>3, <1>4, PTL DEF ServedSpec

\* The policy acts exactly where the samples say that an episode of pressure begins: after
\* enough high ones in a row, and again only after enough low ones in a row.
LEMMA PressureEpisodes ==
  ASSUME PressureInv
  PROVE  Pressure!EpisodesAreOfTheSamples
<1>1. ASSUME NEW i \in 1..Len(samples), NEW earlier, earlier = {a \in attempts : a < i}
      PROVE  i \in attempts <=>
               /\ Pressure!Streak(i, TriggerSamples, Pressure!High)
               /\ \A a \in earlier : \E c \in (a + ClearSamples)..(i - TriggerSamples) :
                    Pressure!Streak(c, ClearSamples, Pressure!Low)
  <2>1. Justified(i)
    BY DEF PressureInv
  <2> QED
    BY <1>1, <2>1 DEF Justified, ClearedBy, Within, Pressure!Streak, High, Low
<1> QED
  BY <1>1 DEF Pressure!EpisodesAreOfTheSamples
-----------------------------------------------------------------------------
(* ResidencyPolicy: what is protected stays.                                 *)

\* There are finitely many names of runtimes, and as many requests at a time.
ResidencyAssumption == IsFiniteSet(Keys) /\ IsFiniteSet(Leasers)

Runtimes == [id : Nat, state : {"absent", "ready", "stopping", "failed"}, active : Int]
Leases == [pc : {"idle", "active", "mark"}, key : Keys \cup {Residency!NoKey}, id : Nat]
Unloads == [pc : {"idle", "close", "forget"}, key : Keys \cup {Residency!NoKey}, id : Nat]
Evictions ==
    [protect : BOOLEAN, default : Keys \cup {Residency!NoKey}, pins : SUBSET Keys, todo : Seq(Keys)]

ResidencyType ==
    /\ rt \in [Keys -> Runtimes] /\ req \in [Leasers -> Leases]
    /\ unloader \in [Residency!Threads -> Unloads] /\ evictor \in Evictions
    /\ byDefault \in Keys \cup {Residency!NoKey} /\ pins \in SUBSET Keys
    /\ loader # Residency!NoLoad => loader.key \in Keys
    /\ published \in Nat

\* The requests that are at work on the runtime that is under a key now.
Leased(k) == {r \in Leasers : req[r].pc = "active" /\ req[r].key = k /\ req[r].id = rt[k].id}

\* A runtime knows how many requests are at work on it: its name may have been that of
\* another runtime, whose requests are not counted for this one.
LeasesCounted ==
    /\ \A k \in Keys : rt[k].active = Cardinality(Leased(k))
    /\ \A r \in Leasers : req[r].pc = "active" => req[r].key \in Keys /\ req[r].id \in 1..published
    /\ \A k \in Keys : rt[k].state = "ready" => rt[k].id \in 1..published

Forgotten(k) ==
    \E t \in Residency!Threads : unloader[t].pc = "forget" /\ unloader[t].key = k

PinsAreKnown == \A k \in pins \ Residency!Resident : Forgotten(k)

StoppedIsUnused == \A k \in Keys : rt[k].state = "stopping" => rt[k].active = 0

\* What an eviction may not stop: what was pinned when it selected, and, if it protects the
\* default, what was the default then.
Spared(k) == k \in evictor.pins \/ (evictor.protect /\ k = evictor.default)

\* What an eviction stops, or has yet to stop, is nothing that it spares.
EvictionSpares ==
    /\ \A i \in 1..Len(evictor.todo) : ~Spared(evictor.todo[i])
    /\ unloader["evictor"] # Residency!Idle => ~Spared(unloader["evictor"].key)

ResidencyInv == ResidencyType /\ LeasesCounted /\ PinsAreKnown /\ StoppedIsUnused /\ EvictionSpares

\* The instance counts as this module does.
LEMMA ResidencyCounts == ASSUME NEW S PROVE Residency!Cardinality(S) = Cardinality(S)
  BY DEF Residency!Cardinality, Cardinality

\* No runtime has been loaded.
LEMMA ResidencyInit ==
  ASSUME ResidencyAssumption, Residency!Init
  PROVE  ResidencyInv
<1>1. ResidencyType
  BY DEF ResidencyType, Runtimes, Leases, Unloads, Evictions, Residency!Init, Residency!Absent,
         Residency!Idle, Residency!NoEviction, Residency!Threads
<1>2. \A k \in Keys : Leased(k) = {}
  BY DEF Leased, Residency!Init, Residency!Idle
<1>3. LeasesCounted
  BY <1>2, FS_EmptySet DEF LeasesCounted, Residency!Init, Residency!Absent, Residency!Idle
<1> QED
  BY <1>1, <1>3
  DEF ResidencyInv, PinsAreKnown, StoppedIsUnused, EvictionSpares, Spared, Residency!Init,
      Residency!Absent, Residency!Idle, Residency!NoEviction, Residency!Threads

\* What can be said of a runtime, and of one of which the state or the count changes.
LEMMA RuntimeFields ==
  ASSUME NEW x \in Runtimes
  PROVE  /\ x.id \in Nat /\ x.active \in Int
         /\ [x EXCEPT !.state = "failed"] \in Runtimes
         /\ [x EXCEPT !.active = @ - 1] \in Runtimes
  BY DEF Runtimes

\* A runtime in the place of another leaves runtimes under all keys.
LEMMA RuntimesUpdated ==
  ASSUME NEW f \in [Keys -> Runtimes], NEW k, NEW x, k \in Keys => x \in Runtimes
  PROVE  [f EXCEPT ![k] = x] \in [Keys -> Runtimes]
  OBVIOUS

\* A runtime that is published or removed has no requests at work.
LEMMA NewRuntimeCounted ==
  ASSUME ResidencyInv, NEW k \in Keys, UNCHANGED req, rt[k].active = 0, published' \in Nat,
         published' >= published,
         NEW x \in Runtimes,
         rt' = [rt EXCEPT ![k] = x], x.id = published + 1 \/ x.id = 0, x.active = 0,
         x.state = "ready" => x.id = published + 1 /\ published' = published + 1
  PROVE  LeasesCounted'
<1>1. Leased(k)' = {}
  BY DEF Leased, ResidencyInv, ResidencyType, Runtimes, Leases, Unloads, Evictions, LeasesCounted
<1>2. \A j \in Keys \ {k} : Leased(j)' = Leased(j)
  BY DEF Leased, ResidencyInv, ResidencyType, Runtimes, Leases, Unloads, Evictions
<1>3. ASSUME NEW j \in Keys PROVE rt'[j].active = Cardinality(Leased(j)')
  BY <1>1, <1>2, FS_EmptySet
  DEF ResidencyInv, LeasesCounted, ResidencyType, Runtimes, Leases, Unloads, Evictions
<1>4. ASSUME NEW j \in Keys, rt'[j].state = "ready" PROVE rt'[j].id \in 1..published'
  BY <1>4 DEF ResidencyInv, LeasesCounted, ResidencyType, Runtimes, Leases, Unloads, Evictions
<1> QED
  BY <1>3, <1>4 DEF ResidencyInv, LeasesCounted, ResidencyType, Runtimes, Leases, Unloads, Evictions

\* A change of state leaves the requests at work what they are.
LEMMA SameRuntimesCounted ==
  ASSUME ResidencyInv, UNCHANGED <<req, published>>,
         \A k \in Keys : rt'[k].id = rt[k].id /\ rt'[k].active = rt[k].active
                          /\ (rt'[k].state = "ready" => rt[k].state = "ready")
  PROVE  LeasesCounted'
<1>1. \A j \in Keys : Leased(j)' = Leased(j)
  BY DEF Leased
<1> QED
  BY <1>1 DEF ResidencyInv, LeasesCounted

\* What has to be shown of a step that leaves the eviction as it is.
LEMMA ResidencyStep ==
  ASSUME ResidencyInv, UNCHANGED evictor, unloader'["evictor"] = unloader["evictor"],
         ResidencyType', LeasesCounted',
         \A k \in Keys : rt'[k].state = "stopping" =>
            rt'[k].active = 0 \/ (rt[k].state = "stopping" /\ rt'[k].active = rt[k].active),
         \A k \in pins' \ Residency!Resident' : Forgotten(k)'
  PROVE  ResidencyInv'
  BY DEF ResidencyInv, StoppedIsUnused, PinsAreKnown, EvictionSpares, Spared

\* A runtime is published.
LEMMA PublishKeepsResidency ==
  ASSUME ResidencyInv, NEW k \in Keys, Residency!Publish(k)
  PROVE  ResidencyInv'
<1>1. /\ published' = published + 1 /\ rt[k].active = 0 /\ rt[k].id = 0
      /\ rt' = [rt EXCEPT ![k] = [id |-> published', state |-> "ready", active |-> 0]]
      /\ byDefault' \in {byDefault, k} /\ loader'.key = k
      /\ UNCHANGED <<pins, req, unloader, evictor>>
  BY DEF Residency!Publish, Residency!Absent
<1>2. ResidencyType'
  BY <1>1 DEF ResidencyInv, ResidencyType, Runtimes, Leases, Unloads, Evictions
<1>3. LeasesCounted'
  <2>1. PICK x : x = [id |-> published + 1, state |-> "ready", active |-> 0]
    OBVIOUS
  <2>2. /\ x \in Runtimes
        /\ rt' = [rt EXCEPT ![k] = x] /\ x.id = published + 1 /\ x.active = 0
        /\ published' \in Nat /\ published' >= published
    BY <1>1, <2>1 DEF ResidencyInv, ResidencyType, Runtimes, Leases, Unloads, Evictions
  <2> QED
    BY <1>1, <2>2, NewRuntimeCounted
<1>4. /\ rt'[k] = [id |-> published', state |-> "ready", active |-> 0]
      /\ \A j \in Keys \ {k} : rt'[j] = rt[j]
      /\ published' # 0
  BY <1>1 DEF ResidencyInv, ResidencyType, Runtimes, Leases, Unloads, Evictions
<1>5. \A j \in pins' \ Residency!Resident' : j \in pins \ Residency!Resident
  BY <1>1, <1>4 DEF Residency!Resident
<1>6. \A j \in pins' \ Residency!Resident' : Forgotten(j)'
  BY <1>1, <1>5 DEF ResidencyInv, PinsAreKnown, Forgotten
<1> QED
  BY <1>1, <1>2, <1>3, <1>4, <1>6, ResidencyStep

\* A runtime is replaced by another load of it.
LEMMA ReloadKeepsResidency ==
  ASSUME ResidencyInv, NEW k \in Keys, Residency!Reload(k)
  PROVE  ResidencyInv'
<1>1. /\ published' = published + 1 /\ rt[k].active = 0 /\ rt[k].state = "ready"
      /\ UNCHANGED <<byDefault, pins, req, unloader, evictor>> /\ loader'.key = k
  BY DEF Residency!Reload
<1>2. PICK x : x = [id |-> published + 1, state |-> "ready", active |-> 0]
  OBVIOUS
<1>3. rt' = [rt EXCEPT ![k] = x]
  <2>1. rt' = [rt EXCEPT ![k] = [rt[k] EXCEPT !.id = published + 1]]
    BY DEF Residency!Reload
  <2>2. rt[k] \in Runtimes
    BY DEF ResidencyInv, ResidencyType, Runtimes, Leases, Unloads, Evictions
  <2>3. [rt[k] EXCEPT !.id = published + 1] = x
    BY <1>1, <1>2, <2>2 DEF Runtimes
  <2> QED
    BY <2>1, <2>3
<1>4. /\ x \in Runtimes
      /\ x.id = published + 1 /\ x.active = 0 /\ x.state = "ready"
      /\ published' \in Nat /\ published' >= published /\ published' # 0
  BY <1>1, <1>2 DEF ResidencyInv, ResidencyType, Runtimes, Leases, Unloads, Evictions
<1>5. ResidencyType'
  BY <1>1, <1>3, <1>4 DEF ResidencyInv, ResidencyType, Runtimes, Leases, Unloads, Evictions
<1>6. rt'[k] = x /\ \A j \in Keys \ {k} : rt'[j] = rt[j]
  BY <1>3 DEF ResidencyInv, ResidencyType, Runtimes, Leases, Unloads, Evictions
<1>7. \A j \in pins' \ Residency!Resident' : j \in pins \ Residency!Resident
  BY <1>1, <1>4, <1>6 DEF Residency!Resident
<1>8. \A j \in pins' \ Residency!Resident' : Forgotten(j)'
  BY <1>1, <1>7 DEF ResidencyInv, PinsAreKnown, Forgotten
<1>9. LeasesCounted'
  BY <1>1, <1>3, <1>4, NewRuntimeCounted
<1> QED
  BY <1>1, <1>4, <1>5, <1>6, <1>8, <1>9, ResidencyStep

\* The bookkeeping of a load, of the use of a runtime and of the default.
LEMMA BookkeepingKeepsResidency ==
  ASSUME ResidencyInv, UNCHANGED <<rt, pins, req, unloader, evictor, published>>,
         byDefault' \in Keys \cup {Residency!NoKey}, loader' \in {loader, Residency!NoLoad}
  PROVE  ResidencyInv'
<1>1. ResidencyType'
  BY DEF ResidencyInv, ResidencyType, Runtimes, Leases, Unloads, Evictions
<1>2. LeasesCounted'
  BY SameRuntimesCounted
<1> QED
  BY <1>1, <1>2
  DEF ResidencyInv, PinsAreKnown, StoppedIsUnused, Forgotten, EvictionSpares, Spared, Residency!Resident

\* A pin is set on a resident runtime, or taken.
LEMMA PinKeepsResidency ==
  ASSUME ResidencyInv, NEW k \in Keys, NEW pinned \in BOOLEAN, Residency!SetPinned(k, pinned)
  PROVE  ResidencyInv'
<1>1. /\ k \in Residency!Resident
      /\ UNCHANGED <<rt, req, unloader, evictor, published, loader, byDefault>>
      /\ pins' \subseteq pins \cup {k}
  BY DEF Residency!SetPinned
<1>2. ResidencyType'
  BY <1>1 DEF ResidencyInv, ResidencyType, Runtimes, Leases, Unloads, Evictions
<1>3. LeasesCounted'
  BY <1>1, SameRuntimesCounted
<1>4. \A j \in pins' \ Residency!Resident' : Forgotten(j)'
  BY <1>1 DEF ResidencyInv, PinsAreKnown, Forgotten, Residency!Resident
<1> QED
  BY <1>1, <1>2, <1>3, <1>4, ResidencyStep DEF ResidencyInv, StoppedIsUnused

-----------------------------------------------------------------------------
(* Requests at work. *)

\* A request is at work on the runtime under its key, and is counted for it.
LEMMA LeaseKeepsResidency ==
  ASSUME ResidencyAssumption, ResidencyInv, NEW k \in Keys, NEW r \in Leasers,
         Residency!Lease(r, k)
  PROVE  ResidencyInv'
<1>1. /\ req[r].pc = "idle" /\ rt[k].state = "ready"
      /\ rt' = [rt EXCEPT ![k].active = @ + 1]
      /\ req' = [req EXCEPT ![r] = [pc |-> "active", key |-> k, id |-> rt[k].id]]
      /\ UNCHANGED <<pins, byDefault, unloader, evictor, published, loader>>
  BY DEF Residency!Lease, Residency!Idle
<1>2. ResidencyType'
  BY <1>1 DEF ResidencyInv, ResidencyType, Runtimes, Leases, Unloads, Evictions
<1>3. /\ \A j \in Keys : rt'[j].id = rt[j].id /\ rt'[j].state = rt[j].state
      /\ \A j \in Keys \ {k} : rt'[j] = rt[j]
      /\ rt'[k].active = rt[k].active + 1
      /\ req'[r] = [pc |-> "active", key |-> k, id |-> rt[k].id]
      /\ \A s \in Leasers \ {r} : req'[s] = req[s]
  BY <1>1 DEF ResidencyInv, ResidencyType, Runtimes, Leases, Unloads, Evictions
<1>4. \A j \in Keys \ {k} : Leased(j)' = Leased(j)
  BY <1>1, <1>3 DEF Leased
<1>5. Leased(k)' = Leased(k) \cup {r} /\ r \notin Leased(k) /\ IsFiniteSet(Leased(k))
  <2>1. Leased(k) \subseteq Leasers
    BY DEF Leased
  <2> QED
    BY <1>1, <1>3, <2>1, FS_Subset DEF Leased, ResidencyAssumption
<1>6. Cardinality(Leased(k)') = Cardinality(Leased(k)) + 1
  BY <1>5, FS_AddElement
<1>7. LeasesCounted'
  BY <1>1, <1>3, <1>4, <1>6 DEF ResidencyInv, LeasesCounted
<1>8. \A j \in pins' \ Residency!Resident' : Forgotten(j)'
  BY <1>1, <1>3 DEF ResidencyInv, PinsAreKnown, Forgotten, Residency!Resident
<1> QED
  BY <1>1, <1>2, <1>3, <1>7, <1>8, ResidencyStep

\* The lease of a request ends: where its runtime has gone, there is nothing to count.
LEMMA EndLeaseKeepsResidency ==
  ASSUME ResidencyAssumption, ResidencyInv, NEW r \in Leasers, Residency!EndLease(r)
  PROVE  ResidencyInv'
<1> DEFINE k == req[r].key
<1>1. /\ req[r].pc = "active"
      /\ rt' = IF rt[k].id = req[r].id THEN [rt EXCEPT ![k].active = @ - 1] ELSE rt
      /\ req' = [req EXCEPT ![r].pc = "mark"]
      /\ UNCHANGED <<pins, byDefault, unloader, evictor, published, loader>>
  BY DEF Residency!EndLease, Residency!Same
<1>2. k \in Keys
  BY <1>1 DEF ResidencyInv, LeasesCounted
<1>3. ResidencyType'
  <2>1. rt' \in [Keys -> Runtimes]
    <3>1. rt[k] \in Runtimes /\ [rt[k] EXCEPT !.active = @ - 1] \in Runtimes
      BY <1>2, RuntimeFields DEF ResidencyInv, ResidencyType
    <3> QED
      BY <1>1, <1>2, <3>1 DEF ResidencyInv, ResidencyType
  <2>2. req' \in [Leasers -> Leases]
    BY <1>1 DEF ResidencyInv, ResidencyType, Leases
  <2> QED
    BY <1>1, <2>1, <2>2 DEF ResidencyInv, ResidencyType, Runtimes, Leases, Unloads, Evictions
<1>4. /\ \A j \in Keys : rt'[j].id = rt[j].id /\ rt'[j].state = rt[j].state
      /\ \A j \in Keys \ {k} : rt'[j] = rt[j]
      /\ rt'[k].active = (IF rt[k].id = req[r].id THEN rt[k].active - 1 ELSE rt[k].active)
      /\ req'[r].pc = "mark"
      /\ \A s \in Leasers \ {r} : req'[s] = req[s]
  BY <1>1, <1>2 DEF ResidencyInv, ResidencyType, Runtimes, Leases, Unloads, Evictions
<1>5. \A j \in Keys : Leased(j)' = Leased(j) \ {r}
  BY <1>1, <1>4 DEF Leased
<1>6. \A j \in Keys : r \in Leased(j) <=> j = k /\ rt[k].id = req[r].id
  BY <1>1 DEF Leased
<1> HIDE DEF k
<1>7. \A j \in Keys : IsFiniteSet(Leased(j))
  <2>1. \A j \in Keys : Leased(j) \subseteq Leasers
    BY DEF Leased
  <2> QED
    BY <2>1, FS_Subset DEF ResidencyAssumption
<1>8. ASSUME NEW j \in Keys PROVE rt'[j].active = Cardinality(Leased(j)')
  <2>1. rt[j].active = Cardinality(Leased(j))
    BY DEF ResidencyInv, LeasesCounted
  <2>2. CASE r \in Leased(j)
    <3>1. Cardinality(Leased(j)') = Cardinality(Leased(j)) - 1
      BY <1>5, <1>7, <2>2, FS_RemoveElement
    <3> QED
      BY <1>4, <1>6, <2>1, <2>2, <3>1
  <2>3. CASE r \notin Leased(j)
    <3>1. Leased(j)' = Leased(j)
      BY <1>5, <2>3
    <3> QED
      BY <1>4, <1>6, <2>1, <2>3, <3>1
  <2> QED
    BY <2>2, <2>3
<1>9. LeasesCounted'
  <2>1. ASSUME NEW s \in Leasers, req'[s].pc = "active"
        PROVE  req'[s].key \in Keys /\ req'[s].id \in 1..published'
    BY <1>1, <1>4, <2>1 DEF ResidencyInv, LeasesCounted
  <2> QED
    BY <1>1, <1>4, <1>8, <2>1 DEF ResidencyInv, LeasesCounted
<1>10. \A j \in pins' \ Residency!Resident' : Forgotten(j)'
  BY <1>1, <1>4 DEF ResidencyInv, PinsAreKnown, Forgotten, Residency!Resident
<1>11. ASSUME NEW j \in Keys, rt'[j].state = "stopping"
       PROVE  rt'[j].active = 0 \/ (rt[j].state = "stopping" /\ rt'[j].active = rt[j].active)
  <2>1. rt[j].state = "stopping" /\ rt[j].active = 0
    BY <1>4, <1>11 DEF ResidencyInv, StoppedIsUnused
  <2>2. Leased(j) = {}
    BY <1>7, <2>1, FS_EmptySet DEF ResidencyInv, LeasesCounted
  <2>3. Leased(j)' = {}
    BY <1>5, <2>2
  <2> QED
    BY <1>8, <2>3, FS_EmptySet
<1> QED
  BY <1>1, <1>3, <1>9, <1>10, <1>11, ResidencyStep

\* A request says when it used its runtime.
LEMMA MarkKeepsResidency ==
  ASSUME ResidencyInv, NEW r \in Leasers, Residency!Mark(r)
  PROVE  ResidencyInv'
<1>1. /\ req[r].pc = "mark" /\ UNCHANGED <<rt, pins, byDefault, unloader, evictor, published, loader>>
      /\ req' = [req EXCEPT ![r] = [pc |-> "idle", key |-> Residency!NoKey, id |-> 0]]
  BY DEF Residency!Mark, Residency!Idle
<1>2. ResidencyType'
  BY <1>1 DEF ResidencyInv, ResidencyType, Runtimes, Leases, Unloads, Evictions
<1>3. req'[r].pc = "idle" /\ \A s \in Leasers \ {r} : req'[s] = req[s]
  BY <1>1 DEF ResidencyInv, ResidencyType, Runtimes, Leases, Unloads, Evictions
<1>4. \A j \in Keys : Leased(j)' = Leased(j)
  BY <1>1, <1>3 DEF Leased
<1>5. LeasesCounted'
  <2>1. ASSUME NEW s \in Leasers, req'[s].pc = "active"
        PROVE  req'[s].key \in Keys /\ req'[s].id \in 1..published'
    BY <1>1, <1>3, <2>1 DEF ResidencyInv, LeasesCounted
  <2> QED
    BY <1>1, <1>4, <2>1 DEF ResidencyInv, LeasesCounted
<1>6. \A j \in pins' \ Residency!Resident' : Forgotten(j)'
  BY <1>1 DEF ResidencyInv, PinsAreKnown, Forgotten, Residency!Resident
<1> QED
  BY <1>1, <1>2, <1>5, <1>6, ResidencyStep DEF ResidencyInv, StoppedIsUnused

-----------------------------------------------------------------------------
(* Unloads and evictions. *)

\* A thread begins to stop a runtime that nobody uses; the evictor only one that its
\* eviction does not spare.
LEMMA UnloadBegins ==
  ASSUME ResidencyInv, NEW t \in Residency!Threads, NEW k \in Keys, Residency!BeginUnload(t, k),
         UNCHANGED <<pins, byDefault, req, published, loader>>,
         evictor' \in Evictions,
         evictor' = [evictor EXCEPT !.todo = evictor'.todo],
         \A i \in 1..Len(evictor'.todo) : ~Spared(evictor'.todo[i]),
         t = "evictor" => ~Spared(k)
  PROVE  ResidencyInv'
<1>1. /\ rt[k].active = 0 /\ rt[k].state \in {"ready", "failed"}
      /\ rt' = [rt EXCEPT ![k].state = "stopping"]
      /\ unloader' = [unloader EXCEPT ![t] = [pc |-> "close", key |-> k, id |-> rt[k].id]]
      /\ unloader[t] = Residency!Idle
  BY DEF Residency!BeginUnload, Residency!Unloadable
<1>2. ResidencyType'
  BY <1>1 DEF ResidencyInv, ResidencyType, Runtimes, Leases, Unloads, Evictions
<1>3. /\ \A j \in Keys : rt'[j].id = rt[j].id /\ rt'[j].active = rt[j].active
      /\ \A j \in Keys \ {k} : rt'[j] = rt[j]
      /\ rt'[k].state = "stopping"
      /\ unloader'[t].key = k /\ \A u \in Residency!Threads \ {t} : unloader'[u] = unloader[u]
  BY <1>1 DEF ResidencyInv, ResidencyType, Runtimes, Leases, Unloads, Evictions
<1>4. LeasesCounted'
  BY <1>3, SameRuntimesCounted
<1>5. StoppedIsUnused'
  BY <1>1, <1>3 DEF ResidencyInv, StoppedIsUnused
<1>6. PinsAreKnown'
  <2>1. unloader[t].pc # "forget"
    BY <1>1 DEF Residency!Idle
  <2> QED
    BY <1>3, <2>1 DEF ResidencyInv, PinsAreKnown, Forgotten, Residency!Resident
<1>7. EvictionSpares'
  <2>1. "evictor" \in Residency!Threads
    BY DEF Residency!Threads
  <2>2. \A j : Spared(j)' <=> Spared(j)
    BY DEF Spared, ResidencyInv, ResidencyType, Evictions
  <2> QED
    BY <1>3, <2>1, <2>2 DEF ResidencyInv, EvictionSpares, Spared
<1> QED
  BY <1>2, <1>4, <1>5, <1>6, <1>7 DEF ResidencyInv

\* An engine cannot be closed, or its runtime is removed, or forgotten.
LEMMA UnloadEnds ==
  ASSUME ResidencyInv, NEW t \in Residency!Threads,
         \/ Residency!CloseFails(t) \/ Residency!RemoveRuntime(t) \/ Residency!Forget(t)
  PROVE  ResidencyInv'
<1> DEFINE k == unloader[t].key
<1>0. "evictor" \in Residency!Threads
  BY DEF Residency!Threads
<1>1. CASE Residency!CloseFails(t)
  <2>1. /\ unloader[t].pc = "close" /\ rt' = [rt EXCEPT ![k].state = "failed"]
        /\ unloader' = [unloader EXCEPT ![t] = Residency!Idle]
        /\ UNCHANGED <<pins, byDefault, req, evictor, published, loader>>
    BY <1>1 DEF Residency!CloseFails
  <2>2. ResidencyType'
    <3>1. rt' \in [Keys -> Runtimes]
      <4>1. k \in Keys => [rt[k] EXCEPT !.state = "failed"] \in Runtimes
        BY RuntimeFields DEF ResidencyInv, ResidencyType
      <4> QED
        BY <2>1, <4>1, RuntimesUpdated DEF ResidencyInv, ResidencyType
    <3> QED
      BY <2>1, <3>1 DEF ResidencyInv, ResidencyType, Unloads, Residency!Idle
  <2>3. /\ \A j \in Keys : /\ rt'[j].id = rt[j].id /\ rt'[j].active = rt[j].active
                           /\ rt'[j].state \in {rt[j].state, "failed"}
        /\ unloader'[t] = Residency!Idle
        /\ \A u \in Residency!Threads \ {t} : unloader'[u] = unloader[u]
    BY <2>1 DEF ResidencyInv, ResidencyType, Runtimes, Leases, Unloads, Evictions
  <2>4. LeasesCounted'
    BY <2>1, <2>3, SameRuntimesCounted
  <2>5. StoppedIsUnused'
    BY <2>3 DEF ResidencyInv, StoppedIsUnused
  <2>6. PinsAreKnown'
    BY <2>1, <2>3 DEF ResidencyInv, PinsAreKnown, Forgotten, Residency!Resident
  <2>7. EvictionSpares'
    BY <1>0, <2>1, <2>3 DEF ResidencyInv, EvictionSpares, Spared
  <2> QED
    BY <2>2, <2>4, <2>5, <2>6, <2>7 DEF ResidencyInv
<1>2. CASE Residency!RemoveRuntime(t)
  <2>1. /\ unloader[t].pc = "close" /\ rt' = [rt EXCEPT ![k] = Residency!Absent]
        /\ byDefault' \in Keys \cup {Residency!NoKey}
        /\ unloader' = [unloader EXCEPT ![t].pc = "forget"]
        /\ UNCHANGED <<pins, req, evictor, published, loader>>
    <3>1. byDefault' = byDefault \/ byDefault' = Residency!NoKey \/ byDefault' \in Residency!Successors(k)
      BY <1>2 DEF Residency!RemoveRuntime
    <3>2. byDefault' \in Keys \cup {Residency!NoKey}
      BY <3>1
      DEF ResidencyInv, ResidencyType, Runtimes, Leases, Unloads, Evictions, Residency!Successors,
          Residency!Resident
    <3> QED
      BY <1>2, <3>2 DEF Residency!RemoveRuntime
  <2>2. ResidencyType'
    <3>1. rt' \in [Keys -> Runtimes]
      <4>1. Residency!Absent \in Runtimes
        BY DEF Residency!Absent, Runtimes
      <4> QED
        BY <2>1, <4>1, RuntimesUpdated DEF ResidencyInv, ResidencyType
    <3> QED
      BY <2>1, <3>1 DEF ResidencyInv, ResidencyType, Unloads
  <2>3. /\ k \in Keys => rt'[k] = Residency!Absent
        /\ \A j \in Keys : j # k => rt'[j] = rt[j]
        /\ unloader'[t].pc = "forget" /\ unloader'[t].key = k /\ unloader'[t] # Residency!Idle
        /\ \A u \in Residency!Threads \ {t} : unloader'[u] = unloader[u]
    BY <2>1 DEF ResidencyInv, ResidencyType, Runtimes, Leases, Unloads, Evictions, Residency!Idle
  <2>4. unloader[t] # Residency!Idle
    BY <2>1 DEF Residency!Idle
  <2> HIDE DEF k
  <2>5. LeasesCounted'
    <3>1. ASSUME NEW j \in Keys PROVE rt'[j].active = Cardinality(Leased(j)')
      <4>1. CASE j = k
        <5>1. Leased(j)' = {}
          BY <2>1, <2>3, <4>1 DEF Leased, ResidencyInv, LeasesCounted, Residency!Absent
        <5> QED
          BY <2>3, <4>1, <5>1, FS_EmptySet DEF Residency!Absent
      <4>2. CASE j # k
        <5>1. Leased(j)' = Leased(j)
          BY <2>1, <2>3, <4>2 DEF Leased
        <5> QED
          BY <2>3, <4>2, <5>1 DEF ResidencyInv, LeasesCounted
      <4> QED
        BY <4>1, <4>2
    <3> QED
      BY <2>1, <2>3, <3>1 DEF ResidencyInv, LeasesCounted, Residency!Absent
  <2>6. StoppedIsUnused'
    BY <2>3 DEF ResidencyInv, StoppedIsUnused, Residency!Absent
  <2>7. PinsAreKnown'
    <3>1. ASSUME NEW j \in pins' \ Residency!Resident' PROVE Forgotten(j)'
      <4>1. CASE j = k
        BY <2>3, <4>1 DEF Forgotten
      <4>2. CASE j # k
        <5>1. j \in pins \ Residency!Resident
          BY <2>1, <2>3, <3>1, <4>2 DEF Residency!Resident
        <5>2. PICK u \in Residency!Threads : unloader[u].pc = "forget" /\ unloader[u].key = j
          BY <5>1 DEF ResidencyInv, PinsAreKnown, Forgotten
        <5>3. u # t
          BY <2>1, <5>2
        <5> QED
          BY <2>3, <5>2, <5>3 DEF Forgotten
      <4> QED
        BY <4>1, <4>2
    <3> QED
      BY <3>1 DEF PinsAreKnown
  <2>8. EvictionSpares'
    BY <1>0, <2>1, <2>3, <2>4 DEF ResidencyInv, EvictionSpares, Spared, k
  <2> QED
    BY <2>2, <2>5, <2>6, <2>7, <2>8 DEF ResidencyInv
<1>3. CASE Residency!Forget(t)
  <2>1. /\ unloader[t].pc = "forget" /\ pins' = pins \ {k}
        /\ unloader' = [unloader EXCEPT ![t] = Residency!Idle]
        /\ UNCHANGED <<rt, byDefault, req, evictor, published, loader>>
    BY <1>3 DEF Residency!Forget
  <2>2. ResidencyType'
    BY <2>1 DEF ResidencyInv, ResidencyType, Runtimes, Leases, Unloads, Evictions, Residency!Idle
  <2>3. /\ unloader'[t] = Residency!Idle
        /\ \A u \in Residency!Threads \ {t} : unloader'[u] = unloader[u]
    BY <2>1 DEF ResidencyInv, ResidencyType, Runtimes, Leases, Unloads, Evictions
  <2>4. LeasesCounted'
    BY <2>1, SameRuntimesCounted
  <2>5. PinsAreKnown'
    <3>1. ASSUME NEW j \in pins' \ Residency!Resident' PROVE Forgotten(j)'
      <4>1. j \in pins \ Residency!Resident /\ j # k
        BY <2>1, <3>1 DEF Residency!Resident
      <4>2. PICK u \in Residency!Threads : unloader[u].pc = "forget" /\ unloader[u].key = j
        BY <4>1 DEF ResidencyInv, PinsAreKnown, Forgotten
      <4> QED
        BY <2>3, <4>1, <4>2 DEF Forgotten
    <3> QED
      BY <3>1 DEF PinsAreKnown
  <2>6. EvictionSpares'
    BY <1>0, <2>1, <2>3 DEF ResidencyInv, EvictionSpares, Spared
  <2> QED
    BY <2>1, <2>2, <2>4, <2>5, <2>6 DEF ResidencyInv, StoppedIsUnused
<1> QED
  BY <1>1, <1>2, <1>3

\* An eviction selects, from what it sees, runtimes that may be evicted.
LEMMA EvictKeepsResidency ==
  ASSUME ResidencyAssumption, ResidencyInv, NEW limit \in 1..Cardinality(Keys),
         NEW protect \in BOOLEAN, Residency!Evict(limit, protect)
  PROVE  ResidencyInv'
<1> DEFINE all == Residency!Candidates(protect)
           n == IF Cardinality(all) < limit THEN Cardinality(all) ELSE limit
<1>1. PICK todo \in [1..n -> all] :
         evictor' = [protect |-> protect, default |-> byDefault, pins |-> pins, todo |-> todo]
  <2>1. PICK todo \in Residency!Selected(limit, protect) :
           evictor' = [protect |-> protect, default |-> byDefault, pins |-> pins, todo |-> todo]
    BY DEF Residency!Evict
  <2>2. todo \in [1..n -> all]
    BY <2>1, ResidencyCounts DEF Residency!Selected
  <2> QED
    BY <2>1, <2>2
<1>2. all \subseteq Keys \ pins /\ (protect => byDefault \notin all)
  BY DEF Residency!Candidates, Residency!Evictable
<1>3. n \in Nat
  BY <1>2, FS_Subset, FS_CardinalityType DEF ResidencyAssumption
<1> HIDE DEF all, n
<1>4. todo \in Seq(Keys) /\ Len(todo) = n /\ \A i \in 1..Len(todo) : todo[i] \in all
  BY <1>1, <1>2, <1>3
<1>5. /\ unloader["evictor"] = Residency!Idle
      /\ UNCHANGED <<rt, pins, byDefault, req, unloader, published, loader>>
  BY DEF Residency!Evict
<1>6. ResidencyType'
  BY <1>1, <1>4, <1>5 DEF ResidencyInv, ResidencyType, Runtimes, Leases, Unloads, Evictions
<1>7. LeasesCounted'
  BY <1>5, SameRuntimesCounted
<1>8. EvictionSpares'
  BY <1>1, <1>2, <1>4, <1>5 DEF EvictionSpares, Spared
<1> QED
  BY <1>5, <1>6, <1>7, <1>8
  DEF ResidencyInv, PinsAreKnown, StoppedIsUnused, Forgotten, Residency!Resident

\* The next candidate is stopped, unless it has come into use.
LEMMA EvictNextKeepsResidency ==
  ASSUME ResidencyInv, Residency!EvictNext
  PROVE  ResidencyInv'
<1> DEFINE k == Head(evictor.todo)
<1>1. /\ evictor.todo # << >> /\ evictor.todo \in Seq(Keys)
      /\ evictor' = [evictor EXCEPT !.todo = Tail(@)]
      /\ evictor \in Evictions
      /\ UNCHANGED <<pins, byDefault, req, published, loader>>
  BY DEF ResidencyInv, ResidencyType, Runtimes, Leases, Unloads, Evictions, Residency!EvictNext
<1>2. /\ k \in Keys /\ k = evictor.todo[1] /\ 1 \in 1..Len(evictor.todo)
      /\ Tail(evictor.todo) \in Seq(Keys)
      /\ \A i \in 1..Len(Tail(evictor.todo)) :
            i + 1 \in 1..Len(evictor.todo) /\ Tail(evictor.todo)[i] = evictor.todo[i + 1]
  BY <1>1
<1>3. /\ evictor' \in Evictions
      /\ evictor' = [evictor EXCEPT !.todo = evictor'.todo]
      /\ evictor'.todo = Tail(evictor.todo)
      /\ \A j : Spared(j)' <=> Spared(j)
  BY <1>1, <1>2 DEF Evictions, Spared
<1>4. ~Spared(k) /\ \A i \in 1..Len(evictor'.todo) : ~Spared(evictor'.todo[i])
  BY <1>2, <1>3 DEF ResidencyInv, EvictionSpares
<1>5. CASE Residency!Unloadable(k)
  <2>1. Residency!BeginUnload("evictor", k) /\ "evictor" \in Residency!Threads
    BY <1>5 DEF Residency!EvictNext, Residency!Threads
  <2> QED
    BY <1>1, <1>2, <1>3, <1>4, <2>1, UnloadBegins
<1>6. CASE ~Residency!Unloadable(k)
  <2>1. UNCHANGED <<rt, unloader>>
    BY <1>6 DEF Residency!EvictNext
  <2>2. ResidencyType'
    BY <1>1, <1>3, <2>1 DEF ResidencyInv, ResidencyType, Runtimes, Leases, Unloads, Evictions
  <2>3. LeasesCounted'
    BY <1>1, <2>1, SameRuntimesCounted
  <2>4. EvictionSpares'
    BY <1>3, <1>4, <2>1 DEF ResidencyInv, EvictionSpares, Spared
  <2> QED
    BY <1>1, <2>1, <2>2, <2>3, <2>4
    DEF ResidencyInv, PinsAreKnown, StoppedIsUnused, Forgotten, Residency!Resident
<1> QED
  BY <1>5, <1>6

\* Every step keeps the invariant.
LEMMA ResidencyNext ==
  ASSUME ResidencyAssumption, ResidencyInv, Residency!Next
  PROVE  ResidencyInv'
<1>1. ASSUME NEW k \in Keys, Residency!Publish(k) \/ Residency!Reload(k) PROVE ResidencyInv'
  BY <1>1, PublishKeepsResidency, ReloadKeepsResidency
<1>2. ASSUME NEW k \in Keys, Residency!AdminUnload(k) PROVE ResidencyInv'
  <2>1. /\ Residency!BeginUnload("admin", k) /\ "admin" \in Residency!Threads
        /\ UNCHANGED <<pins, byDefault, req, published, loader, evictor>>
    BY <1>2 DEF Residency!AdminUnload, Residency!Threads
  <2>2. /\ evictor \in Evictions
        /\ evictor = [evictor EXCEPT !.todo = evictor.todo]
        /\ \A i \in 1..Len(evictor.todo) : ~Spared(evictor.todo[i])
    BY DEF ResidencyInv, ResidencyType, Runtimes, Leases, Unloads, Evictions, EvictionSpares, Spared
  <2> QED
    BY <2>1, <2>2, UnloadBegins
<1>3. ASSUME NEW k \in Keys, Residency!SetDefault(k) PROVE ResidencyInv'
  <2>1. UNCHANGED <<rt, pins, req, unloader, evictor, published>> /\ byDefault' = k /\ loader' = loader
    BY <1>3 DEF Residency!SetDefault
  <2> QED
    BY <2>1, BookkeepingKeepsResidency
<1>4. ASSUME Residency!Adopt PROVE ResidencyInv'
  <2>1. UNCHANGED <<rt, pins, req, unloader, evictor, published>> /\ loader' = Residency!NoLoad
    BY <1>4 DEF Residency!Adopt
  <2>2. byDefault' \in Keys \cup {Residency!NoKey}
    <3>1. byDefault' \in {byDefault, Residency!NoKey} \/ byDefault' = loader.key
      BY <1>4 DEF Residency!Adopt
    <3>2. loader.key \in Keys
      BY <1>4 DEF ResidencyInv, ResidencyType, Runtimes, Leases, Unloads, Evictions, Residency!Adopt
    <3> QED
      BY <3>1, <3>2 DEF ResidencyInv, ResidencyType, Runtimes, Leases, Unloads, Evictions
  <2> QED
    BY <2>1, <2>2, BookkeepingKeepsResidency
<1>5. ASSUME NEW limit \in 1..Residency!Cardinality(Keys), NEW protect \in BOOLEAN,
             Residency!Evict(limit, protect)
      PROVE  ResidencyInv'
  BY <1>5, ResidencyCounts, EvictKeepsResidency
<1>6. ASSUME NEW t \in Residency!Threads,
             Residency!CloseFails(t) \/ Residency!RemoveRuntime(t) \/ Residency!Forget(t)
      PROVE  ResidencyInv'
  BY <1>6, UnloadEnds
<1> QED
  BY <1>1, <1>2, <1>3, <1>4, <1>5, <1>6, PinKeepsResidency, LeaseKeepsResidency,
     EndLeaseKeepsResidency, MarkKeepsResidency, EvictNextKeepsResidency
  DEF Residency!Next

\* The invariant holds in every behaviour.
LEMMA ResidencyInvHolds ==
  ASSUME ResidencyAssumption
  PROVE  ServedSpec => [](component = "residency" => ResidencyInv)
<1>1. ASSUME ResidencyInv, UNCHANGED Residency!vars PROVE ResidencyInv'
  <2>1. UNCHANGED <<rt, pins, req, unloader, evictor, published, loader, byDefault>>
    BY <1>1 DEF Residency!vars
  <2>2. byDefault \in Keys \cup {Residency!NoKey}
    BY <1>1 DEF ResidencyInv, ResidencyType
  <2> QED
    BY <1>1, <2>1, <2>2, BookkeepingKeepsResidency
<1>2. ResidencyInv /\ [Residency!Next]_(Residency!vars) => ResidencyInv'
  BY <1>1, ResidencyNext
<1>3. ServedInit => (component = "residency" => ResidencyInv)
  BY ResidencyInit DEF ServedInit
<1>4. (component = "residency" => ResidencyInv) /\ [ServedNext]_servingVars
         => (component = "residency" => ResidencyInv)'
  BY <1>2, SameComponent
<1> QED
  BY <1>3, <1>4, PTL DEF ServedSpec

\* What is protected stays: only residents are pinned, except where the last section of an
\* unload is yet to come; no runtime is stopped under a request; an eviction never stops a
\* runtime that was pinned when it selected, nor, if it protects the default, what was the
\* default then; and the pressure policy asks for an eviction once per episode of pressure (residency_api.py,
\* product_runtime_manager.py, residency_pressure.py).
THEOREM EvictionsAreJustified ==
  ASSUME ResidencyAssumption, PressureAssumption
  PROVE  ServedSpec => []EvictionIsJustified
<1>1. ResidencyInv => Residency!ProtectionHolds
  BY DEF ResidencyInv, PinsAreKnown, Forgotten, StoppedIsUnused, EvictionSpares, Spared,
         Residency!ProtectionHolds
<1>2. /\ component = "residency" => ResidencyInv
      /\ component = "pressure" => PressureInv
      => EvictionIsJustified
  BY <1>1, PressureEpisodes DEF EvictionIsJustified
<1> QED
  BY <1>2, ResidencyInvHolds, PressureInvHolds, PTL

-----------------------------------------------------------------------------
(* ImageJobs: the server works for those who wait.                           *)

\* Sizes are numbers of pixels.
ImagesAssumption == Sizes \subseteq Nat /\ Default \in Nat /\ MaxPixels \in Nat

Left == Images!Left
Biggest == Images!Max({MaxPixels, Default})

Asked == [pc : {"idle", "prepared", "admission", "submit", "poll", "cancel", "done", "failed"},
          size : Nat, job : Nat, got : Nat, code : Nat]
JobStates == {"queued", "running", "completed", "failed", "cancelled"}
Jobs == [owner : Painters, size : Nat, state : JobStates]
Unfinished == {"queued", "running"}

\* Requests that have submitted nothing, and those that wait for what they submitted.
Early == {"idle", "prepared", "admission", "submit"}
Waiting == {"poll", "cancel"}

ImagesType == img \in [Painters -> Asked] /\ sdJobs \in Seq(Jobs) /\ faults \in Nat

SizesAllowed ==
    /\ \A r \in Painters : img[r].size <= Biggest
    /\ \A i \in 1..Len(sdJobs) : sdJobs[i].size <= Biggest

\* A request has at most one job that it waits for, and an image only of a job of its own.
JobsKnown ==
    /\ \A r \in Painters : /\ img[r].got # 0 =>
                                img[r].got \in 1..Len(sdJobs) /\ sdJobs[img[r].got].owner = r
                           /\ img[r].pc \in Waiting =>
                                img[r].job \in 1..Len(sdJobs) /\ sdJobs[img[r].job].owner = r
    /\ \A i \in 1..Len(sdJobs) : /\ img[sdJobs[i].owner].pc \notin Early
                                 /\ img[sdJobs[i].owner].pc \in Waiting => img[sdJobs[i].owner].job = i

FewAreLeft == Cardinality(Left) <= faults

ImagesInv == ImagesType /\ SizesAllowed /\ JobsKnown /\ FewAreLeft

\* The instance counts as this module does.
LEMMA ImagesCount == ASSUME NEW S PROVE Images!Cardinality(S) = Cardinality(S)
  BY DEF Images!Cardinality, Cardinality

\* No size that the runtime allows is bigger than the bound.
LEMMA BiggestBounds ==
  ASSUME ImagesAssumption
  PROVE  Biggest \in Nat /\ MaxPixels <= Biggest /\ Default <= Biggest
<1>1. \E x \in {MaxPixels, Default} : \A y \in {MaxPixels, Default} : x >= y
  BY DEF ImagesAssumption
<1>2. Biggest \in {MaxPixels, Default} /\ \A y \in {MaxPixels, Default} : Biggest >= y
  BY <1>1 DEF Biggest, Images!Max
<1> QED
  BY <1>2 DEF ImagesAssumption

\* There are no requests and no jobs.
LEMMA ImagesInit ==
  ASSUME ImagesAssumption, Images!Init
  PROVE  ImagesInv
<1>1. Len(<< >>) = 0 /\ << >> \in Seq(Jobs)
  OBVIOUS
<1>2. ImagesType /\ SizesAllowed /\ JobsKnown
  BY <1>1, BiggestBounds
  DEF ImagesType, SizesAllowed, JobsKnown, Asked, Waiting, Images!Init, Images!Idle, Images!NoJob
<1>3. Left = {}
  BY <1>1 DEF Left, Images!Left, Images!Init
<1> QED
  BY <1>2, <1>3, FS_EmptySet DEF ImagesInv, FewAreLeft, Images!Init

\* A step after which no more jobs are left than calls have failed.
LEMMA LeftGrows ==
  ASSUME ImagesInv, faults' \in Nat,
         \/ Left' \subseteq Left /\ faults' >= faults
         \/ faults' = faults + 1 /\ \E i : Left' \subseteq Left \cup {i}
  PROVE  FewAreLeft'
<1>1. IsFiniteSet(Left) /\ Cardinality(Left) \in Nat /\ Cardinality(Left) <= faults
      /\ faults \in Nat
  <2>1. Left \subseteq 1..Len(sdJobs) /\ Len(sdJobs) \in Nat
    BY DEF Left, Images!Left, ImagesInv, ImagesType
  <2>2. IsFiniteSet(1..Len(sdJobs))
    BY <2>1, FS_Interval
  <2>3. IsFiniteSet(Left) /\ Cardinality(Left) \in Nat
    BY <2>1, <2>2, FS_Subset, FS_CardinalityType
  <2> QED
    BY <2>3 DEF ImagesInv, FewAreLeft, ImagesType
<1>2. CASE Left' \subseteq Left /\ faults' >= faults
  <2>1. Cardinality(Left') \in Nat /\ Cardinality(Left') <= Cardinality(Left)
    BY <1>1, <1>2, FS_Subset, FS_CardinalityType
  <2> QED
    BY <1>1, <1>2, <2>1 DEF FewAreLeft
<1>3. ASSUME faults' = faults + 1, NEW i, Left' \subseteq Left \cup {i} PROVE FewAreLeft'
  <2>1. /\ IsFiniteSet(Left \cup {i}) /\ Cardinality(Left \cup {i}) \in Nat
        /\ Cardinality(Left \cup {i}) <= Cardinality(Left) + 1
    BY <1>1, FS_AddElement, FS_CardinalityType
  <2>2. Cardinality(Left') \in Nat /\ Cardinality(Left') <= Cardinality(Left \cup {i})
    BY <1>3, <2>1, FS_Subset, FS_CardinalityType
  <2> QED
    BY <1>1, <1>3, <2>1, <2>2 DEF FewAreLeft
<1> QED
  BY <1>2, <1>3

\* What a step of a request has to do where it submits nothing: its jobs are not mistaken
\* for those of another, and only a call that fails gives up an unfinished one.
LEMMA RequestAndServerStep ==
  ASSUME ImagesAssumption, ImagesInv, NEW r \in Painters, NEW x \in Asked,
         img' = [img EXCEPT ![r] = x], faults' \in {faults, faults + 1},
         sdJobs' \in Seq(Jobs), Len(sdJobs') = Len(sdJobs),
         \A i \in 1..Len(sdJobs) :
            /\ sdJobs'[i].owner = sdJobs[i].owner /\ sdJobs'[i].size = sdJobs[i].size
            /\ sdJobs'[i].state \in Unfinished => sdJobs[i].state \in Unfinished,
         x.size <= Biggest,
         \/ x.got = img[r].got
         \/ img[r].pc = "poll" /\ x.got = img[r].job,
         \/ img[r].pc \in Early /\ x.pc \notin Waiting
         \/ img[r].pc \in Waiting /\ x.pc = "cancel" /\ x.job = img[r].job
         \/ img[r].pc \in Waiting /\ x.pc \in Images!Done
              /\ (faults' = faults => sdJobs'[img[r].job].state \notin Unfinished)
  PROVE  ImagesInv'
<1>1. /\ img'[r] = x /\ \A q \in Painters \ {r} : img'[q] = img[q]
      /\ \A i \in 1..Len(sdJobs) : sdJobs[i].owner \in Painters
      /\ faults \in Nat
  <2>1. \A i \in 1..Len(sdJobs) : sdJobs[i] \in Jobs
    BY DEF ImagesInv, ImagesType
  <2>2. \A j \in Jobs : j.owner \in Painters
    BY DEF Jobs, JobStates
  <2> QED
    BY <2>1, <2>2 DEF ImagesInv, ImagesType
<1>2. ImagesType'
  BY <1>1 DEF ImagesInv, ImagesType
<1>3. SizesAllowed'
  BY <1>1 DEF ImagesInv, SizesAllowed
<1>4. JobsKnown'
  <2>1. ASSUME NEW q \in Painters, img'[q].got # 0
        PROVE  img'[q].got \in 1..Len(sdJobs) /\ sdJobs[img'[q].got].owner = q
    BY <1>1, <2>1 DEF ImagesInv, JobsKnown, Waiting
  <2>2. ASSUME NEW q \in Painters, img'[q].pc \in Waiting
        PROVE  img'[q].job \in 1..Len(sdJobs) /\ sdJobs[img'[q].job].owner = q
    BY <1>1, <2>2 DEF ImagesInv, JobsKnown, Waiting, Early, Images!Done
  <2>3. ASSUME NEW i \in 1..Len(sdJobs)
        PROVE  /\ img'[sdJobs[i].owner].pc \notin Early
               /\ img'[sdJobs[i].owner].pc \in Waiting => img'[sdJobs[i].owner].job = i
    BY <1>1 DEF ImagesInv, JobsKnown, Waiting, Early, Images!Done
  <2> QED
    BY <2>1, <2>2, <2>3 DEF JobsKnown
<1>5. FewAreLeft'
  <2>0. \A i \in Left' : /\ i \in 1..Len(sdJobs) /\ sdJobs'[i].state \in Unfinished
                         /\ sdJobs[i].state \in Unfinished
                         /\ img'[sdJobs[i].owner].pc \in Images!Done
    BY DEF Left, Images!Left, Unfinished
  <2>1. ASSUME NEW i \in Left', sdJobs[i].owner # r PROVE i \in Left
    BY <1>1, <2>0, <2>1 DEF Left, Images!Left, Unfinished
  <2>2. ASSUME NEW i \in Left', sdJobs[i].owner = r
        PROVE  \/ i \in Left
               \/ i = img[r].job /\ x.pc \in Images!Done /\ sdJobs'[i].state \in Unfinished
    <3>1. img[r].pc \notin Early /\ (img[r].pc \in Waiting => img[r].job = i)
      BY <2>0, <2>2 DEF ImagesInv, JobsKnown
    <3> QED
      BY <1>1, <2>0, <2>2, <3>1
  <2>3. CASE faults' = faults
    <3>1. \/ x.pc \notin Images!Done
          \/ img[r].pc \in Early
          \/ sdJobs'[img[r].job].state \notin Unfinished
      BY <2>3 DEF Images!Done
    <3>2. img[r].pc \in Early => \A i \in 1..Len(sdJobs) : sdJobs[i].owner # r
      BY DEF ImagesInv, JobsKnown
    <3>3. Left' \subseteq Left
      BY <2>0, <2>1, <2>2, <3>1, <3>2
    <3>4. faults' \in Nat /\ faults' >= faults
      BY <1>1, <2>3
    <3> QED
      BY <3>3, <3>4, LeftGrows
  <2>4. CASE faults' = faults + 1
    <3>1. Left' \subseteq Left \cup {img[r].job}
      BY <2>1, <2>2
    <3>2. \E i : Left' \subseteq Left \cup {i}
      BY <3>1, Zenon
    <3>3. faults' \in Nat
      BY <1>1, <2>4
    <3> QED
      BY <2>4, <3>2, <3>3, LeftGrows
  <2> QED
    BY <2>3, <2>4
<1> QED
  BY <1>2, <1>3, <1>4, <1>5 DEF ImagesInv

\* The same of a step that leaves the server alone.
LEMMA RequestStep ==
  ASSUME ImagesAssumption, ImagesInv, NEW r \in Painters, NEW x \in Asked,
         img' = [img EXCEPT ![r] = x], UNCHANGED sdJobs, faults' \in {faults, faults + 1},
         x.size <= Biggest,
         \/ x.got = img[r].got
         \/ img[r].pc = "poll" /\ x.got = img[r].job,
         \/ img[r].pc \in Early /\ x.pc \notin Waiting
         \/ img[r].pc \in Waiting /\ x.pc = "cancel" /\ x.job = img[r].job
         \/ img[r].pc \in Waiting /\ x.pc \in Images!Done
              /\ (faults' = faults => sdJobs[img[r].job].state \notin Unfinished)
  PROVE  ImagesInv'
<1>1. sdJobs' \in Seq(Jobs)
  BY DEF ImagesInv, ImagesType
<1> QED
  BY <1>1, RequestAndServerStep

\* A step of the server: jobs go on, or are finished.
LEMMA ServerStep ==
  ASSUME ImagesInv, UNCHANGED <<img, faults>>, sdJobs' \in Seq(Jobs), Len(sdJobs') = Len(sdJobs),
         \A i \in 1..Len(sdJobs) :
            /\ sdJobs'[i].owner = sdJobs[i].owner /\ sdJobs'[i].size = sdJobs[i].size
            /\ sdJobs'[i].state \in Unfinished => sdJobs[i].state \in Unfinished
  PROVE  ImagesInv'
<1>1. ImagesType' /\ SizesAllowed'
  BY DEF ImagesInv, ImagesType, SizesAllowed
<1>2. JobsKnown'
  BY DEF ImagesInv, JobsKnown
<1>3. Left' \subseteq Left
  BY DEF Left, Images!Left, Unfinished
<1>4. FewAreLeft'
  BY <1>3, LeftGrows DEF ImagesInv, ImagesType
<1> QED
  BY <1>1, <1>2, <1>4 DEF ImagesInv

\* One job changes its state.
JobChanged(s, k, state) == [s EXCEPT ![k].state = state]

\* What a change of one job's state does to the jobs.
LEMMA JobsAfter ==
  ASSUME NEW s \in Seq(Jobs), NEW k, NEW state \in JobStates
  PROVE  /\ JobChanged(s, k, state) \in Seq(Jobs) /\ Len(JobChanged(s, k, state)) = Len(s)
         /\ k \in 1..Len(s) => JobChanged(s, k, state)[k].state = state
         /\ \A i \in 1..Len(s) :
              /\ JobChanged(s, k, state)[i].owner = s[i].owner
              /\ JobChanged(s, k, state)[i].size = s[i].size
              /\ JobChanged(s, k, state)[i].state \in {s[i].state, state}
              /\ i # k => JobChanged(s, k, state)[i] = s[i]
<1>0. PICK t : t = JobChanged(s, k, state) /\ t = [s EXCEPT ![k].state = state]
  BY DEF JobChanged
<1>1. \A i \in 1..Len(s) : s[i] \in Jobs
  OBVIOUS
<1>2. \A j \in Jobs : /\ [j EXCEPT !.state = state] \in Jobs
                     /\ [j EXCEPT !.state = state].state = state
                     /\ [j EXCEPT !.state = state].owner = j.owner
                     /\ [j EXCEPT !.state = state].size = j.size
  BY DEF Jobs, JobStates
<1>3. \A i \in 1..Len(s) : t[i] = IF i = k THEN [s[i] EXCEPT !.state = state] ELSE s[i]
  BY <1>0
<1>4. t \in Seq(Jobs) /\ Len(t) = Len(s)
  <2>1. t = [i \in 1..Len(s) |-> IF i = k THEN [s[i] EXCEPT !.state = state] ELSE s[i]]
    <3>1. PICK x : x = [s[k] EXCEPT !.state = state]
      OBVIOUS
    <3>2. s \in [1..Len(s) -> Jobs] /\ t = [s EXCEPT ![k] = x]
      BY <1>0, <3>1
    <3>3. t = [i \in 1..Len(s) |-> IF i = k THEN x ELSE s[i]]
      BY <3>2
    <3> QED
      BY <3>1, <3>3
  <2>2. Len(s) \in Nat /\ \A i \in 1..Len(s) :
          (IF i = k THEN [s[i] EXCEPT !.state = state] ELSE s[i]) \in Jobs
    BY <1>1, <1>2
  <2>3. t \in [1..Len(s) -> Jobs]
    BY <2>1, <2>2
  <2> QED
    BY <2>2, <2>3
<1> QED
  BY <1>0, <1>1, <1>2, <1>3, <1>4

\* A job that is submitted, by a request that waits for it or has seen its call fail.
LEMMA SubmitStep ==
  ASSUME ImagesAssumption, ImagesInv, NEW r \in Painters, img[r].pc = "submit", NEW x \in Asked,
         img' = [img EXCEPT ![r] = x], x.size = img[r].size, x.got = img[r].got,
         sdJobs' = Append(sdJobs, [owner |-> r, size |-> img[r].size, state |-> "queued"]),
         \/ x.pc = "poll" /\ x.job = Len(sdJobs') /\ faults' = faults
         \/ x.pc \in Images!Done /\ faults' = faults + 1
  PROVE  ImagesInv'
<1> DEFINE n == Len(sdJobs)
<1>0. PICK j \in Jobs : j = [owner |-> r, size |-> img[r].size, state |-> "queued"]
  BY DEF ImagesInv, ImagesType, Asked, Jobs, JobStates
<1>1. /\ img'[r] = x /\ \A q \in Painters \ {r} : img'[q] = img[q]
      /\ n \in Nat /\ sdJobs' \in Seq(Jobs) /\ Len(sdJobs') = n + 1 /\ sdJobs'[n + 1] = j
      /\ \A i \in 1..n : sdJobs'[i] = sdJobs[i]
      /\ faults \in Nat
  BY <1>0 DEF ImagesInv, ImagesType
<1>2. \A i \in 1..n : sdJobs[i].owner # r /\ sdJobs[i].owner \in Painters
  <2>1. \A i \in 1..n : sdJobs[i] \in Jobs
    BY DEF ImagesInv, ImagesType
  <2> QED
    BY <2>1 DEF ImagesInv, JobsKnown, Early, Jobs
<1> HIDE DEF n
<1>3. ImagesType'
  BY <1>1 DEF ImagesInv, ImagesType
<1>4. SizesAllowed'
  BY <1>0, <1>1 DEF ImagesInv, SizesAllowed, n
<1>5. JobsKnown'
  <2>1. ASSUME NEW q \in Painters, img'[q].got # 0
        PROVE  img'[q].got \in 1..(n + 1) /\ sdJobs'[img'[q].got].owner = q
    <3>1. img'[q].got = img[q].got
      BY <1>1
    <3>2. img[q].got \in 1..n /\ sdJobs[img[q].got].owner = q
      BY <2>1, <3>1 DEF ImagesInv, JobsKnown, n
    <3> QED
      BY <1>1, <3>1, <3>2
  <2>2. ASSUME NEW q \in Painters, img'[q].pc \in Waiting
        PROVE  img'[q].job \in 1..(n + 1) /\ sdJobs'[img'[q].job].owner = q
    <3>1. CASE q = r
      BY <1>0, <1>1, <2>2, <3>1 DEF Images!Done, Waiting
    <3>2. CASE q # r
      <4>1. img[q].job \in 1..n /\ sdJobs[img[q].job].owner = q
        BY <1>1, <2>2, <3>2 DEF ImagesInv, JobsKnown, n
      <4> QED
        BY <1>1, <3>2, <4>1
    <3> QED
      BY <3>1, <3>2
  <2>3. ASSUME NEW i \in 1..(n + 1)
        PROVE  /\ img'[sdJobs'[i].owner].pc \notin Early
               /\ img'[sdJobs'[i].owner].pc \in Waiting => img'[sdJobs'[i].owner].job = i
    <3>1. CASE i = n + 1
      BY <1>0, <1>1, <3>1 DEF Images!Done, Waiting, Early
    <3>2. CASE i # n + 1
      <4>1. i \in 1..n
        BY <1>1, <3>2
      <4> QED
        BY <1>1, <1>2, <4>1 DEF ImagesInv, JobsKnown, n
    <3> QED
      BY <3>1, <3>2
  <2> QED
    BY <1>1, <2>1, <2>2, <2>3 DEF JobsKnown
<1>6. FewAreLeft'
  <2>1. \A i \in Left' : i \in Left \/ (i = n + 1 /\ x.pc \in Images!Done)
    <3>1. ASSUME NEW i \in Left', i # n + 1 PROVE i \in Left
      BY <1>1, <1>2, <3>1 DEF Left, Images!Left, n
    <3>2. n + 1 \in Left' => x.pc \in Images!Done
      BY <1>0, <1>1 DEF Left, Images!Left
    <3> QED
      BY <3>1, <3>2
  <2>2. CASE x.pc = "poll" /\ faults' = faults
    <3>1. Left' \subseteq Left
      BY <2>1, <2>2 DEF Images!Done
    <3>2. faults' \in Nat /\ faults' >= faults
      BY <1>1, <2>2
    <3> QED
      BY <3>1, <3>2, LeftGrows
  <2>3. CASE faults' = faults + 1
    <3>1. Left' \subseteq Left \cup {n + 1}
      BY <2>1
    <3>2. \E i : Left' \subseteq Left \cup {i}
      BY <3>1, Zenon
    <3>3. faults' \in Nat
      BY <1>1, <2>3
    <3> QED
      BY <2>3, <3>2, <3>3, LeftGrows
  <2> QED
    BY <2>2, <2>3
<1> QED
  BY <1>3, <1>4, <1>5, <1>6 DEF ImagesInv

\* A request is answered.
LEMMA Answered ==
  ASSUME ImagesType, NEW r \in Painters, NEW code \in Nat
  PROVE  \E x \in Asked : /\ Images!Answer(r, code) = [img EXCEPT ![r] = x]
                          /\ x.pc \in Images!Done /\ x.size = img[r].size
                          /\ x.got = img[r].got /\ x.job = img[r].job
<1>0. img[r] \in Asked
  BY DEF ImagesType
<1>1. PICK x : x = [img[r] EXCEPT !.pc = IF code = 200 THEN "done" ELSE "failed", !.code = code]
  OBVIOUS
<1>2. /\ x \in Asked /\ x.pc \in Images!Done /\ x.size = img[r].size
      /\ x.got = img[r].got /\ x.job = img[r].job
  BY <1>0, <1>1 DEF Asked, Images!Done
<1>3. Images!Answer(r, code) = [img EXCEPT ![r] = x]
  <2>1. Images!Answer(r, code) = [[img EXCEPT ![r] =
           [img[r] EXCEPT !.pc = IF code = 200 THEN "done" ELSE "failed"]] EXCEPT ![r].code = code]
    BY DEF Images!Answer
  <2> QED
    BY <1>1, <2>1 DEF ImagesType
<1> QED
  BY <1>2, <1>3

-----------------------------------------------------------------------------

\* A request before it has submitted anything.
LEMMA EarlyKeeps ==
  ASSUME ImagesAssumption, ImagesInv, NEW r \in Painters,
         Images!Prepare(r) \/ Images!Lease(r) \/ Images!Enter(r)
  PROVE  ImagesInv'
<1>0. img[r] \in Asked /\ UNCHANGED sdJobs /\ faults' = faults /\ faults \in Nat
  BY DEF ImagesInv, ImagesType, Images!Prepare, Images!Lease, Images!Enter
<1>1. img[r].size <= Biggest
  BY DEF ImagesInv, SizesAllowed
<1>2. ASSUME img[r].pc \in Early, NEW code \in Nat, img' = Images!Answer(r, code)
      PROVE  ImagesInv'
  <2>1. PICK x \in Asked : /\ Images!Answer(r, code) = [img EXCEPT ![r] = x]
                           /\ x.pc \in Images!Done /\ x.size = img[r].size
                           /\ x.got = img[r].got /\ x.job = img[r].job
    BY Answered DEF ImagesInv
  <2> QED
    BY <1>0, <1>1, <1>2, <2>1, RequestStep DEF Images!Done, Waiting
<1>3. ASSUME img[r].pc \in Early, NEW pc \in Early, NEW size \in Nat, size <= Biggest,
             img' = [img EXCEPT ![r] = [img[r] EXCEPT !.pc = pc, !.size = size]]
      PROVE  ImagesInv'
  <2>1. PICK x : x = [img[r] EXCEPT !.pc = pc, !.size = size]
    OBVIOUS
  <2>2. x \in Asked /\ x.pc = pc /\ x.size = size /\ x.got = img[r].got
    BY <1>0, <1>3, <2>1 DEF Asked, Early
  <2> QED
    BY <1>0, <1>3, <2>1, <2>2, RequestStep DEF Early, Waiting
<1>4. CASE Images!Prepare(r)
  <2>1. img[r].pc \in Early
    BY <1>4 DEF Images!Prepare, Early
  <2>2. PICK size \in Sizes :
          img' = IF unload THEN Images!Answer(r, 404)
                 ELSE IF ~Images!Within(size) THEN Images!Answer(r, 400)
                 ELSE [img EXCEPT ![r].pc = "prepared",
                                  ![r].size = IF size = 0 THEN Default ELSE size]
    BY <1>4 DEF Images!Prepare
  <2>3. CASE unload \/ ~Images!Within(size)
    BY <1>2, <2>1, <2>2, <2>3
  <2>4. CASE ~unload /\ Images!Within(size)
    <3>1. PICK s : s = IF size = 0 THEN Default ELSE size
      OBVIOUS
    <3>2. s \in Nat /\ s <= Biggest
      BY <2>4, <3>1, BiggestBounds DEF ImagesAssumption, Images!Within
    <3>3. img' = [img EXCEPT ![r] = [img[r] EXCEPT !.pc = "prepared", !.size = s]]
      BY <2>2, <2>4, <3>1 DEF ImagesInv, ImagesType
    <3> QED
      BY <1>3, <2>1, <3>2, <3>3 DEF Early
  <2> QED
    BY <2>3, <2>4
<1>5. ASSUME img[r].pc \in Early, NEW pc \in Early, img' = [img EXCEPT ![r].pc = pc]
      PROVE  ImagesInv'
  <2>1. PICK x : x = [img[r] EXCEPT !.pc = pc]
    OBVIOUS
  <2>2. x \in Asked /\ x.pc = pc /\ x.size = img[r].size /\ x.got = img[r].got
    BY <1>0, <1>5, <2>1 DEF Asked, Early
  <2> QED
    BY <1>0, <1>1, <1>5, <2>1, <2>2, RequestStep DEF Early, Waiting
<1>6. CASE Images!Lease(r)
  BY <1>2, <1>5, <1>6 DEF Images!Lease, Early
<1>7. CASE Images!Enter(r)
  BY <1>5, <1>7 DEF Images!Enter, Early
<1> QED
  BY <1>4, <1>6, <1>7

\* A call fails, before the server has the job or after it.
LEMMA CallFailsKeeps ==
  ASSUME ImagesAssumption, ImagesInv, NEW r \in Painters, Images!CallFails(r)
  PROVE  ImagesInv'
<1>1. PICK x \in Asked : /\ Images!Answer(r, 500) = [img EXCEPT ![r] = x]
                         /\ x.pc \in Images!Done /\ x.size = img[r].size
                         /\ x.got = img[r].got /\ x.job = img[r].job
  BY Answered DEF ImagesInv
<1>2. /\ img[r].pc \in {"submit", "poll"} /\ faults' = faults + 1 /\ img' = [img EXCEPT ![r] = x]
      /\ faults \in Nat /\ faults' # faults /\ x.size <= Biggest
  BY <1>1 DEF ImagesInv, ImagesType, SizesAllowed, Images!CallFails
<1>3. CASE UNCHANGED sdJobs
  <2>1. CASE img[r].pc = "submit"
    BY <1>1, <1>2, <1>3, <2>1, RequestStep DEF Early, Waiting, Images!Done
  <2>2. CASE img[r].pc = "poll"
    BY <1>1, <1>2, <1>3, <2>2, RequestStep DEF Waiting
  <2> QED
    BY <1>2, <2>1, <2>2
<1>4. CASE /\ img[r].pc = "submit"
           /\ sdJobs' = Append(sdJobs, [owner |-> r, size |-> img[r].size, state |-> "queued"])
  BY <1>1, <1>2, <1>4, SubmitStep
<1> QED
  BY <1>3, <1>4 DEF Images!CallFails

\* A job is submitted.
LEMMA SubmitKeeps ==
  ASSUME ImagesAssumption, ImagesInv, NEW r \in Painters, Images!Submit(r)
  PROVE  ImagesInv'
<1>1. /\ img[r] \in Asked /\ Len(sdJobs') \in Nat
      /\ img \in [Painters -> Asked]
  BY DEF ImagesInv, ImagesType, Images!Submit
<1>2. PICK n \in Nat : n = Len(sdJobs')
  BY <1>1
<1>3. PICK x : x = [img[r] EXCEPT !.pc = "poll", !.job = n]
  OBVIOUS
<1>4. x \in Asked /\ x.size = img[r].size /\ x.got = img[r].got /\ x.pc = "poll" /\ x.job = n
  BY <1>1, <1>3 DEF Asked
<1>5. img' = [img EXCEPT ![r] = x]
  BY <1>1, <1>2, <1>3 DEF Images!Submit
<1> QED
  BY <1>2, <1>4, <1>5, SubmitStep DEF Images!Submit

\* A request finds its job finished, or gives up.
LEMMA WaitingKeeps ==
  ASSUME ImagesAssumption, ImagesInv, NEW r \in Painters,
         Images!Poll(r) \/ Images!TimeOut(r) \/ Images!Cancel(r)
  PROVE  ImagesInv'
<1>0. /\ img[r] \in Asked /\ img \in [Painters -> Asked] /\ faults \in Nat
      /\ img[r].size <= Biggest
  BY DEF ImagesInv, ImagesType, SizesAllowed
<1>1. PICK x \in Asked : /\ Images!Answer(r, 500) = [img EXCEPT ![r] = x]
                         /\ x.pc \in Images!Done /\ x.size = img[r].size
                         /\ x.got = img[r].got /\ x.job = img[r].job
  BY Answered DEF ImagesInv
<1>2. CASE Images!Poll(r)
  <2>1. /\ img[r].pc = "poll" /\ UNCHANGED <<sdJobs, faults>>
        /\ sdJobs[img[r].job].state \notin Unfinished
    BY <1>2 DEF Images!Poll, Unfinished
  <2>2. CASE img' = Images!Answer(r, 500)
    BY <1>0, <1>1, <2>1, <2>2, RequestStep DEF Waiting
  <2>3. CASE img' = [Images!Answer(r, 200) EXCEPT ![r].got = img[r].job]
    <3>1. PICK y \in Asked : /\ Images!Answer(r, 200) = [img EXCEPT ![r] = y]
                             /\ y.pc \in Images!Done /\ y.size = img[r].size
                             /\ y.got = img[r].got /\ y.job = img[r].job
      BY Answered DEF ImagesInv
    <3>2. PICK z : z = [y EXCEPT !.got = img[r].job]
      OBVIOUS
    <3>3. z \in Asked /\ z.pc = y.pc /\ z.size = y.size /\ z.got = img[r].job
      BY <1>0, <3>1, <3>2 DEF Asked
    <3>4. img' = [img EXCEPT ![r] = z]
      BY <1>0, <2>3, <3>1, <3>2
    <3> QED
      BY <1>0, <2>1, <3>1, <3>3, <3>4, RequestStep DEF Waiting
  <2> QED
    BY <1>2, <2>2, <2>3 DEF Images!Poll
<1>3. CASE Images!TimeOut(r)
  <2>1. /\ img[r].pc = "poll" /\ UNCHANGED <<sdJobs, faults>>
        /\ img' = [img EXCEPT ![r].pc = "cancel"]
    BY <1>3 DEF Images!TimeOut
  <2>2. PICK y : y = [img[r] EXCEPT !.pc = "cancel"]
    OBVIOUS
  <2>3. y \in Asked /\ y.pc = "cancel" /\ y.size = img[r].size /\ y.got = img[r].got
        /\ y.job = img[r].job /\ img' = [img EXCEPT ![r] = y]
    BY <1>0, <2>1, <2>2 DEF Asked
  <2> QED
    BY <1>0, <2>1, <2>3, RequestStep DEF Waiting
<1>4. CASE Images!Cancel(r)
  <2>1. img[r].pc = "cancel" /\ img' = [img EXCEPT ![r] = x]
    BY <1>1, <1>4 DEF Images!Cancel
  <2>2. CASE faults' = faults + 1 /\ UNCHANGED sdJobs
    <3>1. faults' # faults
      BY <1>0, <2>2
    <3> QED
      BY <1>0, <1>1, <2>1, <2>2, <3>1, RequestStep DEF Waiting
  <2>3. CASE Images!Withdraw(img[r].job) /\ faults' = faults
    <3>1. img[r].job \in 1..Len(sdJobs)
      BY <2>1 DEF ImagesInv, JobsKnown, Waiting
    <3>2. CASE sdJobs[img[r].job].state \notin Unfinished
      <4>1. UNCHANGED sdJobs
        BY <2>3, <3>2 DEF Images!Withdraw, Unfinished
      <4> QED
        BY <1>0, <1>1, <2>1, <2>3, <3>2, <4>1, RequestStep DEF Waiting
    <3>3. CASE sdJobs[img[r].job].state \in Unfinished
      <4>1. sdJobs' = [sdJobs EXCEPT ![img[r].job].state = "cancelled"]
        BY <2>3, <3>3 DEF Images!Withdraw, Unfinished
      <4>2. /\ sdJobs' \in Seq(Jobs) /\ Len(sdJobs') = Len(sdJobs)
            /\ \A i \in 1..Len(sdJobs) :
                 /\ sdJobs'[i].owner = sdJobs[i].owner /\ sdJobs'[i].size = sdJobs[i].size
                 /\ sdJobs'[i].state \in Unfinished => sdJobs[i].state \in Unfinished
            /\ sdJobs'[img[r].job].state \notin Unfinished
        <5>1. sdJobs' = JobChanged(sdJobs, img[r].job, "cancelled") /\ sdJobs \in Seq(Jobs)
              /\ "cancelled" \in JobStates /\ "cancelled" \notin Unfinished
          BY <4>1 DEF ImagesInv, ImagesType, JobChanged, JobStates, Unfinished
        <5> QED
          BY <3>1, <5>1, JobsAfter
      <4> QED
        BY <1>0, <1>1, <2>1, <2>3, <4>2, RequestAndServerStep DEF Waiting
    <3> QED
      BY <3>2, <3>3
  <2> QED
    BY <1>4, <2>2, <2>3 DEF Images!Cancel
<1> QED
  BY <1>2, <1>3, <1>4

\* The server works, or is stopped with its jobs.
LEMMA ServerKeeps ==
  ASSUME ImagesInv, Images!Work \/ Images!Unload
  PROVE  ImagesInv'
<1>0. UNCHANGED <<img, faults>> /\ sdJobs \in Seq(Jobs)
  BY DEF ImagesInv, ImagesType, Images!Work, Images!Unload
<1>1. CASE Images!Work
  <2>0. PICK i : i = Head(sdQueue)
    OBVIOUS
  <2>1. PICK s \in {"running", "completed", "failed"} :
           /\ sdJobs' = [sdJobs EXCEPT ![i].state = s]
           /\ s = "running" => sdJobs[i].state = "queued"
    BY <1>1, <2>0 DEF Images!Work
  <2>2. /\ sdJobs' \in Seq(Jobs) /\ Len(sdJobs') = Len(sdJobs)
        /\ \A k \in 1..Len(sdJobs) :
              /\ sdJobs'[k].owner = sdJobs[k].owner /\ sdJobs'[k].size = sdJobs[k].size
              /\ sdJobs'[k].state \in {sdJobs[k].state, s} /\ (k # i => sdJobs'[k] = sdJobs[k])
    <3>1. PICK t : t = sdJobs'
      OBVIOUS
    <3>2. t = JobChanged(sdJobs, i, s)
      BY <2>1, <3>1 DEF JobChanged
    <3>3. s \in JobStates
      BY DEF JobStates
    <3>4. /\ t \in Seq(Jobs) /\ Len(t) = Len(sdJobs)
          /\ \A k \in 1..Len(sdJobs) :
                /\ t[k].owner = sdJobs[k].owner /\ t[k].size = sdJobs[k].size
                /\ t[k].state \in {sdJobs[k].state, s} /\ (k # i => t[k] = sdJobs[k])
      BY <1>0, <3>2, <3>3, JobsAfter
    <3> QED
      BY <3>1, <3>4
  <2> QED
    BY <1>0, <2>1, <2>2, ServerStep DEF Unfinished
<1>2. CASE Images!Unload
  <2>1. sdJobs' = [i \in 1..Len(sdJobs) |-> IF sdJobs[i].state \in Unfinished
                                            THEN [sdJobs[i] EXCEPT !.state = "failed"] ELSE sdJobs[i]]
    BY <1>2 DEF Images!Unload, Unfinished
  <2>2. \A i \in 1..Len(sdJobs) : sdJobs[i] \in Jobs
    BY <1>0
  <2>3. \A j \in Jobs : /\ [j EXCEPT !.state = "failed"] \in Jobs
                         /\ [j EXCEPT !.state = "failed"].state = "failed"
                         /\ [j EXCEPT !.state = "failed"].owner = j.owner
                         /\ [j EXCEPT !.state = "failed"].size = j.size
    BY DEF Jobs, JobStates
  <2>4. sdJobs' \in [1..Len(sdJobs) -> Jobs] /\ Len(sdJobs) \in Nat
    BY <1>0, <2>1, <2>2, <2>3
  <2>5. sdJobs' \in Seq(Jobs) /\ Len(sdJobs') = Len(sdJobs)
    BY <2>4
  <2>6. \A i \in 1..Len(sdJobs) :
          /\ sdJobs'[i].owner = sdJobs[i].owner /\ sdJobs'[i].size = sdJobs[i].size
          /\ sdJobs'[i].state \in Unfinished => sdJobs[i].state \in Unfinished
    BY <2>1, <2>2, <2>3
  <2> QED
    BY <1>0, <2>5, <2>6, ServerStep
<1> QED
  BY <1>1, <1>2

\* The invariant holds in every behaviour.
LEMMA ImagesInvHolds ==
  ASSUME ImagesAssumption
  PROVE  ServedSpec => [](component = "images" => ImagesInv)
<1>1. ASSUME ImagesInv, UNCHANGED Images!vars PROVE ImagesInv'
  <2>1. UNCHANGED <<img, sdJobs, faults>> /\ sdJobs' \in Seq(Jobs)
    BY <1>1 DEF Images!vars, ImagesInv, ImagesType
  <2> QED
    BY <1>1, <2>1, ServerStep
<1>2. ImagesInv /\ [Images!Next]_(Images!vars) => ImagesInv'
  BY <1>1, EarlyKeeps, CallFailsKeeps, SubmitKeeps, WaitingKeeps, ServerKeeps DEF Images!Next
<1>3. ServedInit => (component = "images" => ImagesInv)
  BY ImagesInit DEF ServedInit
<1>4. (component = "images" => ImagesInv) /\ [ServedNext]_servingVars
         => (component = "images" => ImagesInv)'
  BY <1>2, SameComponent
<1> QED
  BY <1>3, <1>4, PTL DEF ServedSpec

\* Every request gets the image of its own job and of a size the runtime allows, and the
\* server works for nobody who has gone, except after a call to it has failed.
LEMMA ImageJobsAreOwned ==
  ASSUME ImagesAssumption, ImagesInv
  PROVE  Images!JobsAreOwned
<1>1. Images!Cardinality(Images!Left) = Cardinality(Left)
  BY ImagesCount DEF Left
<1> QED
  BY <1>1 DEF ImagesInv, SizesAllowed, JobsKnown, FewAreLeft, Images!JobsAreOwned,
              Images!NoJob, Biggest

-----------------------------------------------------------------------------
(* BackendProcess: servers are the engines' own.                             *)

\* Ports have numbers.
BackendsAssumption == Ports \subseteq Nat \ {0}

Program == [pc : {"none", "stat", "probe", "spawn", "poll", "check", "ready", "stopping",
                  "stopKill", "closing", "closeKill", "closeFailed", "failed"},
            port : Ports \cup {0}, stamp : Nat, modern : BOOLEAN,
            answeredBy : Engines \cup {Backends!Nobody, Backends!Stranger}]
Process == [state : {"none", "loading", "listening", "dead"}, killed : BOOLEAN, stamp : Nat,
            build : {"old", "new"}]

BackendsType ==
    /\ eng \in [Engines -> Program] /\ child \in [Engines -> Process]
    /\ exe \in [stamp : Nat, build : {"old", "new"}]
    /\ versions \in [stamp : Nat, build : {"old", "new", "none"}]

\* Engines that have a port, and those of them that are not registered yet.
Holds(e) == eng[e].pc \notin {"none", "failed"}
Reserves(e) == Holds(e) /\ ~Backends!Registered(e)

\* No two engines have the same port.
PortsAreOwn ==
    /\ \A e, o \in Engines : e # o /\ Holds(e) /\ Holds(o) => eng[e].port # eng[o].port
    /\ \A e \in Engines : Reserves(e) => eng[e].port \in reserved

Running(e) == child[e].state \in {"loading", "listening"}

\* The program of an engine that is lost has been killed; and what is known of its build is
\* of the executable that it was started from, unless that has been replaced since.
ProgramKnown(e) ==
    /\ eng[e].pc \in {"none", "stat", "probe", "spawn"} => child[e].state = "none"
    /\ eng[e].pc \in {"failed", "stopKill"} /\ Running(e) => child[e].killed
    /\ eng[e].pc \in {"none", "stat", "probe"} => ~eng[e].modern
    /\ eng[e].stamp <= exe.stamp /\ child[e].stamp <= exe.stamp
    /\ eng[e].modern /\ eng[e].stamp = exe.stamp => exe.build = "new"
    /\ child[e].state # "none" /\ child[e].stamp = exe.stamp => child[e].build = exe.build
    /\ child[e].state # "none" /\ eng[e].modern /\ child[e].stamp = eng[e].stamp =>
          child[e].build = "new"
    /\ eng[e].answeredBy \in
          {Backends!Nobody, e} \cup
             (IF Kind[e] = "vlm" \/ foreign = {} THEN {} ELSE {Backends!Stranger})

VersionKnown == versions.stamp <= exe.stamp
                /\ (versions.stamp = exe.stamp /\ versions.build = "new" => exe.build = "new")

BackendsInv ==
    BackendsType /\ PortsAreOwn /\ VersionKnown /\ \A e \in Engines : ProgramKnown(e)

\* There is no program.
LEMMA BackendsInit ==
  ASSUME Backends!Init
  PROVE  BackendsInv
<1>1. PICK b \in {"old", "new"} : exe = [stamp |-> 1, build |-> b]
  BY DEF Backends!Init
<1>2. BackendsType
  BY <1>1
  DEF BackendsType, Program, Process, Backends!Init, Backends!Unused, Backends!NoChild,
      Backends!NotCached, Backends!NoPort
<1>3. PortsAreOwn
  BY DEF PortsAreOwn, Reserves, Holds, Backends!Init, Backends!Unused
<1>4. VersionKnown
  BY <1>1 DEF VersionKnown, Backends!Init, Backends!NotCached
<1>5. \A e \in Engines : ProgramKnown(e)
  BY <1>1 DEF ProgramKnown, Running, Backends!Init, Backends!Unused, Backends!NoChild
<1> QED
  BY <1>2, <1>3, <1>4, <1>5 DEF BackendsInv

\* What has to be shown of a step of one engine.
LEMMA EngineStep ==
  ASSUME BackendsInv, NEW e \in Engines, NEW x \in Program, NEW y \in Process,
         eng' = [eng EXCEPT ![e] = x], child' = [child EXCEPT ![e] = y],
         UNCHANGED <<exe, foreign>>,
         \/ versions' = versions
         \/ VersionKnown' /\ versions' \in [stamp : Nat, build : {"old", "new", "none"}],
         x.pc \notin {"none", "failed"} =>
            \A o \in Engines \ {e} : Holds(o) => eng[o].port # x.port,
         x.pc \notin {"none", "failed", "ready", "closing", "closeKill", "closeFailed"} =>
            x.port \in reserved',
         reserved \subseteq reserved' \/ (Holds(e) /\ reserved \ {eng[e].port} \subseteq reserved'),
         ProgramKnown(e)'
  PROVE  BackendsInv'
<1>1. /\ eng'[e] = x /\ child'[e] = y
      /\ \A o \in Engines \ {e} : eng'[o] = eng[o] /\ child'[o] = child[o]
  BY DEF BackendsInv, BackendsType
<1>2. BackendsType'
  BY DEF BackendsInv, BackendsType
<1>3. PortsAreOwn'
  <2>1. \A o \in Engines \ {e} : Holds(o)' <=> Holds(o)
    BY <1>1 DEF Holds
  <2>2. Holds(e)' <=> x.pc \notin {"none", "failed"}
    BY <1>1 DEF Holds
  <2>3. \A p, o \in Engines : p # o /\ Holds(p)' /\ Holds(o)' => eng'[p].port # eng'[o].port
    BY <1>1, <2>1, <2>2 DEF BackendsInv, PortsAreOwn
  <2>4. ASSUME NEW o \in Engines, Reserves(o)' PROVE eng'[o].port \in reserved'
    <3>1. CASE o = e
      BY <1>1, <2>4, <3>1 DEF Reserves, Holds, Backends!Registered
    <3>2. CASE o # e
      <4>1. Reserves(o) /\ Holds(o) /\ eng'[o] = eng[o]
        BY <1>1, <2>4, <3>2 DEF Reserves, Holds, Backends!Registered
      <4>2. eng[o].port \in reserved /\ (Holds(e) => eng[o].port # eng[e].port)
        BY <3>2, <4>1 DEF BackendsInv, PortsAreOwn
      <4> QED
        BY <4>1, <4>2
    <3> QED
      BY <3>1, <3>2
  <2> QED
    BY <2>3, <2>4 DEF PortsAreOwn
<1>4. VersionKnown'
  BY DEF BackendsInv, VersionKnown
<1>5. ASSUME NEW o \in Engines PROVE ProgramKnown(o)'
  <2>1. CASE o = e
    BY <2>1
  <2>2. CASE o # e
    BY <1>1, <2>2 DEF BackendsInv, ProgramKnown, Running
  <2> QED
    BY <2>1, <2>2
<1> QED
  BY <1>2, <1>3, <1>4, <1>5 DEF BackendsInv

\* A step in which an engine keeps its port, or gives it up with its reservation.
LEMMA SamePortStep ==
  ASSUME BackendsInv, NEW e \in Engines, NEW x \in Program, NEW y \in Process,
         eng' = [eng EXCEPT ![e] = x], child' = [child EXCEPT ![e] = y],
         UNCHANGED <<exe, foreign>>,
         \/ versions' = versions
         \/ VersionKnown' /\ versions' \in [stamp : Nat, build : {"old", "new", "none"}],
         \/ x.pc \in {"none", "failed"} /\ (Holds(e) \/ reserved' = reserved)
         \/ x.port = eng[e].port /\ Holds(e)
              /\ \/ x.pc \in {"ready", "closing", "closeKill", "closeFailed"}
                 \/ Reserves(e) /\ reserved' = reserved,
         reserved' \in {reserved, reserved \ {eng[e].port}},
         ProgramKnown(e)'
  PROVE  BackendsInv'
<1>1. x.pc \notin {"none", "failed"} => \A o \in Engines \ {e} : Holds(o) => eng[o].port # x.port
  BY DEF BackendsInv, PortsAreOwn
<1>2. x.pc \notin {"none", "failed", "ready", "closing", "closeKill", "closeFailed"} =>
         x.port \in reserved'
  BY DEF BackendsInv, PortsAreOwn
<1>3. reserved \subseteq reserved' \/ (Holds(e) /\ reserved \ {eng[e].port} \subseteq reserved')
  OBVIOUS
<1> QED
  BY <1>1, <1>2, <1>3, EngineStep

-----------------------------------------------------------------------------
(* The port and the executable. *)

\* The first port that is free is given to no other engine.
LEMMA AssignKeeps ==
  ASSUME BackendsAssumption, BackendsInv, NEW e \in Engines, Backends!Assign(e)
  PROVE  BackendsInv'
<1> DEFINE free == {p \in Ports : ~Backends!Taken(p) /\ ~Backends!Listening(p)}
<1>1. PICK p : p = Backends!Min(free)
  OBVIOUS
<1>2. /\ eng[e].pc = "none" /\ free # {} /\ reserved' = reserved \cup {p}
      /\ UNCHANGED <<child, foreign, exe, versions>>
  BY <1>1 DEF Backends!Assign
<1>3. p \in Ports /\ ~Backends!Taken(p)
  <2>1. free \in SUBSET Nat
    BY DEF BackendsAssumption
  <2>2. \E m \in free : \A n \in free : m <= n
    BY <1>2, <2>1, LeastNatural
  <2>3. p \in free
    BY <1>1, <2>2 DEF Backends!Min
  <2> QED
    BY <2>3
<1>4. eng[e] \in Program /\ child[e] \in Process
  BY DEF BackendsInv, BackendsType
<1> HIDE DEF free
<1>5. PICK x : \E pc \in {"stat", "spawn"} : x = [eng[e] EXCEPT !.port = p, !.pc = pc]
                                              /\ eng' = [eng EXCEPT ![e] = x]
  <2>1. PICK pc : pc = IF Kind[e] = "llama" THEN "stat" ELSE "spawn"
    OBVIOUS
  <2>2. eng' = [eng EXCEPT ![e].port = p, ![e].pc = pc]
    BY <1>1, <2>1 DEF Backends!Assign, free
  <2>3. PICK x : x = [eng[e] EXCEPT !.port = p, !.pc = pc]
    OBVIOUS
  <2>4. eng' = [eng EXCEPT ![e] = x]
    BY <2>2, <2>3 DEF BackendsInv, BackendsType
  <2>5. pc \in {"stat", "spawn"}
    BY <2>1
  <2> QED
    BY <2>3, <2>4, <2>5
<1>6. /\ x \in Program /\ x.port = p /\ x.pc \in {"stat", "spawn"} /\ x.stamp = eng[e].stamp
      /\ x.modern = eng[e].modern /\ x.answeredBy = eng[e].answeredBy
  BY <1>3, <1>4, <1>5 DEF Program
<1>7. child' = [child EXCEPT ![e] = child[e]] /\ eng'[e] = x /\ child'[e] = child[e]
  BY <1>2, <1>5 DEF BackendsInv, BackendsType
<1>8. ProgramKnown(e)'
  BY <1>2, <1>6, <1>7 DEF BackendsInv, ProgramKnown, Running
<1>9. \A o \in Engines \ {e} : Holds(o) => eng[o].port # x.port
  <2>1. ASSUME NEW o \in Engines, Holds(o) PROVE eng[o].port # p
    BY <1>3, <2>1 DEF BackendsInv, PortsAreOwn, Reserves, Backends!Taken
  <2> QED
    BY <1>6, <2>1
<1> QED
  BY <1>2, <1>4, <1>5, <1>6, <1>7, <1>8, <1>9, EngineStep

\* The executable is looked at, and asked for its version.
LEMMA StatKeeps ==
  ASSUME BackendsInv, NEW e \in Engines, Backends!StatBinary(e)
  PROVE  BackendsInv'
<1>1. /\ eng[e] \in Program /\ child[e] \in Process /\ exe.stamp \in Nat
      /\ eng[e].pc = "stat" /\ UNCHANGED <<child, foreign, reserved, exe, versions>>
  BY DEF BackendsInv, BackendsType, Backends!StatBinary
<1>2. PICK x : x = [eng[e] EXCEPT !.pc = "probe", !.stamp = exe.stamp]
  OBVIOUS
<1>3. eng' = [eng EXCEPT ![e] = x]
  BY <1>2 DEF BackendsInv, BackendsType, Backends!StatBinary
<1>4. /\ x \in Program /\ x.port = eng[e].port /\ x.pc = "probe" /\ x.stamp = exe.stamp
      /\ x.modern = eng[e].modern /\ x.answeredBy = eng[e].answeredBy
  BY <1>1, <1>2 DEF Program
<1>5. child' = [child EXCEPT ![e] = child[e]] /\ eng'[e] = x /\ child'[e] = child[e]
  BY <1>1, <1>3 DEF BackendsInv, BackendsType
<1>6. ProgramKnown(e)'
  BY <1>1, <1>4, <1>5 DEF BackendsInv, ProgramKnown, Running
<1>7. Holds(e) /\ Reserves(e)
  BY <1>1 DEF Holds, Reserves, Backends!Registered
<1> QED
  BY <1>1, <1>3, <1>4, <1>5, <1>6, <1>7, SamePortStep

\* The version is taken from the cache, if it is that of the same executable, or asked.
LEMMA ProbeKeeps ==
  ASSUME BackendsInv, NEW e \in Engines, Backends!Probe(e)
  PROVE  BackendsInv'
<1>1. /\ eng[e] \in Program /\ child[e] \in Process /\ exe.stamp \in Nat
      /\ exe.build \in {"old", "new"} /\ versions \in [stamp : Nat, build : {"old", "new", "none"}]
      /\ eng[e].pc = "probe" /\ UNCHANGED <<child, foreign, exe>>
  BY DEF BackendsInv, BackendsType, Backends!Probe
<1>2. Holds(e) /\ Reserves(e) /\ child[e].state = "none" /\ ~eng[e].modern
      /\ eng[e].stamp <= exe.stamp /\ eng[e].stamp \in Nat
  BY <1>1 DEF Holds, Reserves, Backends!Registered, BackendsInv, ProgramKnown, Program
<1>3. PICK build \in IF Backends!Hit(e) THEN {versions.build} ELSE {exe.build, "unknown"} :
          /\ versions' = IF Backends!Hit(e) \/ build = "unknown" THEN versions
                         ELSE [stamp |-> eng[e].stamp, build |-> build]
          /\ IF build = "new" \/ AllowUnvalidated
             THEN /\ eng' = [eng EXCEPT ![e].pc = "spawn", ![e].modern = build = "new"]
                  /\ UNCHANGED reserved
             ELSE Backends!Failed(e)
  BY DEF Backends!Probe
<1>4. versions' = versions \/ (VersionKnown' /\ versions' \in [stamp : Nat, build : {"old", "new", "none"}])
  <2>1. CASE Backends!Hit(e) \/ build = "unknown"
    BY <1>3, <2>1
  <2>2. CASE ~(Backends!Hit(e) \/ build = "unknown")
    <3>1. versions' = [stamp |-> eng[e].stamp, build |-> exe.build]
      BY <1>3, <2>2
    <3> QED
      BY <1>1, <1>2, <3>1 DEF VersionKnown
  <2> QED
    BY <2>1, <2>2
<1>5. build = "new" /\ eng[e].stamp = exe.stamp => exe.build = "new"
  BY <1>1, <1>3 DEF BackendsInv, VersionKnown, Backends!Hit
<1>6. child' = [child EXCEPT ![e] = child[e]] /\ child'[e] = child[e]
  BY <1>1 DEF BackendsInv, BackendsType
<1>7. CASE build = "new" \/ AllowUnvalidated
  <2>1. PICK m \in BOOLEAN : m <=> build = "new"
    OBVIOUS
  <2>2. PICK x : x = [eng[e] EXCEPT !.pc = "spawn", !.modern = m]
    OBVIOUS
  <2>3. eng' = [eng EXCEPT ![e] = x] /\ reserved' = reserved
    <3>1. m = (build = "new")
      BY <2>1
    <3>2. eng' = [eng EXCEPT ![e].pc = "spawn", ![e].modern = m] /\ reserved' = reserved
      BY <1>3, <1>7, <3>1
    <3> QED
      BY <2>2, <3>2 DEF BackendsInv, BackendsType
  <2>4. /\ x \in Program /\ x.port = eng[e].port /\ x.pc = "spawn" /\ x.stamp = eng[e].stamp
        /\ x.modern = m /\ x.answeredBy = eng[e].answeredBy
    BY <1>1, <2>2 DEF Program
  <2>5. eng'[e] = x
    BY <2>3 DEF BackendsInv, BackendsType
  <2>6. ProgramKnown(e)'
    BY <1>1, <1>2, <1>5, <1>6, <2>1, <2>4, <2>5 DEF BackendsInv, ProgramKnown, Running
  <2> QED
    BY <1>1, <1>2, <1>4, <1>6, <2>3, <2>4, <2>6, SamePortStep
<1>8. CASE ~(build = "new" \/ AllowUnvalidated)
  <2>1. PICK x : x = [eng[e] EXCEPT !.pc = "failed"]
    OBVIOUS
  <2>2. eng' = [eng EXCEPT ![e] = x] /\ reserved' = reserved \ {eng[e].port}
    BY <1>3, <1>8, <2>1 DEF Backends!Failed
  <2>3. /\ x \in Program /\ x.port = eng[e].port /\ x.pc = "failed" /\ x.stamp = eng[e].stamp
        /\ x.modern = eng[e].modern /\ x.answeredBy = eng[e].answeredBy
    BY <1>1, <2>1 DEF Program
  <2>4. eng'[e] = x
    BY <2>2 DEF BackendsInv, BackendsType
  <2>5. ProgramKnown(e)'
    BY <1>1, <1>2, <1>6, <2>3, <2>4 DEF BackendsInv, ProgramKnown, Running
  <2> QED
    BY <1>1, <1>2, <1>4, <1>6, <2>2, <2>3, <2>5, SamePortStep
<1> QED
  BY <1>7, <1>8

-----------------------------------------------------------------------------
(* Starts and ends of programs. *)

\* An engine moves on without a change of what is known of its program.
LEMMA EngineMoves ==
  ASSUME BackendsInv, NEW e \in Engines, NEW pc,
         eng' = [eng EXCEPT ![e].pc = pc], UNCHANGED <<child, foreign, exe, versions>>,
         pc \in {"poll", "check", "stopping", "closing", "closeFailed", "failed"},
         pc = "failed" /\ Running(e) => child[e].killed,
         Holds(e),
         \/ pc = "failed" /\ reserved' = reserved \ {eng[e].port}
         \/ pc \in {"closing", "closeFailed"} /\ reserved' = reserved
         \/ Reserves(e) /\ reserved' = reserved
  PROVE  BackendsInv'
<1>1. eng[e] \in Program /\ child[e] \in Process
  BY DEF BackendsInv, BackendsType
<1>2. PICK x : x = [eng[e] EXCEPT !.pc = pc]
  OBVIOUS
<1>3. eng' = [eng EXCEPT ![e] = x]
  BY <1>2
<1>4. /\ x \in Program /\ x.port = eng[e].port /\ x.pc = pc /\ x.stamp = eng[e].stamp
      /\ x.modern = eng[e].modern /\ x.answeredBy = eng[e].answeredBy
  BY <1>1, <1>2 DEF Program
<1>5. child' = [child EXCEPT ![e] = child[e]] /\ eng'[e] = x /\ child'[e] = child[e]
  BY <1>3 DEF BackendsInv, BackendsType
<1>6. ProgramKnown(e)'
  BY <1>4, <1>5 DEF BackendsInv, ProgramKnown, Running
<1> QED
  BY <1>1, <1>3, <1>4, <1>5, <1>6, SamePortStep

\* A program is started.
LEMMA SpawnKeeps ==
  ASSUME BackendsInv, NEW e \in Engines, Backends!Spawn(e)
  PROVE  BackendsInv'
<1>1. /\ eng[e] \in Program /\ exe.stamp \in Nat /\ exe.build \in {"old", "new"}
      /\ eng[e].pc = "spawn" /\ UNCHANGED <<foreign, reserved, exe, versions>>
      /\ eng' = [eng EXCEPT ![e].pc = "poll"]
  BY DEF BackendsInv, BackendsType, Backends!Spawn
<1>2. PICK x : x = [eng[e] EXCEPT !.pc = "poll"]
  OBVIOUS
<1>3. PICK y : y = [state |-> "loading", killed |-> FALSE, stamp |-> exe.stamp,
                    build |-> exe.build]
  OBVIOUS
<1>4. eng' = [eng EXCEPT ![e] = x] /\ child' = [child EXCEPT ![e] = y]
  BY <1>1, <1>2, <1>3 DEF Backends!Spawn
<1>5. /\ x \in Program /\ x.port = eng[e].port /\ x.pc = "poll" /\ x.stamp = eng[e].stamp
      /\ x.modern = eng[e].modern /\ x.answeredBy = eng[e].answeredBy
  BY <1>1, <1>2 DEF Program
<1>6. y \in Process /\ y.stamp = exe.stamp /\ y.build = exe.build
  BY <1>1, <1>3 DEF Process
<1>7. eng'[e] = x /\ child'[e] = y
  BY <1>4 DEF BackendsInv, BackendsType
<1>8. ProgramKnown(e)'
  BY <1>1, <1>5, <1>6, <1>7 DEF BackendsInv, ProgramKnown, Running
<1>9. Holds(e) /\ Reserves(e)
  BY <1>1 DEF Holds, Reserves, Backends!Registered
<1> QED
  BY <1>1, <1>4, <1>5, <1>6, <1>8, <1>9, SamePortStep

\* It answers on its port, where no other engine has put its own.
LEMMA CheckKeeps ==
  ASSUME BackendsInv, NEW e \in Engines, Backends!CheckReady(e)
  PROVE  BackendsInv'
<1> DEFINE p == eng[e].port
           there == {o \in Engines : /\ child[o].state = "listening" /\ ~child[o].killed
                                     /\ eng[o].port = p}
                        \cup (IF p \in foreign THEN {Backends!Stranger} ELSE {})
<1>1. /\ eng[e] \in Program /\ child[e] \in Process /\ eng[e].pc = "check"
      /\ UNCHANGED <<child, foreign, exe, versions>>
  BY DEF BackendsInv, BackendsType, Backends!CheckReady
<1>2. Holds(e) /\ Reserves(e)
  BY <1>1 DEF Holds, Reserves, Backends!Registered
<1>3. CASE eng' = [eng EXCEPT ![e].pc = "poll"] /\ UNCHANGED reserved
  BY <1>1, <1>2, <1>3, EngineMoves
<1>4. ASSUME NEW who \in there, Backends!Accepts(e, who),
             eng' = [eng EXCEPT ![e].pc = "ready", ![e].answeredBy = who],
             reserved' = reserved \ {p}
      PROVE  BackendsInv'
  <2>1. \/ who = e
        \/ who = Backends!Stranger /\ Kind[e] # "vlm" /\ foreign # {}
    <3>1. ASSUME NEW o \in Engines, child[o].state = "listening", ~child[o].killed,
                 eng[o].port = p
          PROVE  o = e
      <4>1. Holds(o)
        BY <3>1 DEF BackendsInv, ProgramKnown, Running, Holds
      <4> QED
        BY <1>2, <3>1, <4>1 DEF BackendsInv, PortsAreOwn
    <3>2. CASE who \in Engines /\ child[who].state = "listening" /\ ~child[who].killed
               /\ eng[who].port = p
      BY <3>1, <3>2
    <3>3. CASE p \in foreign /\ who = Backends!Stranger
      BY <1>4, <3>3 DEF Backends!Accepts
    <3> QED
      BY <1>4, <3>2, <3>3
  <2>2. PICK x : x = [eng[e] EXCEPT !.pc = "ready", !.answeredBy = who]
    OBVIOUS
  <2>3. eng' = [eng EXCEPT ![e] = x]
    BY <1>4, <2>2 DEF BackendsInv, BackendsType
  <2>4. /\ x \in Program /\ x.port = p /\ x.pc = "ready" /\ x.stamp = eng[e].stamp
        /\ x.modern = eng[e].modern /\ x.answeredBy = who
    BY <1>1, <2>1, <2>2 DEF Program
  <2>5. child' = [child EXCEPT ![e] = child[e]] /\ eng'[e] = x /\ child'[e] = child[e]
    BY <1>1, <2>3 DEF BackendsInv, BackendsType
  <2>6. ProgramKnown(e)'
    BY <1>1, <2>1, <2>4, <2>5 DEF BackendsInv, ProgramKnown, Running
  <2> QED
    BY <1>1, <1>2, <1>4, <2>3, <2>4, <2>5, <2>6, SamePortStep
<1> QED
  BY <1>3, <1>4 DEF Backends!CheckReady

\* A program that has gone is forgotten with its engine.
LEMMA GoneKeeps ==
  ASSUME BackendsInv, NEW e \in Engines, Backends!ChildGone(e) \/ Backends!Retry(e)
  PROVE  BackendsInv'
<1>1. /\ eng[e] \in Program /\ exe.stamp \in Nat /\ UNCHANGED <<foreign, exe, versions>>
      /\ child' = [child EXCEPT ![e] = Backends!NoChild]
  BY DEF BackendsInv, BackendsType, Backends!ChildGone, Backends!Retry
<1>2. Backends!NoChild \in Process /\ Backends!NoChild.state = "none" /\ Backends!NoChild.stamp = 0
  BY DEF Process, Backends!NoChild
<1>3. child'[e] = Backends!NoChild
  BY <1>1 DEF BackendsInv, BackendsType
<1>4. CASE eng' = [eng EXCEPT ![e] = Backends!Unused] /\ UNCHANGED reserved
  <2>1. /\ Backends!Unused \in Program /\ Backends!Unused.pc = "none"
        /\ ~Backends!Unused.modern /\ Backends!Unused.stamp = 0
        /\ Backends!Unused.answeredBy = Backends!Nobody
    BY DEF Program, Backends!Unused, Backends!NoPort
  <2>2. eng'[e] = Backends!Unused
    BY <1>4 DEF BackendsInv, BackendsType
  <2>3. ProgramKnown(e)'
    BY <1>1, <1>2, <1>3, <2>1, <2>2 DEF ProgramKnown, Running
  <2> QED
    BY <1>1, <1>2, <1>4, <2>1, <2>3, SamePortStep
<1>5. CASE Backends!Failed(e) /\ Holds(e)
  <2>1. PICK x : x = [eng[e] EXCEPT !.pc = "failed"]
    OBVIOUS
  <2>2. eng' = [eng EXCEPT ![e] = x] /\ reserved' = reserved \ {eng[e].port}
    BY <1>5, <2>1 DEF Backends!Failed
  <2>3. /\ x \in Program /\ x.port = eng[e].port /\ x.pc = "failed" /\ x.stamp = eng[e].stamp
        /\ x.modern = eng[e].modern /\ x.answeredBy = eng[e].answeredBy
    BY <1>1, <2>1 DEF Program
  <2>4. eng'[e] = x
    BY <2>2 DEF BackendsInv, BackendsType
  <2>5. ProgramKnown(e)'
    BY <1>1, <1>2, <1>3, <2>3, <2>4 DEF BackendsInv, ProgramKnown, Running
  <2> QED
    BY <1>1, <1>2, <1>5, <2>2, <2>3, <2>5, SamePortStep
<1> QED
  BY <1>4, <1>5 DEF Backends!ChildGone, Backends!Retry, Holds

\* A program that does not end at once is killed, and may not end then either.
LEMMA KillKeeps ==
  ASSUME BackendsInv, NEW e \in Engines, Backends!TermTimesOut(e) \/ Backends!KillTimesOut(e)
  PROVE  BackendsInv'
<1>1. eng[e] \in Program /\ child[e] \in Process
  BY DEF BackendsInv, BackendsType
<1>2. CASE Backends!TermTimesOut(e)
  <2>1. PICK pc : pc = IF eng[e].pc = "stopping" THEN "stopKill" ELSE "closeKill"
    OBVIOUS
  <2>2. PICK x : x = [eng[e] EXCEPT !.pc = pc]
    OBVIOUS
  <2>3. PICK y : y = [child[e] EXCEPT !.killed = TRUE]
    OBVIOUS
  <2>4. /\ eng[e].pc \in {"stopping", "closing"} /\ UNCHANGED <<foreign, reserved, exe, versions>>
        /\ eng' = [eng EXCEPT ![e] = x] /\ child' = [child EXCEPT ![e] = y]
    BY <1>2, <2>1, <2>2, <2>3 DEF Backends!TermTimesOut
  <2>5. /\ x \in Program /\ x.port = eng[e].port /\ x.pc = pc /\ x.stamp = eng[e].stamp
        /\ x.modern = eng[e].modern /\ x.answeredBy = eng[e].answeredBy
    BY <1>1, <2>1, <2>2 DEF Program
  <2>6. /\ y \in Process /\ y.killed = TRUE /\ y.state = child[e].state
        /\ y.stamp = child[e].stamp /\ y.build = child[e].build
    BY <1>1, <2>3 DEF Process
  <2>7. eng'[e] = x /\ child'[e] = y
    BY <2>4 DEF BackendsInv, BackendsType
  <2>8. ProgramKnown(e)'
    BY <2>1, <2>4, <2>5, <2>6, <2>7 DEF BackendsInv, ProgramKnown, Running
  <2>9. Holds(e) /\ (pc = "stopKill" => Reserves(e))
    BY <2>1, <2>4 DEF Holds, Reserves, Backends!Registered
  <2> QED
    BY <2>1, <2>4, <2>5, <2>6, <2>8, <2>9, SamePortStep
<1>3. CASE Backends!KillTimesOut(e)
  <2>1. eng[e].pc \in {"stopKill", "closeKill"} /\ UNCHANGED <<child, foreign, exe, versions>>
    BY <1>3 DEF Backends!KillTimesOut
  <2>2. Holds(e)
    BY <2>1 DEF Holds
  <2>3. CASE eng[e].pc = "stopKill"
    <3>1. Running(e) => child[e].killed
      BY <2>3 DEF BackendsInv, ProgramKnown
    <3>2. eng' = [eng EXCEPT ![e].pc = "failed"] /\ reserved' = reserved \ {eng[e].port}
      BY <1>3, <2>3 DEF Backends!KillTimesOut, Backends!Failed
    <3> QED
      BY <2>1, <2>2, <3>1, <3>2, EngineMoves
  <2>4. CASE eng[e].pc # "stopKill"
    <3>1. eng' = [eng EXCEPT ![e].pc = "closeFailed"] /\ reserved' = reserved
      BY <1>3, <2>4 DEF Backends!KillTimesOut
    <3> QED
      BY <2>1, <2>2, <3>1, EngineMoves
  <2> QED
    BY <2>3, <2>4
<1> QED
  BY <1>2, <1>3

\* A program binds its port, or ends.
LEMMA ProgramKeeps ==
  ASSUME BackendsInv, NEW e \in Engines, Backends!Bind(e) \/ Backends!Die(e)
  PROVE  BackendsInv'
<1>1. eng[e] \in Program /\ child[e] \in Process /\ UNCHANGED <<eng, foreign, reserved, exe, versions>>
  BY DEF BackendsInv, BackendsType, Backends!Bind, Backends!Die
<1>2. PICK s \in {"listening", "dead"} :
         child' = [child EXCEPT ![e].state = s] /\ (s = "listening" => ~child[e].killed)
  BY DEF Backends!Bind, Backends!Die
<1>3. Running(e)
  BY DEF Running, Backends!Bind, Backends!Die, Backends!Alive
<1>4. PICK y : y = [child[e] EXCEPT !.state = s]
  OBVIOUS
<1>5. /\ y \in Process /\ y.state = s /\ y.killed = child[e].killed
      /\ y.stamp = child[e].stamp /\ y.build = child[e].build
  BY <1>1, <1>4 DEF Process
<1>6. /\ child' = [child EXCEPT ![e] = y] /\ eng' = [eng EXCEPT ![e] = eng[e]]
      /\ child'[e] = y /\ \A o \in Engines \ {e} : child'[o] = child[o]
  BY <1>1, <1>2, <1>4 DEF BackendsInv, BackendsType
<1>7. ProgramKnown(e)'
  BY <1>1, <1>2, <1>3, <1>5, <1>6 DEF BackendsInv, ProgramKnown, Running
<1>8. \A o \in Engines \ {e} : ProgramKnown(o)'
  BY <1>1, <1>6 DEF BackendsInv, ProgramKnown, Running
<1>9. BackendsType'
  BY <1>1, <1>5, <1>6 DEF BackendsInv, BackendsType
<1>10. PortsAreOwn' /\ VersionKnown'
  BY <1>1 DEF BackendsInv, PortsAreOwn, VersionKnown, Holds, Reserves, Backends!Registered
<1> QED
  BY <1>7, <1>8, <1>9, <1>10 DEF BackendsInv

\* Another program takes a port, or the executable is replaced.
LEMMA MachineKeeps ==
  ASSUME BackendsInv, (\E p \in Ports : Backends!Intrude(p)) \/ Backends!ReplaceBinary
  PROVE  BackendsInv'
<1>1. UNCHANGED <<eng, child, reserved, versions>>
  BY DEF Backends!Intrude, Backends!ReplaceBinary
<1>2. PortsAreOwn'
  BY <1>1 DEF BackendsInv, PortsAreOwn, Holds, Reserves, Backends!Registered
<1>3. CASE exe' = exe /\ foreign \subseteq foreign'
  BY <1>1, <1>2, <1>3 DEF BackendsInv, BackendsType, VersionKnown, ProgramKnown, Running
<1>4. CASE Backends!ReplaceBinary
  <2>1. PICK b \in {"old", "new"} : exe' = [stamp |-> exe.stamp + 1, build |-> b]
    BY <1>4 DEF Backends!ReplaceBinary
  <2>2. /\ exe.stamp \in Nat /\ exe'.stamp = exe.stamp + 1 /\ foreign' = foreign
        /\ exe' \in [stamp : Nat, build : {"old", "new"}]
    BY <1>4, <2>1 DEF BackendsInv, BackendsType, Backends!ReplaceBinary
  <2>3. \A e \in Engines : eng[e].stamp \in Nat /\ child[e].stamp \in Nat
    BY DEF BackendsInv, BackendsType, Program, Process
  <2>4. BackendsType'
    BY <1>1, <2>2 DEF BackendsInv, BackendsType
  <2>5. VersionKnown'
    BY <1>1, <2>2 DEF BackendsInv, BackendsType, VersionKnown
  <2>6. \A e \in Engines : ProgramKnown(e)'
    BY <1>1, <2>2, <2>3 DEF BackendsInv, ProgramKnown, Running
  <2> QED
    BY <1>2, <2>4, <2>5, <2>6 DEF BackendsInv
<1> QED
  BY <1>3, <1>4 DEF Backends!Intrude

\* Every step keeps the invariant.
LEMMA BackendsNext ==
  ASSUME BackendsAssumption, BackendsInv, Backends!Next
  PROVE  BackendsInv'
<1>1. ASSUME NEW e \in Engines, Backends!PollChild(e) PROVE BackendsInv'
  <2>1. eng[e].pc = "poll" /\ UNCHANGED <<child, foreign, exe, versions>>
    BY <1>1 DEF Backends!PollChild
  <2>2. Holds(e) /\ Reserves(e)
    BY <2>1 DEF Holds, Reserves, Backends!Registered
  <2>3. CASE Backends!Alive(e)
    BY <1>1, <2>1, <2>2, <2>3, EngineMoves DEF Backends!PollChild
  <2>4. CASE ~Backends!Alive(e)
    BY <1>1, <2>1, <2>2, <2>4, EngineMoves
    DEF Backends!PollChild, Backends!Failed, Backends!Alive, Running
  <2> QED
    BY <2>3, <2>4
<1>2. ASSUME NEW e \in Engines, Backends!StartTimesOut(e) PROVE BackendsInv'
  <2>1. /\ eng[e].pc = "poll" /\ UNCHANGED <<child, foreign, exe, versions, reserved>>
        /\ eng' = [eng EXCEPT ![e].pc = "stopping"]
    BY <1>2 DEF Backends!StartTimesOut
  <2>2. Holds(e) /\ Reserves(e)
    BY <2>1 DEF Holds, Reserves, Backends!Registered
  <2> QED
    BY <2>1, <2>2, EngineMoves
<1>3. ASSUME NEW e \in Engines, Backends!Close(e) PROVE BackendsInv'
  <2>1. /\ eng[e].pc \in {"ready", "closeFailed"}
        /\ UNCHANGED <<child, foreign, exe, versions, reserved>>
        /\ eng' = [eng EXCEPT ![e].pc = "closing"]
    BY <1>3 DEF Backends!Close
  <2>2. Holds(e)
    BY <2>1 DEF Holds
  <2> QED
    BY <2>1, <2>2, EngineMoves
<1> QED
  BY <1>1, <1>2, <1>3, AssignKeeps, StatKeeps, ProbeKeeps, SpawnKeeps, CheckKeeps, GoneKeeps,
     KillKeeps, ProgramKeeps, MachineKeeps
  DEF Backends!Next

\* The invariant holds in every behaviour.
LEMMA BackendsInvHolds ==
  ASSUME BackendsAssumption
  PROVE  ServedSpec => [](component = "backends" => BackendsInv)
<1>1. ASSUME BackendsInv, UNCHANGED Backends!vars PROVE BackendsInv'
  <2>1. UNCHANGED <<eng, child, foreign, reserved, exe, versions>>
    BY <1>1 DEF Backends!vars
  <2> QED
    BY <1>1, <2>1
    DEF BackendsInv, BackendsType, PortsAreOwn, Holds, Reserves, Backends!Registered,
        VersionKnown, ProgramKnown, Running
<1>2. BackendsInv /\ [Backends!Next]_(Backends!vars) => BackendsInv'
  BY <1>1, BackendsNext
<1>3. ServedInit => (component = "backends" => BackendsInv)
  BY BackendsInit DEF ServedInit
<1>4. (component = "backends" => BackendsInv) /\ [ServedNext]_servingVars
         => (component = "backends" => BackendsInv)'
  BY <1>2, SameComponent
<1> QED
  BY <1>3, <1>4, PTL DEF ServedSpec

\* Server programs are the engines' own: one that runs although its engine is lost has been
\* killed, no engine is answered by that of another, and options are given only to a build
\* that has them (process.py, engine.py, llama_server_compat.py); image jobs are of the
\* requests that get their images, and the server of the runtime works for nobody who has
\* gone, except after a call to it has failed (stable_diffusion_cpp_image_engine.py).
THEOREM NothingStaysBehind ==
  ASSUME BackendsAssumption, ImagesAssumption
  PROVE  ServedSpec => []NothingIsLeftBehind
<1>1. BackendsInv => Backends!ServersAreOwn
  BY DEF BackendsInv, ProgramKnown, Running, Backends!ServersAreOwn,
         Backends!NoOrphan, Backends!ReadyIsOwn, Backends!ProfileFits, Backends!Alive
<1>2. /\ component = "backends" => BackendsInv
      /\ component = "images" => ImagesInv
      => NothingIsLeftBehind
  BY <1>1, ImageJobsAreOwned DEF NothingIsLeftBehind
<1> QED
  BY <1>2, BackendsInvHolds, ImagesInvHolds, PTL

-----------------------------------------------------------------------------
(* ChatCompletions: an answer is of the load that was asked for it.          *)

\* There are finitely many requests at a time, and the cache is enabled: neither its size
\* nor its time to live is 0.
ChatAssumption ==
    /\ IsFiniteSet(Askers) /\ \A r \in Askers : Wants(r) \in Chat!Demands
    /\ Configs \subseteq Chat!Settings
    /\ MaxLoads \in Nat \ {0} /\ CacheSize \in Nat \ {0} /\ TTL \in Nat \ {0}

\* Where a request has a runtime's lease, and where it has one or is about to ask for it.
Served == {"wait", "start", "engine", "put", "idle", "leave", "release"}
Chosen == {"lookup", "lease"} \cup Served
Before == {"new", "queued", "lookup", "lease", "wait", "start", "engine", "refused"}

Answers == {Chat!NoAnswer} \cup (Chat!Generations \X Prompts)
ChatRequests ==
    [pc : Before \cup Served \cup {"answered", "failed"}, gen : {Chat!Cold} \cup Chat!Generations,
     answer : Answers, age : Nat]
Entries == [key : Chat!Generations \X Prompts, value : Answers, age : Nat]

ChatType ==
    /\ config \in [Chat!Generations -> Chat!Settings]
    /\ resident \in {Chat!Cold} \cup Chat!Generations /\ loads \in 0..MaxLoads
    /\ leased \in [Chat!Generations -> Int] /\ status \in [Chat!Generations -> BOOLEAN]
    /\ proc \in [Askers -> ChatRequests] /\ cache \in Seq(Entries)

\* The requests that a load of the model has been leased to.
Users(g) == {r \in Askers : proc[r].pc \in Served /\ proc[r].gen = g}

LeasesAreCounted == \A g \in Chat!Generations : leased[g] = Cardinality(Users(g))

\* A request is served by the load that is resident, which can serve it.
ServedByCurrent ==
    \A r \in Askers :
        /\ proc[r].pc \in Chosen => /\ proc[r].gen \in Chat!Generations
                                    /\ Chat!Accepts(Wants(r), config[proc[r].gen])
        /\ proc[r].pc \in Served => proc[r].gen = resident

\* What a request has been answered, and when.
AnswerOf(r) ==
    /\ proc[r].pc \in Before => proc[r].answer = Chat!NoAnswer
    /\ proc[r].answer \in {Chat!NoAnswer, Chat!Answer(proc[r].gen, Wants(r).prompt)}
    /\ proc[r].pc \in {"put", "answered"} => proc[r].answer # Chat!NoAnswer
    /\ proc[r].age < TTL /\ (proc[r].pc # "answered" => proc[r].age = 0)

AnswersAreKept ==
    /\ \A r \in Askers : AnswerOf(r)
    /\ \A i \in 1..Len(cache) : cache[i].value = cache[i].key
    /\ Len(cache) <= CacheSize

ChatInv ==
    ChatType /\ LeasesAreCounted /\ ServedByCurrent /\ AnswersAreKept /\ Chat!BusyIsReported

\* The instance counts as this module does.
LEMMA ChatCounts == ASSUME NEW S PROVE Chat!Cardinality(S) = Cardinality(S)
  BY DEF Chat!Cardinality, Cardinality

\* What is left of the cache without a key, and that it is less if the key was there.
LEMMA WithoutKey ==
  ASSUME ChatInv, NEW key
  PROVE  /\ Chat!Without(key) \in Seq(Entries)
         /\ \A i \in 1..Len(Chat!Without(key)) :
              Chat!Without(key)[i].value = Chat!Without(key)[i].key
         /\ Len(Chat!Without(key)) \in Nat /\ Len(Chat!Without(key)) <= Len(cache)
         /\ Chat!Entry(key) # {} => Len(Chat!Without(key)) < Len(cache)
<1> DEFINE S == {cache[i] : i \in (1..Len(cache)) \ Chat!Entry(key)}
<1>1. cache \in Seq(Entries) /\ Chat!Without(key) = Only(cache, S)
  BY DEF ChatInv, ChatType, Chat!Without, Chat!Only, Only
<1>2. ASSUME NEW i \in Chat!Entry(key) PROVE i \in 1..Len(cache) /\ cache[i] \notin S
  BY DEF Chat!Entry
<1>3. \A i \in 1..Len(cache) : cache[i].value = cache[i].key
  BY DEF ChatInv, AnswersAreKept
<1> HIDE DEF S
<1>4. Only(cache, S) \in Seq(Entries)
  BY <1>1, OnlyType
<1>5. \A i \in 1..Len(Only(cache, S)) : \E k \in 1..Len(cache) : cache[k] = Only(cache, S)[i]
  BY <1>1, OnlyElements
<1>6. /\ Len(Only(cache, S)) <= Len(cache)
      /\ (\E i \in 1..Len(cache) : cache[i] \notin S) => Len(Only(cache, S)) < Len(cache)
  BY <1>1, OnlyShortens
<1> QED
  BY <1>1, <1>2, <1>3, <1>4, <1>5, <1>6

\* No model, or the first load of one, and no request.
LEMMA ChatInit ==
  ASSUME ChatAssumption, Chat!Init
  PROVE  ChatInv
<1>1. ChatType
  BY DEF ChatType, ChatAssumption, Chat!Init, Chat!Cold, Chat!Generations, ChatRequests, Before,
         Answers
<1>2. \A g \in Chat!Generations : Users(g) = {}
  BY DEF Users, Chat!Init, Served
<1>3. LeasesAreCounted
  BY <1>2, FS_EmptySet DEF LeasesAreCounted, Chat!Init
<1>4. ServedByCurrent
  BY DEF ServedByCurrent, Chat!Init, Chosen, Served
<1>5. AnswersAreKept
  BY DEF AnswersAreKept, AnswerOf, Chat!Init, ChatAssumption, Before
<1>6. Chat!BusyIsReported
  BY DEF Chat!BusyIsReported, Chat!Init
<1> QED
  BY <1>1, <1>3, <1>4, <1>5, <1>6 DEF ChatInv

\* A request without a lease moves on without one.
LEMMA ElsewhereCounted ==
  ASSUME ChatInv, NEW r \in Askers, NEW x \in ChatRequests, proc' = [proc EXCEPT ![r] = x],
         UNCHANGED leased, proc[r].pc \in Served <=> x.pc \in Served,
         x.pc \in Served => x.gen = proc[r].gen
  PROVE  LeasesAreCounted'
<1>1. \A g \in Chat!Generations : Users(g)' = Users(g)
  BY DEF Users, ChatInv, ChatType
<1> QED
  BY <1>1 DEF ChatInv, LeasesAreCounted

\* A step of one request that changes no load, no count and no status, and only of the
\* cache what it may.
LEMMA RequestMoves ==
  ASSUME ChatInv, NEW r \in Askers, NEW x \in ChatRequests, proc' = [proc EXCEPT ![r] = x],
         UNCHANGED <<config, resident, loads>>, LeasesAreCounted',
         leased' \in [Chat!Generations -> Int], status' \in [Chat!Generations -> BOOLEAN],
         cache' \in Seq(Entries), Len(cache') <= CacheSize,
         \A i \in 1..Len(cache') : cache'[i].value = cache'[i].key,
         x.pc \in Chosen => /\ x.gen \in Chat!Generations
                            /\ Chat!Accepts(Wants(r), config[x.gen]),
         x.pc \in Served => x.gen = resident,
         x.pc \in Before => x.answer = Chat!NoAnswer,
         x.answer \in {Chat!NoAnswer, Chat!Answer(x.gen, Wants(r).prompt)},
         x.pc \in {"put", "answered"} => x.answer # Chat!NoAnswer,
         x.age < TTL, x.pc # "answered" => x.age = 0,
         x.pc = "engine" => status'[x.gen],
         \A q \in Askers \ {r} : proc[q].pc = "engine" => status'[proc[q].gen]
  PROVE  ChatInv'
<1>1. ChatType'
  BY DEF ChatInv, ChatType
<1>2. proc'[r] = x /\ \A q \in Askers \ {r} : proc'[q] = proc[q]
  BY DEF ChatInv, ChatType
<1>3. ServedByCurrent'
  <2>1. ASSUME NEW q \in Askers
        PROVE  /\ proc'[q].pc \in Chosen => /\ proc'[q].gen \in Chat!Generations
                                            /\ Chat!Accepts(Wants(q), config[proc'[q].gen])
               /\ proc'[q].pc \in Served => proc'[q].gen = resident
    BY <1>2 DEF ChatInv, ServedByCurrent
  <2> QED
    BY <2>1 DEF ServedByCurrent, Chat!Accepts
<1>4. AnswersAreKept'
  BY <1>2 DEF ChatInv, AnswersAreKept, AnswerOf, Chat!Answer
<1>5. Chat!BusyIsReported'
  BY <1>2 DEF ChatInv, Chat!BusyIsReported
<1> QED
  BY <1>1, <1>3, <1>4, <1>5 DEF ChatInv

\* What a request that moves on is.
LEMMA ChatRequestFields ==
  ASSUME ChatInv, NEW r \in Askers
  PROVE  /\ proc[r] \in ChatRequests
         /\ proc[r].pc \in Before \cup Served \cup {"answered", "failed"}
         /\ proc[r].gen \in {Chat!Cold} \cup Chat!Generations
         /\ proc[r].answer \in Answers /\ proc[r].age \in Nat
         /\ AnswerOf(r)
         /\ proc[r].pc \in Chosen => proc[r].gen \in Chat!Generations
         /\ proc[r].pc \in Served => proc[r].gen = resident
         /\ proc[r].pc \in Chosen => Chat!Accepts(Wants(r), config[proc[r].gen])
         /\ cache \in Seq(Entries) /\ Len(cache) <= CacheSize
         /\ \A i \in 1..Len(cache) : cache[i].value = cache[i].key
         /\ Chat!BusyIsReported
  BY DEF ChatInv, ChatType, ChatRequests, AnswersAreKept, ServedByCurrent

\* A request that only goes elsewhere, with or without a lease as before.
LEMMA RequestGoes ==
  ASSUME ChatInv, NEW r \in Askers, NEW pc \in Before \cup Served \cup {"failed"},
         Chat!Goes(r, pc), UNCHANGED <<config, resident, leased, loads>>,
         proc[r].pc # "answered", pc = "put" => proc[r].answer # Chat!NoAnswer,
         pc \in Before => proc[r].pc \in Before,
         proc[r].pc \in Served <=> pc \in Served,
         pc \in Chosen => proc[r].pc \in Chosen,
         status' \in [Chat!Generations -> BOOLEAN],
         cache' \in Seq(Entries), Len(cache') <= CacheSize,
         \A i \in 1..Len(cache') : cache'[i].value = cache'[i].key,
         pc = "engine" => status'[proc[r].gen],
         \A q \in Askers \ {r} : proc[q].pc = "engine" => status'[proc[q].gen]
  PROVE  ChatInv'
<1>1. PICK x : x = [proc[r] EXCEPT !.pc = pc]
  OBVIOUS
<1>2. /\ x \in ChatRequests /\ x.pc = pc /\ x.gen = proc[r].gen /\ x.answer = proc[r].answer
      /\ x.age = proc[r].age
  BY <1>1, ChatRequestFields DEF ChatRequests
<1>3. proc' = [proc EXCEPT ![r] = x]
  BY <1>1 DEF Chat!Goes
<1>4. LeasesAreCounted'
  BY <1>2, <1>3, ElsewhereCounted
<1>5. pc # "answered"
  BY DEF Before, Served
<1>6. leased' \in [Chat!Generations -> Int]
  BY DEF ChatInv, ChatType
<1>7. AnswerOf(r)
  BY ChatRequestFields
<1> QED
  BY <1>2, <1>3, <1>4, <1>5, <1>6, <1>7, RequestMoves, ChatRequestFields DEF AnswerOf

\* The same, when the cache and the status stay.
LEMMA RequestGoesOn ==
  ASSUME ChatInv, NEW r \in Askers, NEW pc \in Before \cup Served \cup {"failed"},
         Chat!Goes(r, pc), UNCHANGED <<config, resident, leased, status, cache, loads>>,
         proc[r].pc # "answered", pc = "put" => proc[r].answer # Chat!NoAnswer,
         pc \in Before => proc[r].pc \in Before,
         proc[r].pc \in Served <=> pc \in Served,
         pc \in Chosen => proc[r].pc \in Chosen,
         pc # "engine"
  PROVE  ChatInv'
<1>1. status' \in [Chat!Generations -> BOOLEAN]
  BY DEF ChatInv, ChatType
<1>2. \A q \in Askers \ {r} : proc[q].pc = "engine" => status'[proc[q].gen]
  BY DEF ChatInv, Chat!BusyIsReported
<1> QED
  BY <1>1, <1>2, RequestGoes, ChatRequestFields

\* The middleware refuses a request or lets it through.
LEMMA ArriveKeeps ==
  ASSUME ChatInv, NEW r \in Askers, Chat!Arrive(r)
  PROVE  ChatInv'
<1>1. PICK pc \in {"refused", "queued"} : Chat!Goes(r, pc)
  BY DEF Chat!Arrive
<1>2. proc[r].pc = "new" /\ UNCHANGED <<config, resident, leased, status, cache, loads>>
  BY DEF Chat!Arrive
<1> QED
  BY <1>1, <1>2, RequestGoesOn DEF Before, Served, Chosen

\* The route refuses a request, or resolves the load of the model it is for.
LEMMA RouteKeeps ==
  ASSUME ChatAssumption, ChatInv, NEW r \in Askers, Chat!Route(r)
  PROVE  ChatInv'
<1>1. proc[r].pc = "queued" /\ UNCHANGED <<config, resident, leased, status, cache, loads>>
  BY DEF Chat!Route
<1>2. CASE Chat!Goes(r, "refused")
  BY <1>1, <1>2, RequestGoesOn DEF Before, Served, Chosen
<1>3. CASE ~Chat!Goes(r, "refused")
  <2>1. /\ resident # Chat!Cold /\ Chat!Accepts(Wants(r), config[resident])
        /\ \E pc \in {"lookup", "lease"} :
              proc' = [proc EXCEPT ![r].pc = pc, ![r].gen = resident]
    BY <1>3 DEF Chat!Route
  <2>2. PICK pc \in {"lookup", "lease"} : proc' = [proc EXCEPT ![r].pc = pc, ![r].gen = resident]
    BY <2>1
  <2>3. PICK x : x = [proc[r] EXCEPT !.pc = pc, !.gen = resident]
    OBVIOUS
  <2>4. resident \in Chat!Generations
    BY <2>1 DEF ChatInv, ChatType
  <2>5. /\ x \in ChatRequests /\ x.pc = pc /\ x.gen = resident /\ x.answer = proc[r].answer
        /\ x.age = proc[r].age
    BY <2>3, <2>4, ChatRequestFields DEF ChatRequests, Before
  <2>6. proc' = [proc EXCEPT ![r] = x]
    BY <2>2, <2>3 DEF ChatInv, ChatType
  <2>7. /\ proc[r].answer = Chat!NoAnswer /\ proc[r].age = 0 /\ 0 < TTL
    BY <1>1, ChatRequestFields DEF AnswerOf, Before, ChatAssumption
  <2>8. pc \in Before /\ pc \notin Served /\ pc \notin {"put", "answered", "engine"}
    BY DEF Before, Served
  <2>9. LeasesAreCounted'
    BY <1>1, <2>5, <2>6, <2>8, ElsewhereCounted DEF Served
  <2>10. /\ leased' \in [Chat!Generations -> Int] /\ status' \in [Chat!Generations -> BOOLEAN]
         /\ \A q \in Askers \ {r} : proc[q].pc = "engine" => status'[proc[q].gen]
    BY <1>1 DEF ChatInv, ChatType, Chat!BusyIsReported
  <2> QED
    BY <1>1, <2>1, <2>4, <2>5, <2>6, <2>7, <2>8, <2>9, <2>10, RequestMoves, ChatRequestFields
<1> QED
  BY <1>2, <1>3

\* The request is answered with an entry of the cache, which becomes the newest.
AnsweredWith(r, key, e) ==
    /\ ~Chat!Stale(e) /\ cache' = Append(Chat!Without(key), e)
    /\ proc' = [proc EXCEPT ![r].pc = "answered", ![r].answer = e.value, ![r].age = e.age]

\* A request is answered from the cache, or goes on to ask for a lease.
LEMMA LookupKeeps ==
  ASSUME ChatAssumption, ChatInv, NEW r \in Askers, Chat!Lookup(r)
  PROVE  ChatInv'
<1>1. proc[r].pc = "lookup" /\ UNCHANGED <<config, resident, leased, status, loads>>
  BY DEF Chat!Lookup
<1>2. PICK key : key = Chat!CacheKey(proc[r].gen, Wants(r).prompt)
  OBVIOUS
<1>3. \/ Chat!Goes(r, "lease") /\ UNCHANGED cache
      \/ Chat!Goes(r, "lease") /\ cache' = Chat!Without(key)
      \/ \E i \in Chat!Entry(key) : AnsweredWith(r, key, cache[i])
  <2>1. IF Chat!Entry(key) = {}
        THEN Chat!Goes(r, "lease") /\ UNCHANGED cache
        ELSE \E e \in {cache[i] : i \in Chat!Entry(key)} :
                \/ Chat!Goes(r, "lease") /\ cache' = Chat!Without(key)
                \/ AnsweredWith(r, key, e)
    BY <1>2 DEF Chat!Lookup, AnsweredWith
  <2> QED
    BY <2>1
<1>4. /\ status' \in [Chat!Generations -> BOOLEAN]
      /\ leased' \in [Chat!Generations -> Int]
      /\ \A q \in Askers \ {r} : proc[q].pc = "engine" => status'[proc[q].gen]
  BY <1>1 DEF ChatInv, ChatType, Chat!BusyIsReported
<1>5. CASE Chat!Goes(r, "lease") /\ UNCHANGED cache
  BY <1>1, <1>5, RequestGoesOn DEF Before, Served, Chosen
<1>6. CASE Chat!Goes(r, "lease") /\ cache' = Chat!Without(key)
  <2>1. /\ cache' \in Seq(Entries) /\ Len(cache') <= CacheSize
        /\ \A i \in 1..Len(cache') : cache'[i].value = cache'[i].key
    <3>1. Len(cache) <= CacheSize /\ Len(cache) \in Nat /\ CacheSize \in Nat
      BY ChatRequestFields DEF ChatAssumption, ChatInv, ChatType
    <3> QED
      BY <1>6, <3>1, WithoutKey
  <2>2. /\ "lease" \in Before /\ "lease" \notin Served /\ "lease" \in Chosen
        /\ "lookup" \in Before /\ "lookup" \notin Served /\ "lookup" \in Chosen
    BY DEF Before, Served, Chosen
  <2> QED
    BY <1>1, <1>4, <1>6, <2>1, <2>2, RequestGoes
<1>7. ASSUME NEW i \in Chat!Entry(key), AnsweredWith(r, key, cache[i])
      PROVE  ChatInv'
  <2>0. /\ ~Chat!Stale(cache[i]) /\ cache' = Append(Chat!Without(key), cache[i])
        /\ proc' = [proc EXCEPT ![r].pc = "answered", ![r].answer = cache[i].value,
                                ![r].age = cache[i].age]
    BY <1>7 DEF AnsweredWith
  <2>1. i \in 1..Len(cache) /\ cache[i].key = key /\ Chat!Entry(key) # {}
    BY <1>7 DEF Chat!Entry
  <2>2. PICK e : e = cache[i]
    OBVIOUS
  <2>3. /\ e \in Entries /\ e.value = key /\ e.key = key /\ e.value \in Answers /\ e.age \in Nat
        /\ e.age < TTL
    <3>1. cache \in Seq(Entries) /\ \A k \in 1..Len(cache) : cache[k].value = cache[k].key
      BY ChatRequestFields
    <3>2. e \in Entries /\ e.value = key /\ e.key = key
      BY <2>1, <2>2, <3>1
    <3>3. e.value \in Answers /\ e.age \in Nat
      BY <3>2 DEF Entries
    <3>4. e.age < TTL
      BY <2>0, <2>2, <3>3 DEF Chat!Stale, ChatAssumption
    <3> QED
      BY <3>2, <3>3, <3>4
  <2>4. PICK x : x = [proc[r] EXCEPT !.pc = "answered", !.answer = e.value, !.age = e.age]
    OBVIOUS
  <2>5. /\ x \in ChatRequests /\ x.pc = "answered" /\ x.gen = proc[r].gen /\ x.answer = e.value
        /\ x.age = e.age
    BY <2>3, <2>4, ChatRequestFields DEF ChatRequests
  <2>6. proc' = [proc EXCEPT ![r] = x]
    BY <2>0, <2>2, <2>4 DEF ChatInv, ChatType
  <2>7. "answered" \notin Before /\ "answered" \notin Served /\ "answered" \notin Chosen
        /\ "lookup" \notin Served
    BY DEF Before, Served, Chosen
  <2>8. LeasesAreCounted'
    BY <1>1, <2>5, <2>6, <2>7, ElsewhereCounted
  <2>9. PICK w : w = Chat!Without(key)
    OBVIOUS
  <2>10. /\ w \in Seq(Entries) /\ Len(w) \in Nat /\ Len(w) < Len(cache)
         /\ \A k \in 1..Len(w) : w[k].value = w[k].key
    BY <2>1, <2>9, WithoutKey
  <2>11. Len(cache) <= CacheSize /\ Len(cache) \in Nat /\ CacheSize \in Nat
    BY ChatRequestFields DEF ChatAssumption, ChatInv, ChatType
  <2>12. cache' = Append(w, e)
    BY <2>0, <2>2, <2>9
  <2>13. /\ cache' \in Seq(Entries) /\ Len(cache') <= CacheSize
         /\ \A k \in 1..Len(cache') : cache'[k].value = cache'[k].key
    BY <2>3, <2>10, <2>11, <2>12
  <2>14. e.value = Chat!Answer(proc[r].gen, Wants(r).prompt) /\ e.value # Chat!NoAnswer
    BY <1>2, <2>3 DEF Chat!CacheKey, Chat!Answer, Chat!NoAnswer
  <2> QED
    BY <1>1, <1>4, <2>3, <2>5, <2>6, <2>7, <2>8, <2>13, <2>14, RequestMoves
<1> QED
  BY <1>3, <1>5, <1>6, <1>7

\* The requests of a load are finitely many, and one of them is counted.
LEMMA UsersOfALoad ==
  ASSUME ChatAssumption, ChatInv, NEW r \in Askers, proc[r].pc \in Served
  PROVE  /\ resident \in Chat!Generations /\ proc[r].gen = resident
         /\ IsFiniteSet(Users(resident)) /\ r \in Users(resident)
         /\ leased[resident] = Cardinality(Users(resident))
         /\ Cardinality(Users(resident)) \in Nat \ {0}
<1>1. resident \in Chat!Generations /\ proc[r].gen = resident
  BY DEF ChatInv, ServedByCurrent, Chosen
<1>2. IsFiniteSet(Users(resident)) /\ r \in Users(resident)
  BY <1>1, FS_Subset DEF Users, ChatAssumption
<1>3. Cardinality(Users(resident)) \in Nat \ {0}
  BY <1>2, FS_CardinalityType, FS_EmptySet
<1> QED
  BY <1>1, <1>2, <1>3 DEF ChatInv, LeasesAreCounted

\* A request that asks for a lease of the resident load has it, and is counted.
LEMMA LeaseKeeps ==
  ASSUME ChatAssumption, ChatInv, NEW r \in Askers, Chat!Lease(r)
  PROVE  ChatInv'
<1>1. proc[r].pc = "lease" /\ UNCHANGED <<config, resident, status, cache, loads>>
  BY DEF Chat!Lease
<1>2. CASE resident # proc[r].gen
  <2>1. Chat!Goes(r, "failed") /\ UNCHANGED leased
    BY <1>2 DEF Chat!Lease
  <2> QED
    BY <1>1, <2>1, RequestGoesOn DEF Before, Served, Chosen
<1>3. CASE resident = proc[r].gen
  <2>1. Chat!Goes(r, "wait") /\ leased' = [leased EXCEPT ![resident] = @ + 1]
    BY <1>3 DEF Chat!Lease
  <2>2. PICK x : x = [proc[r] EXCEPT !.pc = "wait"]
    OBVIOUS
  <2>3. /\ x \in ChatRequests /\ x.pc = "wait" /\ x.gen = resident /\ x.answer = proc[r].answer
        /\ x.age = proc[r].age /\ proc' = [proc EXCEPT ![r] = x]
    BY <1>3, <2>1, <2>2, ChatRequestFields DEF ChatRequests, Served, Chat!Goes
  <2>4. /\ "wait" \in Served /\ "wait" \in Chosen /\ "wait" \in Before /\ "lease" \in Chosen
        /\ "lease" \notin Served /\ "lease" \in Before
    BY DEF Served, Chosen, Before
  <2>5. resident \in Chat!Generations /\ Chat!Accepts(Wants(r), config[resident])
    BY <1>1, <1>3, <2>4, ChatRequestFields
  <2>6. r \notin Users(resident) /\ IsFiniteSet(Users(resident))
    BY <1>1, <2>4, FS_Subset DEF Users, ChatAssumption
  <2>7. /\ Users(resident)' = Users(resident) \cup {r}
        /\ \A g \in Chat!Generations \ {resident} : Users(g)' = Users(g)
    BY <1>1, <2>3, <2>4 DEF Users, ChatInv, ChatType
  <2>8. Cardinality(Users(resident)') = Cardinality(Users(resident)) + 1
    BY <2>6, <2>7, FS_AddElement
  <2>9. \A g \in Chat!Generations : leased[g] \in Int /\ leased[g] = Cardinality(Users(g))
    BY DEF ChatInv, ChatType, LeasesAreCounted
  <2>10. LeasesAreCounted'
    <3>1. \A g \in Chat!Generations : leased'[g] = IF g = resident THEN leased[g] + 1 ELSE leased[g]
      BY <2>1 DEF ChatInv, ChatType
    <3>2. ASSUME NEW g \in Chat!Generations PROVE leased'[g] = Cardinality(Users(g)')
      BY <1>1, <2>5, <2>7, <2>8, <2>9, <3>1
    <3> QED
      BY <3>2 DEF LeasesAreCounted, Chat!Generations
  <2>11. /\ leased' \in [Chat!Generations -> Int] /\ status' \in [Chat!Generations -> BOOLEAN]
         /\ \A q \in Askers \ {r} : proc[q].pc = "engine" => status'[proc[q].gen]
    BY <1>1, <2>1, <2>5, <2>9 DEF ChatInv, ChatType, Chat!BusyIsReported
  <2>12. AnswerOf(r)
    BY ChatRequestFields
  <2> QED
    BY <1>1, <2>3, <2>4, <2>5, <2>10, <2>11, <2>12, RequestMoves, ChatRequestFields DEF AnswerOf
<1> QED
  BY <1>2, <1>3

\* A request with a lease gets a place, and the load says that it is at work.
LEMMA StartKeeps ==
  ASSUME ChatAssumption, ChatInv, NEW r \in Askers, Chat!Enter(r) \/ Chat!MarkStarted(r)
  PROVE  ChatInv'
<1>1. CASE Chat!Enter(r)
  <2>1. /\ proc[r].pc = "wait" /\ Chat!Goes(r, "start")
        /\ UNCHANGED <<config, resident, leased, status, cache, loads>>
    BY <1>1 DEF Chat!Enter
  <2> QED
    BY <2>1, RequestGoesOn DEF Before, Served, Chosen
<1>2. CASE Chat!MarkStarted(r)
  <2>1. /\ proc[r].pc = "start" /\ Chat!Goes(r, "engine")
        /\ status' = [status EXCEPT ![proc[r].gen] = TRUE]
        /\ UNCHANGED <<config, resident, leased, cache, loads>>
    BY <1>2 DEF Chat!MarkStarted
  <2>2. /\ "start" \in Served /\ "engine" \in Served /\ "start" \in Chosen /\ "engine" \in Chosen
        /\ "start" \in Before /\ "engine" \in Before
    BY DEF Served, Chosen, Before
  <2>3. proc[r].gen \in Chat!Generations
    BY <2>1, <2>2, ChatRequestFields
  <2>4. /\ status' \in [Chat!Generations -> BOOLEAN] /\ status'[proc[r].gen]
        /\ \A g \in Chat!Generations : status[g] => status'[g]
    BY <2>1, <2>3 DEF ChatInv, ChatType
  <2>5. \A q \in Askers \ {r} : proc[q].pc = "engine" => status'[proc[q].gen]
    <3>1. \A q \in Askers : proc[q].pc = "engine" => proc[q].gen \in Chat!Generations
      BY <2>2 DEF ChatInv, ServedByCurrent
    <3> QED
      BY <2>4, <3>1 DEF ChatInv, Chat!BusyIsReported
  <2> QED
    BY <2>1, <2>2, <2>4, <2>5, RequestGoes, ChatRequestFields
<1> QED
  BY <1>1, <1>2

\* The engine answers what it was asked, or fails.
LEMMA GenerateKeeps ==
  ASSUME ChatAssumption, ChatInv, NEW r \in Askers, Chat!Generate(r)
  PROVE  ChatInv'
<1>1. proc[r].pc = "engine" /\ UNCHANGED <<config, resident, leased, status, cache, loads>>
  BY DEF Chat!Generate
<1>2. CASE Chat!Goes(r, "idle")
  BY <1>1, <1>2, RequestGoesOn DEF Before, Served, Chosen
<1>3. CASE ~Chat!Goes(r, "idle")
  <2>1. PICK pc \in {"put", "idle"} :
           proc' = [proc EXCEPT ![r].pc = pc,
                                ![r].answer = Chat!Answer(proc[r].gen, Wants(r).prompt)]
    <3>1. proc' = [proc EXCEPT ![r].pc = IF Wants(r).greedy /\ ~Wants(r).stream
                                         THEN "put" ELSE "idle",
                               ![r].answer = Chat!Answer(proc[r].gen, Wants(r).prompt)]
      BY <1>3 DEF Chat!Generate
    <3>2. CASE Wants(r).greedy /\ ~Wants(r).stream
      BY <3>1, <3>2
    <3>3. CASE ~(Wants(r).greedy /\ ~Wants(r).stream)
      BY <3>1, <3>3
    <3> QED
      BY <3>2, <3>3
  <2>2. PICK a : a = Chat!Answer(proc[r].gen, Wants(r).prompt)
    OBVIOUS
  <2>3. PICK x : x = [proc[r] EXCEPT !.pc = pc, !.answer = a]
    OBVIOUS
  <2>4. /\ "engine" \in Served /\ "engine" \in Chosen /\ pc \in Served /\ pc \in Chosen
        /\ pc \notin Before /\ pc \notin {"answered", "engine"}
    BY DEF Served, Chosen, Before
  <2>5. /\ proc[r].gen \in Chat!Generations /\ proc[r].gen = resident
        /\ Chat!Accepts(Wants(r), config[proc[r].gen])
    BY <1>1, <2>4, ChatRequestFields
  <2>6. Wants(r).prompt \in Prompts
    BY DEF ChatAssumption, Chat!Demands
  <2>7. a \in Answers /\ a # Chat!NoAnswer
    BY <2>2, <2>5, <2>6 DEF Chat!Answer, Chat!NoAnswer, Answers
  <2>8. /\ x \in ChatRequests /\ x.pc = pc /\ x.gen = proc[r].gen /\ x.answer = a
        /\ x.age = proc[r].age
    BY <2>3, <2>4, <2>7, ChatRequestFields DEF ChatRequests
  <2>9. proc' = [proc EXCEPT ![r] = x]
    BY <2>1, <2>2, <2>3 DEF ChatInv, ChatType
  <2>10. LeasesAreCounted'
    BY <1>1, <2>4, <2>8, <2>9, ElsewhereCounted
  <2>11. /\ leased' \in [Chat!Generations -> Int] /\ status' \in [Chat!Generations -> BOOLEAN]
         /\ \A q \in Askers \ {r} : proc[q].pc = "engine" => status'[proc[q].gen]
    BY <1>1 DEF ChatInv, ChatType, Chat!BusyIsReported
  <2>12. x.age = 0 /\ 0 < TTL
    BY <1>1, <2>8, ChatRequestFields DEF AnswerOf, ChatAssumption
  <2> QED
    BY <1>1, <2>2, <2>4, <2>5, <2>7, <2>8, <2>9, <2>10, <2>11, <2>12, RequestMoves,
       ChatRequestFields
<1> QED
  BY <1>2, <1>3

\* An answer is put in the cache under its own key, in the place of the oldest.
LEMMA PutKeeps ==
  ASSUME ChatAssumption, ChatInv, NEW r \in Askers, Chat!Put(r)
  PROVE  ChatInv'
<1>1. /\ proc[r].pc = "put" /\ UNCHANGED <<config, resident, leased, status, loads>>
      /\ Chat!Goes(r, "idle")
  BY DEF Chat!Put
<1>2. PICK key : key = Chat!CacheKey(proc[r].gen, Wants(r).prompt)
  OBVIOUS
<1>3. PICK e : e = [key |-> key, value |-> proc[r].answer, age |-> 0]
  OBVIOUS
<1>4. PICK w : w = Chat!Without(key)
  OBVIOUS
<1>5. cache' = Chat!Stored(Append(w, e))
  BY <1>2, <1>3, <1>4 DEF Chat!Put
<1>6. "put" \in Served /\ "put" \in Chosen /\ "idle" \in Served /\ "idle" \in Chosen
      /\ "idle" \notin Before
  BY DEF Served, Chosen, Before
<1>7. proc[r].gen \in Chat!Generations /\ proc[r].answer = key /\ Wants(r).prompt \in Prompts
  BY <1>1, <1>2, <1>6, ChatRequestFields
  DEF AnswerOf, Chat!Answer, Chat!CacheKey, ChatAssumption, Chat!Demands
<1>8. e \in Entries /\ e.value = e.key
  BY <1>2, <1>3, <1>7 DEF Entries, Answers, Chat!CacheKey
<1>9. /\ w \in Seq(Entries) /\ Len(w) \in Nat /\ Len(w) <= Len(cache)
      /\ \A i \in 1..Len(w) : w[i].value = w[i].key
  BY <1>4, WithoutKey
<1>10. Len(cache) <= CacheSize /\ Len(cache) \in Nat /\ CacheSize \in Nat
  BY ChatRequestFields DEF ChatAssumption, ChatInv, ChatType
<1>11. PICK s : s = Append(w, e)
  OBVIOUS
<1>12. /\ s \in Seq(Entries) /\ Len(s) = Len(w) + 1
       /\ \A i \in 1..Len(s) : s[i].value = s[i].key
  BY <1>8, <1>9, <1>11
<1>13. /\ cache' \in Seq(Entries) /\ Len(cache') <= CacheSize
       /\ \A i \in 1..Len(cache') : cache'[i].value = cache'[i].key
  <2>1. CASE Len(s) <= CacheSize
    BY <1>5, <1>9, <1>10, <1>11, <1>12, <2>1 DEF Chat!Stored
  <2>2. CASE Len(s) > CacheSize
    <3>1. cache' = Tail(s)
      BY <1>5, <1>11, <2>2 DEF Chat!Stored
    <3>2. s # << >> /\ Len(Tail(s)) = Len(s) - 1 /\ Tail(s) \in Seq(Entries)
          /\ \A i \in 1..Len(Tail(s)) : Tail(s)[i] = s[i + 1] /\ i + 1 \in 1..Len(s)
      BY <1>9, <1>12
    <3> QED
      BY <1>9, <1>10, <1>12, <3>1, <3>2
  <2> QED
    BY <1>9, <1>10, <1>12, <2>1, <2>2
<1>14. /\ status' \in [Chat!Generations -> BOOLEAN]
       /\ \A q \in Askers \ {r} : proc[q].pc = "engine" => status'[proc[q].gen]
  BY <1>1 DEF ChatInv, ChatType, Chat!BusyIsReported
<1> QED
  BY <1>1, <1>6, <1>13, <1>14, RequestGoes

\* A request that has been served says that the load is idle only when nobody else works.
LEMMA MarkIdleKeeps ==
  ASSUME ChatAssumption, ChatInv, NEW r \in Askers, Chat!MarkIdle(r)
  PROVE  ChatInv'
<1>1. /\ proc[r].pc = "idle" /\ UNCHANGED <<config, resident, leased, cache, loads>>
      /\ Chat!Goes(r, "leave")
      /\ status' = [status EXCEPT ![proc[r].gen] = @ /\ Chat!Remaining(proc[r].gen) > 0]
  BY DEF Chat!MarkIdle
<1>2. /\ "idle" \in Served /\ "idle" \in Chosen /\ "leave" \in Served /\ "leave" \in Chosen
      /\ "leave" \notin Before /\ "engine" \in Served
  BY DEF Served, Chosen, Before
<1>3. /\ resident \in Chat!Generations /\ proc[r].gen = resident
      /\ IsFiniteSet(Users(resident)) /\ r \in Users(resident)
      /\ leased[resident] = Cardinality(Users(resident))
  BY <1>1, <1>2, UsersOfALoad
<1>4. status' \in [Chat!Generations -> BOOLEAN]
  BY <1>1, <1>3 DEF ChatInv, ChatType
<1>5. ASSUME NEW q \in Askers \ {r}, proc[q].pc = "engine" PROVE status'[proc[q].gen]
  <2>1. proc[q].gen = resident /\ q \in Users(resident) /\ status[resident]
    BY <1>2, <1>5 DEF ChatInv, ServedByCurrent, Users, Chat!BusyIsReported
  <2>2. Cardinality(Users(resident) \ {r}) = Cardinality(Users(resident)) - 1
    BY <1>3, FS_RemoveElement
  <2>3. IsFiniteSet(Users(resident) \ {r}) /\ q \in Users(resident) \ {r}
    BY <1>3, <2>1, FS_Subset
  <2>4. Cardinality(Users(resident) \ {r}) \in Nat \ {0}
    BY <2>3, FS_CardinalityType, FS_EmptySet
  <2>5. leased[resident] - 1 > 0 /\ leased[resident] \in Int
    BY <1>3, <2>2, <2>4 DEF ChatInv, ChatType
  <2>6. Chat!Remaining(resident) > 0
    BY <2>5 DEF Chat!Remaining
  <2> QED
    BY <1>1, <1>3, <2>1, <2>6 DEF ChatInv, ChatType
<1> QED
  BY <1>1, <1>2, <1>4, <1>5, RequestGoes, ChatRequestFields

\* A request gives its place and then its lease back, with its answer or without one.
LEMMA ReleaseKeepsChat ==
  ASSUME ChatAssumption, ChatInv, NEW r \in Askers, Chat!Leave(r) \/ Chat!Release(r)
  PROVE  ChatInv'
<1>1. CASE Chat!Leave(r)
  <2>1. /\ proc[r].pc = "leave" /\ Chat!Goes(r, "release")
        /\ UNCHANGED <<config, resident, leased, status, cache, loads>>
    BY <1>1 DEF Chat!Leave
  <2> QED
    BY <2>1, RequestGoesOn DEF Before, Served, Chosen
<1>2. CASE Chat!Release(r)
  <2>1. /\ proc[r].pc = "release" /\ UNCHANGED <<config, resident, status, cache, loads>>
        /\ leased' = [leased EXCEPT ![proc[r].gen] = @ - 1]
    BY <1>2 DEF Chat!Release
  <2>2. PICK pc \in {"failed", "answered"} :
           Chat!Goes(r, pc) /\ (pc = "failed" <=> proc[r].answer = Chat!NoAnswer)
    <3>1. CASE proc[r].answer = Chat!NoAnswer
      BY <1>2, <3>1 DEF Chat!Release
    <3>2. CASE proc[r].answer # Chat!NoAnswer
      BY <1>2, <3>2 DEF Chat!Release
    <3> QED
      BY <3>1, <3>2
  <2>3. /\ "release" \in Served /\ "release" \notin Before /\ pc \notin Served
        /\ pc \notin Before /\ pc \notin Chosen /\ pc \notin {"put", "engine"}
    BY DEF Served, Chosen, Before
  <2>4. PICK x : x = [proc[r] EXCEPT !.pc = pc]
    OBVIOUS
  <2>5. /\ x \in ChatRequests /\ x.pc = pc /\ x.gen = proc[r].gen /\ x.answer = proc[r].answer
        /\ x.age = proc[r].age /\ proc' = [proc EXCEPT ![r] = x]
    BY <2>2, <2>4, ChatRequestFields DEF ChatRequests, Chat!Goes
  <2>6. /\ resident \in Chat!Generations /\ proc[r].gen = resident
        /\ IsFiniteSet(Users(resident)) /\ r \in Users(resident)
    BY <2>1, <2>3, UsersOfALoad
  <2>7. /\ Users(resident)' = Users(resident) \ {r}
        /\ \A g \in Chat!Generations \ {resident} : Users(g)' = Users(g)
    BY <2>1, <2>3, <2>5, <2>6 DEF Users, ChatInv, ChatType
  <2>8. Cardinality(Users(resident)') = Cardinality(Users(resident)) - 1
    BY <2>6, <2>7, FS_RemoveElement
  <2>9. \A g \in Chat!Generations : leased[g] \in Int /\ leased[g] = Cardinality(Users(g))
    BY DEF ChatInv, ChatType, LeasesAreCounted
  <2>10. LeasesAreCounted'
    <3>1. \A g \in Chat!Generations : leased'[g] = IF g = resident THEN leased[g] - 1 ELSE leased[g]
      BY <2>1, <2>6 DEF ChatInv, ChatType
    <3>2. ASSUME NEW g \in Chat!Generations PROVE leased'[g] = Cardinality(Users(g)')
      BY <2>1, <2>6, <2>7, <2>8, <2>9, <3>1
    <3> QED
      BY <3>2 DEF LeasesAreCounted, Chat!Generations
  <2>11. /\ leased' \in [Chat!Generations -> Int] /\ status' \in [Chat!Generations -> BOOLEAN]
         /\ \A q \in Askers \ {r} : proc[q].pc = "engine" => status'[proc[q].gen]
    BY <2>1, <2>6, <2>9 DEF ChatInv, ChatType, Chat!BusyIsReported
  <2>12. AnswerOf(r)
    BY ChatRequestFields
  <2> QED
    BY <2>1, <2>2, <2>3, <2>5, <2>10, <2>11, <2>12, RequestMoves, ChatRequestFields DEF AnswerOf
<1> QED
  BY <1>1, <1>2

\* A load of the model takes the place of one that nobody uses.
LEMMA ReplaceKeepsChat ==
  ASSUME ChatAssumption, ChatInv, Chat!Replace
  PROVE  ChatInv'
<1>1. /\ UNCHANGED <<config, leased, status, proc, cache>>
      /\ resident # Chat!Cold => leased[resident] = 0
      /\ \/ loads < MaxLoads /\ loads' = loads + 1 /\ resident' = loads + 1
         \/ resident # Chat!Cold /\ resident' = Chat!Cold /\ UNCHANGED loads
  BY DEF Chat!Replace
<1>2. resident' \in {Chat!Cold} \cup Chat!Generations /\ loads' \in 0..MaxLoads
  BY <1>1 DEF ChatInv, ChatType, Chat!Generations, ChatAssumption
<1>3. ASSUME NEW r \in Askers, proc[r].pc \in Served PROVE FALSE
  BY <1>1, <1>3, UsersOfALoad DEF Chat!Generations, Chat!Cold
<1>4. ChatType'
  BY <1>1, <1>2 DEF ChatInv, ChatType
<1>5. LeasesAreCounted'
  BY <1>1 DEF ChatInv, LeasesAreCounted, Users
<1>6. ServedByCurrent'
  BY <1>1, <1>3 DEF ChatInv, ServedByCurrent, Chat!Accepts
<1>7. AnswersAreKept' /\ Chat!BusyIsReported'
  BY <1>1 DEF ChatInv, AnswersAreKept, AnswerOf, Chat!BusyIsReported, Chat!Answer
<1> QED
  BY <1>4, <1>5, <1>6, <1>7 DEF ChatInv

\* Every entry of the cache grows older.
LEMMA TickKeepsChat ==
  ASSUME ChatAssumption, ChatInv, Chat!Tick
  PROVE  ChatInv'
<1>1. /\ UNCHANGED <<config, resident, leased, status, proc, loads>>
      /\ cache' = [i \in 1..Len(cache) |-> [cache[i] EXCEPT !.age = @ + 1]]
  BY DEF Chat!Tick
<1>2. cache \in Seq(Entries) /\ Len(cache) \in Nat
  BY DEF ChatInv, ChatType
<1>3. ASSUME NEW x \in Entries
      PROVE  /\ [x EXCEPT !.age = @ + 1] \in Entries
             /\ [x EXCEPT !.age = @ + 1].key = x.key /\ [x EXCEPT !.age = @ + 1].value = x.value
  BY DEF Entries
<1>4. \A i \in 1..Len(cache) : cache[i] \in Entries
  BY <1>2
<1>5. cache' \in Seq(Entries) /\ Len(cache') = Len(cache)
  BY <1>1, <1>2, <1>3, <1>4
<1>6. \A i \in 1..Len(cache') : cache'[i].value = cache[i].value /\ cache'[i].key = cache[i].key
  BY <1>1, <1>2, <1>3, <1>4, <1>5
<1>7. ChatType'
  BY <1>1, <1>5 DEF ChatInv, ChatType
<1>8. LeasesAreCounted' /\ ServedByCurrent' /\ Chat!BusyIsReported'
  BY <1>1 DEF ChatInv, LeasesAreCounted, Users, ServedByCurrent, Chat!Accepts, Chat!BusyIsReported
<1>9. AnswersAreKept'
  BY <1>1, <1>5, <1>6 DEF ChatInv, AnswersAreKept, AnswerOf, Chat!Answer
<1> QED
  BY <1>7, <1>8, <1>9 DEF ChatInv

\* A request is answered by the very load of the model that it was resolved for, which
\* serves it with a configuration that can, and which says that it is busy as long as
\* it works for anyone (server.py, runtime.py).
THEOREM AnswersComeFromTheResident ==
  ASSUME ChatAssumption
  PROVE  ServedSpec => []AnsweredByTheResident
<1>1. ASSUME ChatInv, Chat!Next PROVE ChatInv'
  <2>1. ASSUME NEW r \in Askers,
               Chat!Arrive(r) \/ Chat!Route(r) \/ Chat!Lookup(r) \/ Chat!Lease(r)
               \/ Chat!Enter(r) \/ Chat!MarkStarted(r) \/ Chat!Generate(r) \/ Chat!Put(r)
               \/ Chat!MarkIdle(r) \/ Chat!Leave(r) \/ Chat!Release(r)
        PROVE  ChatInv'
    BY <1>1, <2>1, ArriveKeeps, RouteKeeps, LookupKeeps, LeaseKeeps, StartKeeps, GenerateKeeps,
       PutKeeps, MarkIdleKeeps, ReleaseKeepsChat
  <2> QED
    BY <1>1, <2>1, ReplaceKeepsChat, TickKeepsChat DEF Chat!Next
<1>2. ASSUME ChatInv, UNCHANGED Chat!vars PROVE ChatInv'
  <2>1. UNCHANGED <<config, resident, leased, status, proc, cache, loads>>
    BY <1>2 DEF Chat!vars
  <2>2. ChatType' /\ LeasesAreCounted' /\ ServedByCurrent'
    BY <1>2, <2>1 DEF ChatInv, ChatType, LeasesAreCounted, Users, ServedByCurrent, Chat!Accepts
  <2>3. AnswersAreKept' /\ Chat!BusyIsReported'
    BY <1>2, <2>1 DEF ChatInv, AnswersAreKept, AnswerOf, Chat!BusyIsReported, Chat!Answer
  <2> QED
    BY <2>2, <2>3 DEF ChatInv
<1>3. ChatInv /\ [Chat!Next]_(Chat!vars) => ChatInv'
  BY <1>1, <1>2
<1>4. ASSUME component = "chat" => ChatInv PROVE AnsweredByTheResident
  <2>1. component = "chat" => Chat!AnswersAreCurrent
    BY <1>4 DEF Chat!AnswersAreCurrent, ChatInv, AnswersAreKept, AnswerOf
  <2>2. component = "chat" => Chat!RuntimeCanServe
    BY <1>4 DEF Chat!RuntimeCanServe, ChatInv, ServedByCurrent, Chosen, Served, Chat!Accepts
  <2> QED
    BY <1>4, <2>1, <2>2 DEF AnsweredByTheResident, ChatInv
<1>5. ServedInit => (component = "chat" => ChatInv)
  BY ChatInit DEF ServedInit
<1>6. (component = "chat" => ChatInv) /\ [ServedNext]_servingVars
         => (component = "chat" => ChatInv)'
  BY <1>3, SameComponent
<1> QED
  BY <1>4, <1>5, <1>6, PTL DEF ServedSpec
=============================================================================
