---------------------- MODULE RequestExecution_proofs ----------------------
(***************************************************************************)
(* Proofs about RequestExecution, for any requests, runtimes and limits.   *)
(***************************************************************************)
EXTENDS RequestExecution, CollectionLemmas

-----------------------------------------------------------------------------
(* Values of the admission variables, and what an operation on them leaves  *)
(* to each request.                                                         *)

AdmissionType ==
  [at : [Request -> Places], retried : SUBSET Http, uses : [Request -> Runtime \cup {None}],
   gateLine : [Runtime -> Seq(Http)], gateSlots : [Runtime -> SUBSET Http],
   line : [Key -> Seq(Request)], order : Seq(Key), slots : SUBSET Request, jobs : Seq(Http)]

Of(w, k) == {r \in w.slots : KeyOf[r] = k}

\* Nobody holds a slot too many.
Counted(w) ==
  /\ Cardinality(w.slots) <= GlobalSlots
  /\ \A k \in Key : Cardinality(Of(w, k)) <= Cap[k]

\* A line of the governor is for the requests of its key.
Sorted(w) == \A k \in Key : \A r \in Members(w.line[k]) : KeyOf[r] = k

Good(w) == w \in AdmissionType /\ Counted(w) /\ Sorted(w)

InLine(w, r) == \E k \in Key : r \in Members(w.line[k])

\* From w to v nothing changed for q, unless it was granted a slot.
Untouched(w, v, q) ==
  /\ v.at[q] = w.at[q] /\ v.uses[q] = w.uses[q]
  /\ q \in v.retried <=> q \in w.retried
  /\ \A x \in Runtime : /\ q \in v.gateSlots[x] <=> q \in w.gateSlots[x]
                        /\ q \in Members(v.gateLine[x]) <=> q \in Members(w.gateLine[x])
  /\ \A k \in Key : q \in Members(v.line[k]) => q \in Members(w.line[k])
  /\ q \in w.slots => q \in v.slots
  /\ q \in v.slots => q \in w.slots \/ InLine(w, q)
  /\ q \in v.slots /\ InLine(v, q) => q \in w.slots /\ InLine(w, q)

\* v is what is left of w when only r did something.
Moves(w, v, r) == \A q \in Request \ {r} : Untouched(w, v, q)

\* Two moves of one request make a move of it.
LEMMA UntouchedOnwards ==
  ASSUME NEW u, NEW v, NEW w, NEW r, Moves(u, v, r), Moves(v, w, r)
  PROVE  Moves(u, w, r)
<1> SUFFICES ASSUME NEW q \in Request \ {r}
             PROVE  Untouched(u, w, q)
  BY DEF Moves
<1>1. Untouched(u, v, q) /\ Untouched(v, w, q)
  BY DEF Moves
<1>. QED
  BY <1>1 DEF Untouched, InLine

\* Sets of requests can be counted.
LEMMA RequestsAreFinite ==
  ASSUME NEW T \in SUBSET Request
  PROVE  IsFiniteSet(T) /\ Cardinality(T) \in Nat
BY ExecutionAssumption, FS_Subset, FS_CardinalityType

\* One more element makes a set larger by one at most.
LEMMA OneMore ==
  ASSUME NEW T \in SUBSET Request, NEW x
  PROVE  Cardinality(T \cup {x}) <= Cardinality(T) + 1
<1>1. IsFiniteSet(T) /\ Cardinality(T) \in Nat
  BY RequestsAreFinite
<1>2. Cardinality(T \cup {x}) = IF x \in T THEN Cardinality(T) ELSE Cardinality(T) + 1
  BY <1>1, FS_AddElement
<1>. QED
  BY <1>1, <1>2

\* Who is away from the governor frees what he had.
LEMMA FewerSlots ==
  ASSUME NEW w, NEW v, Good(w), v \in AdmissionType, v.slots \subseteq w.slots,
         \A k \in Key : Members(v.line[k]) \subseteq Members(w.line[k])
  PROVE  Good(v)
<1>1. w.slots \in SUBSET Request /\ v.slots \in SUBSET Request
  BY DEF Good, AdmissionType
<1>2. Cardinality(v.slots) <= Cardinality(w.slots)
  BY <1>1, RequestsAreFinite, FS_Subset
<1>3. ASSUME NEW k \in Key
      PROVE  Cardinality(Of(v, k)) <= Cap[k]
  <2>1. Of(w, k) \in SUBSET Request /\ Of(v, k) \in SUBSET Of(w, k) /\ Of(v, k) \in SUBSET Request
    BY <1>1 DEF Of
  <2>2. Cardinality(Of(v, k)) <= Cardinality(Of(w, k))
    BY <2>1, RequestsAreFinite, FS_Subset
  <2>3. Cardinality(Of(w, k)) <= Cap[k] /\ Cap[k] \in Nat
    BY ExecutionAssumption DEF Good, Counted
  <2>4. Cardinality(Of(w, k)) \in Nat /\ Cardinality(Of(v, k)) \in Nat
    BY <2>1, RequestsAreFinite
  <2>. QED
    BY <2>2, <2>3, <2>4
<1>4. Cardinality(w.slots) <= GlobalSlots /\ GlobalSlots \in Nat
  BY ExecutionAssumption DEF Good, Counted
<1>5. Cardinality(w.slots) \in Nat /\ Cardinality(v.slots) \in Nat
  BY <1>1, RequestsAreFinite
<1>6. Sorted(v)
  BY DEF Good, Sorted
<1>. QED
  BY <1>2, <1>3, <1>4, <1>5, <1>6 DEF Good, Counted

\* A position of a sequence.
LEMMA LeastPosition ==
  ASSUME NEW N \in Nat, NEW T \in SUBSET (1..N), T # {}
  PROVE  Min(T) \in T
<1>1. \E m \in T : \A n \in T : m <= n
  BY LeastNatural
<1>. QED
  BY <1>1 DEF Min

\* What _admit_available_locked does: nothing but for the order of the turns, or one
\* waiter of a line gets a slot.
LEMMA AdmitSound ==
  ASSUME NEW w, Good(w)
  PROVE  /\ Good(Granted(w))
         /\ \A q \in Request : Untouched(w, Granted(w), q)
         /\ Granted(w).at = w.at /\ Granted(w).uses = w.uses
         /\ Granted(w).retried = w.retried /\ Granted(w).gateLine = w.gateLine
         /\ Granted(w).gateSlots = w.gateSlots
<1> DEFINE queued == {k \in Key : Live(w.line[k]) # {}}
           able == {i \in DOMAIN w.order : w.order[i] \in queued /\ SlotFor(w, w.order[i])}
           i == Min(able)
           k == w.order[i]
           first == w.line[k][Min(Live(w.line[k]))]
           others == Without(w.line[k], first)
           turns == SubSeq(w.order, i + 1, Len(w.order))
                    \o Only(SubSeq(w.order, 1, i - 1), queued)
                    \o (IF others = << >> THEN << >> ELSE <<k>>)
           g == Granted(w)
<1>1. g = IF Cardinality(w.slots) >= GlobalSlots THEN w
          ELSE IF able = {} THEN [w EXCEPT !.order = Only(@, queued)]
          ELSE [w EXCEPT !.slots = @ \cup {first}, !.line[k] = others, !.order = turns]
  BY DEF Granted, AdmitAvailable
<1>2. /\ w \in AdmissionType /\ w.order \in Seq(Key) /\ w.line \in [Key -> Seq(Request)]
      /\ w.slots \in SUBSET Request
  BY DEF Good, AdmissionType
<1>3. CASE Cardinality(w.slots) >= GlobalSlots
  BY <1>1, <1>3 DEF Untouched
<1>4. CASE ~(Cardinality(w.slots) >= GlobalSlots) /\ able = {}
  <2>1. g = [w EXCEPT !.order = Only(w.order, queued)]
    BY <1>1, <1>4
  <2>2. Only(w.order, queued) \in Seq(Key)
    BY <1>2, OnlyType
  <2> HIDE DEF queued, g
  <2>3. /\ g \in AdmissionType
        /\ g.at = w.at /\ g.uses = w.uses /\ g.retried = w.retried
        /\ g.gateLine = w.gateLine /\ g.gateSlots = w.gateSlots
        /\ g.line = w.line /\ g.slots = w.slots
    BY <1>2, <2>1, <2>2 DEF AdmissionType
  <2>4. Good(g)
    BY <2>3, FewerSlots
  <2>5. \A q \in Request : Untouched(w, g, q)
    BY <2>3 DEF Untouched, InLine
  <2>. QED
    BY <2>3, <2>4, <2>5 DEF g
<1>5. CASE ~(Cardinality(w.slots) >= GlobalSlots) /\ able # {}
  <2>1. g = [w EXCEPT !.slots = @ \cup {first}, !.line[k] = others, !.order = turns]
    BY <1>1, <1>5
  <2>2. i \in 1..Len(w.order) /\ k \in queued /\ SlotFor(w, k)
    <3>1. able \in SUBSET (1..Len(w.order)) /\ Len(w.order) \in Nat
      BY <1>2
    <3>2. i \in able
      <4> HIDE DEF able
      <4>. QED
        BY <1>5, <3>1, LeastPosition
    <3>. QED
      BY <3>1, <3>2
  <2> HIDE DEF i
  <2>3. k \in Key /\ Live(w.line[k]) # {} /\ w.line[k] \in Seq(Request)
    BY <1>2, <2>2
  <2>4. first \in Members(w.line[k]) /\ first \in Request
    <3>1. Live(w.line[k]) \in SUBSET (1..Len(w.line[k])) /\ Len(w.line[k]) \in Nat
      BY <2>3 DEF Live
    <3>2. Min(Live(w.line[k])) \in 1..Len(w.line[k])
      BY <2>3, <3>1, LeastPosition
    <3> HIDE DEF k
    <3>. QED
      BY <2>3, <3>2 DEF Members
  <2>5. turns \in Seq(Key)
    <3>1. SubSeq(w.order, i + 1, Len(w.order)) \in Seq(Key)
      BY <1>2, <2>2
    <3>2. SubSeq(w.order, 1, i - 1) \in Seq(Key)
      BY <1>2, <2>2
    <3>3. Only(SubSeq(w.order, 1, i - 1), queued) \in Seq(Key)
      BY <3>2, OnlyType
    <3>4. (IF others = << >> THEN << >> ELSE <<k>>) \in Seq(Key)
      BY <2>3
    <3> HIDE DEF others, k, queued
    <3>. QED
      BY <3>1, <3>3, <3>4
  <2>6. others \in Seq(Request) /\ Members(others) = Members(w.line[k]) \ {first}
    <3>1. /\ Members(w.line[k]) \in SUBSET Request
          /\ others \in Seq(Request)
          /\ Members(others) = Members(w.line[k]) \cap (Request \ {first})
      BY <2>3, MembersOfOnly DEF Without
    <3>. QED
      BY <3>1
  <2> HIDE DEF turns, others, first, k, g
  <2>7. /\ g \in AdmissionType
        /\ g.at = w.at /\ g.uses = w.uses /\ g.retried = w.retried
        /\ g.gateLine = w.gateLine /\ g.gateSlots = w.gateSlots
        /\ g.line = [w.line EXCEPT ![k] = others] /\ g.slots = w.slots \cup {first}
    <3>1. g = [w EXCEPT !.slots = w.slots \cup {first},
                        !.line = [w.line EXCEPT ![k] = others], !.order = turns]
      BY <2>1
    <3>2. [w.line EXCEPT ![k] = others] \in [Key -> Seq(Request)]
      BY <1>2, <2>3, <2>6
    <3>3. w.slots \cup {first} \in SUBSET Request
      BY <1>2, <2>4
    <3>. QED
      BY <1>2, <2>5, <3>1, <3>2, <3>3 DEF AdmissionType
  <2>8. Counted(g)
    <3>1. IsFiniteSet(w.slots) /\ Cardinality(w.slots) \in Nat /\ GlobalSlots \in Nat
      BY <1>2, RequestsAreFinite, ExecutionAssumption
    <3>2. Cardinality(g.slots) <= Cardinality(w.slots) + 1
      BY <1>2, <2>7, OneMore
    <3>3. Cardinality(w.slots) < GlobalSlots
      BY <2>2 DEF SlotFor
    <3>4. Cardinality(g.slots) <= GlobalSlots
      <4>1. Cardinality(g.slots) \in Nat
        BY <2>7, RequestsAreFinite DEF AdmissionType
      <4>. QED
        BY <3>1, <3>2, <3>3, <4>1
    <3>5. ASSUME NEW l \in Key
          PROVE  Cardinality(Of(g, l)) <= Cap[l]
      <4>1. Of(w, l) \in SUBSET Request /\ Of(g, l) \in SUBSET Request
        BY <1>2, <2>7 DEF Of, AdmissionType
      <4>2. /\ IsFiniteSet(Of(w, l)) /\ Cardinality(Of(w, l)) \in Nat
            /\ Cardinality(Of(g, l)) \in Nat /\ Cap[l] \in Nat
        BY <4>1, RequestsAreFinite, ExecutionAssumption
      <4>3. Cardinality(Of(w, l)) <= Cap[l]
        BY DEF Good, Counted
      <4>4. CASE KeyOf[first] = l /\ l = k
        <5>1. Of(g, l) = Of(w, l) \cup {first}
          BY <2>7, <4>4 DEF Of
        <5>2. Cardinality(Of(g, l)) <= Cardinality(Of(w, l)) + 1
          BY <4>1, <5>1, OneMore
        <5>3. Cardinality(Of(w, l)) < Cap[l]
          BY <2>2, <4>4 DEF SlotFor, Of
        <5>. QED
          BY <4>2, <5>2, <5>3
      <4>5. CASE KeyOf[first] # l
        <5>1. Of(g, l) = Of(w, l)
          BY <2>7, <4>5 DEF Of
        <5>. QED
          BY <4>3, <5>1
      <4>6. KeyOf[first] = k
        BY <2>3, <2>4 DEF Good, Sorted
      <4>. QED
        BY <4>4, <4>5, <4>6
    <3>. QED
      BY <3>4, <3>5 DEF Counted
  <2>9. ASSUME NEW q \in Request
        PROVE  Untouched(w, g, q)
    <3>1. \A l \in Key : Members(g.line[l]) = IF l = k THEN Members(w.line[k]) \ {first}
                                              ELSE Members(w.line[l])
      BY <1>2, <2>3, <2>6, <2>7
    <3>2. q \in g.slots => q \in w.slots \/ InLine(w, q)
      BY <2>3, <2>4, <2>7 DEF InLine
    <3>3. ASSUME q \in g.slots, InLine(g, q)
          PROVE  q \in w.slots /\ InLine(w, q)
      <4>1. PICK l \in Key : q \in Members(g.line[l])
        BY <3>3 DEF InLine
      <4>2. q \in Members(w.line[l]) /\ (l = k => q # first)
        BY <3>1, <4>1
      <4>3. KeyOf[first] = k /\ KeyOf[q] = l
        BY <2>3, <2>4, <4>2 DEF Good, Sorted
      <4>. QED
        BY <2>7, <3>3, <4>2, <4>3 DEF InLine
    <3>. QED
      BY <2>7, <3>1, <3>2, <3>3 DEF Untouched
  <2>10. Sorted(g)
    <3>1. \A l \in Key : Members(g.line[l]) \subseteq Members(w.line[l])
      BY <1>2, <2>3, <2>6, <2>7
    <3>. QED
      BY <3>1 DEF Good, Sorted
  <2>. QED
    BY <2>7, <2>8, <2>9, <2>10 DEF Good, g
<1>. QED
  BY <1>3, <1>4, <1>5

-----------------------------------------------------------------------------
(* What the operations of a request r give, and that they leave the others  *)
(* alone.                                                                   *)

\* Places behind the gate.
Inside == {"governor", "refused", "admitted", "route", "body", "leased", "executing",
           "responded", "answered", "lost"}

\* r is at no gate but that of its attempt, and has asked the governor only for one.
Own(w, r) ==
  /\ \A x \in Runtime : r \in w.gateSlots[x] \/ r \in Members(w.gateLine[x]) => x = w.uses[r]
  /\ InLine(w, r) => w.uses[r] # None /\ r \notin w.slots
  /\ r \in w.slots => w.uses[r] # None

\* r has nothing.
Idle(w, r) ==
  /\ \A x \in Runtime : r \notin w.gateSlots[x] /\ r \notin Members(w.gateLine[x])
  /\ ~InLine(w, r)
  /\ r \notin w.slots

\* What r has belongs to the place where it is.
Coherent(w, r) ==
  /\ Own(w, r)
  /\ \A x \in Runtime : /\ r \in w.gateSlots[x] => w.at[r] \in Inside
                        /\ r \in Members(w.gateLine[x]) => w.at[r] = "gate"
  /\ InLine(w, r) => w.at[r] = "governor"
  /\ r \in w.slots => w.at[r] \in Inside

\* Putting a request at another place moves nobody else.
LEMMA PutSound ==
  ASSUME NEW w, Good(w), NEW r \in Request, NEW p \in Places
  PROVE  /\ Good(Put(w, r, p)) /\ Moves(w, Put(w, r, p), r)
         /\ Put(w, r, p).at = [w.at EXCEPT ![r] = p]
         /\ Put(w, r, p).uses = w.uses /\ Put(w, r, p).retried = w.retried
         /\ Put(w, r, p).gateLine = w.gateLine /\ Put(w, r, p).gateSlots = w.gateSlots
         /\ Put(w, r, p).line = w.line /\ Put(w, r, p).slots = w.slots
<1> DEFINE v == Put(w, r, p)
<1>1. v = [w EXCEPT !.at = [w.at EXCEPT ![r] = p]]
  BY DEF Put
<1>2. w \in AdmissionType /\ [w.at EXCEPT ![r] = p] \in [Request -> Places]
  BY DEF Good, AdmissionType
<1> HIDE DEF v
<1>3. /\ v \in AdmissionType
      /\ v.at = [w.at EXCEPT ![r] = p]
      /\ v.uses = w.uses /\ v.retried = w.retried
      /\ v.gateLine = w.gateLine /\ v.gateSlots = w.gateSlots
      /\ v.line = w.line /\ v.slots = w.slots
  BY <1>1, <1>2 DEF AdmissionType
<1>4. Good(v)
  BY <1>3, FewerSlots
<1>5. Moves(w, v, r)
  BY <1>2, <1>3 DEF Moves, Untouched, InLine, AdmissionType
<1>. QED
  BY <1>3, <1>4, <1>5 DEF v

\* What is left of a line without one request.
LEMMA WithoutSound ==
  ASSUME NEW X \in SUBSET Request, NEW s \in Seq(X), NEW r
  PROVE  Without(s, r) \in Seq(X) /\ Members(Without(s, r)) = Members(s) \ {r}
<1>1. /\ Members(s) \in SUBSET X
      /\ Without(s, r) \in Seq(X)
      /\ Members(Without(s, r)) = Members(s) \cap (Request \ {r})
  BY MembersOfOnly DEF Without
<1>. QED
  BY <1>1

\* A request that leaves its gate's line or slot moves nobody else, but whom it lets in.
LEMMA LeaveGateSound ==
  ASSUME NEW w, Good(w), NEW r \in Request, w.uses[r] \in Runtime
  PROVE  /\ Good(LeaveGate(w, r)) /\ Moves(w, LeaveGate(w, r), r)
         /\ LeaveGate(w, r).at = w.at /\ LeaveGate(w, r).uses = w.uses
         /\ LeaveGate(w, r).retried = w.retried
         /\ LeaveGate(w, r).line = w.line /\ LeaveGate(w, r).slots = w.slots
         /\ Own(w, r) => \A x \in Runtime : /\ r \notin LeaveGate(w, r).gateSlots[x]
                                           /\ r \notin Members(LeaveGate(w, r).gateLine[x])
<1> DEFINE v == LeaveGate(w, r)
           x == w.uses[r]
           gl == [w.gateLine EXCEPT ![x] = Without(w.gateLine[x], r)]
           gs == [w.gateSlots EXCEPT ![x] = w.gateSlots[x] \ {r}]
<1>1. v = [w EXCEPT !.gateSlots = gs, !.gateLine = gl]
  BY DEF LeaveGate
<1>2. /\ w \in AdmissionType /\ w.gateLine \in [Runtime -> Seq(Http)]
      /\ w.gateSlots \in [Runtime -> SUBSET Http]
  BY DEF Good, AdmissionType
<1>3. /\ Without(w.gateLine[x], r) \in Seq(Http)
      /\ Members(Without(w.gateLine[x], r)) = Members(w.gateLine[x]) \ {r}
  BY <1>2, WithoutSound DEF Request
<1>4. gl \in [Runtime -> Seq(Http)] /\ gs \in [Runtime -> SUBSET Http]
  BY <1>2, <1>3
<1>5. \A y \in Runtime :
        /\ gs[y] = IF y = x THEN w.gateSlots[y] \ {r} ELSE w.gateSlots[y]
        /\ Members(gl[y]) = IF y = x THEN Members(w.gateLine[y]) \ {r} ELSE Members(w.gateLine[y])
  BY <1>2, <1>3
<1> HIDE DEF v, gl, gs
<1>6. /\ v \in AdmissionType
      /\ v.at = w.at /\ v.uses = w.uses /\ v.retried = w.retried
      /\ v.gateLine = gl /\ v.gateSlots = gs
      /\ v.line = w.line /\ v.slots = w.slots
  BY <1>1, <1>2, <1>4 DEF AdmissionType
<1>7. Good(v)
  BY <1>6, FewerSlots
<1>8. Moves(w, v, r)
  BY <1>5, <1>6 DEF Moves, Untouched, InLine
<1>9. Own(w, r) => \A y \in Runtime : r \notin v.gateSlots[y] /\ r \notin Members(v.gateLine[y])
  BY <1>5, <1>6 DEF Own, InLine
<1>. QED
  BY <1>6, <1>7, <1>8, <1>9 DEF v

\* A request that leaves the governor's line or slot moves nobody else, but whom it lets in.
LEMMA LeaveGovernorSound ==
  ASSUME NEW w, Good(w), NEW r \in Request
  PROVE  /\ Good(LeaveGovernor(w, r)) /\ Moves(w, LeaveGovernor(w, r), r)
         /\ LeaveGovernor(w, r).at = w.at /\ LeaveGovernor(w, r).uses = w.uses
         /\ LeaveGovernor(w, r).retried = w.retried
         /\ LeaveGovernor(w, r).gateLine = w.gateLine
         /\ LeaveGovernor(w, r).gateSlots = w.gateSlots
         /\ r \notin LeaveGovernor(w, r).slots
         /\ ~InLine(LeaveGovernor(w, r), r)
<1> DEFINE k == KeyOf[r]
           ln == [w.line EXCEPT ![k] = Without(w.line[k], r)]
           u == [w EXCEPT !.slots = w.slots \ {r}, !.line = ln]
           v == LeaveGovernor(w, r)
<1>1. v = Granted(u)
  BY DEF LeaveGovernor
<1>2. /\ w \in AdmissionType /\ w.line \in [Key -> Seq(Request)] /\ k \in Key
      /\ w.slots \in SUBSET Request
  BY ExecutionAssumption DEF Good, AdmissionType
<1>3. /\ Without(w.line[k], r) \in Seq(Request)
      /\ Members(Without(w.line[k], r)) = Members(w.line[k]) \ {r}
  BY <1>2, WithoutSound
<1>4. ln \in [Key -> Seq(Request)]
  BY <1>2, <1>3
<1>5. \A l \in Key : Members(ln[l]) = IF l = k THEN Members(w.line[l]) \ {r} ELSE Members(w.line[l])
  BY <1>2, <1>3
<1> HIDE DEF ln
<1>6. /\ u \in AdmissionType
      /\ u.at = w.at /\ u.uses = w.uses /\ u.retried = w.retried
      /\ u.gateLine = w.gateLine /\ u.gateSlots = w.gateSlots
      /\ u.line = ln /\ u.slots = w.slots \ {r}
  BY <1>2, <1>4 DEF AdmissionType
<1> HIDE DEF u, v
<1>7. Good(u)
  <2>1. \A l \in Key : Members(u.line[l]) \subseteq Members(w.line[l])
    BY <1>5, <1>6
  <2>2. u.slots \subseteq w.slots
    BY <1>6
  <2>. QED
    BY <1>6, <2>1, <2>2, FewerSlots
<1>8. Moves(w, u, r)
  BY <1>5, <1>6 DEF Moves, Untouched, InLine
<1>9. /\ Good(v) /\ \A q \in Request : Untouched(u, v, q)
      /\ v.at = u.at /\ v.uses = u.uses /\ v.retried = u.retried
      /\ v.gateLine = u.gateLine /\ v.gateSlots = u.gateSlots
  BY <1>1, <1>7, AdmitSound
<1>10. ~InLine(u, r)
  BY <1>5, <1>6 DEF Good, Sorted, InLine
<1>11. r \notin v.slots /\ ~InLine(v, r)
  <2>1. Untouched(u, v, r)
    BY <1>9
  <2>2. r \notin u.slots
    BY <1>6
  <2>. QED
    BY <1>10, <2>1, <2>2 DEF Untouched, InLine
<1>12. Moves(w, v, r)
  <2>1. Moves(u, v, r)
    BY <1>9 DEF Moves
  <2>. QED
    BY <1>8, <2>1, UntouchedOnwards
<1>. QED
  BY <1>6, <1>9, <1>11, <1>12 DEF v

\* _release_admission leaves r with nothing.
LEMMA ReleaseSound ==
  ASSUME NEW w, Good(w), NEW r \in Request, Own(w, r)
  PROVE  /\ Good(Release(w, r)) /\ Moves(w, Release(w, r), r)
         /\ Release(w, r).at = w.at /\ Release(w, r).uses = w.uses
         /\ Release(w, r).retried = w.retried
         /\ Idle(Release(w, r), r)
<1>1. /\ w.uses[r] \in Runtime \cup {None} /\ None \notin Runtime
      /\ w.gateSlots \in [Runtime -> SUBSET Http] /\ w.gateLine \in [Runtime -> Seq(Http)]
  BY ExecutionAssumption DEF Good, AdmissionType
<1>2. CASE w.uses[r] = None
  <2>1. Release(w, r) = w
    BY <1>2 DEF Release
  <2>2. Idle(w, r)
    BY <1>1, <1>2 DEF Own, Idle, InLine
  <2>3. Moves(w, w, r)
    BY DEF Moves, Untouched, InLine
  <2>. QED
    BY <2>1, <2>2, <2>3
<1>3. CASE w.uses[r] # None
  <2> DEFINE u == IF r \in Http THEN LeaveGate(w, r) ELSE w
             v == LeaveGovernor(u, r)
  <2>1. Release(w, r) = v
    BY <1>3 DEF Release
  <2>2. /\ Good(u) /\ Moves(w, u, r)
        /\ u.at = w.at /\ u.uses = w.uses /\ u.retried = w.retried
        /\ \A x \in Runtime : r \notin u.gateSlots[x] /\ r \notin Members(u.gateLine[x])
    <3>1. CASE r \in Http
      <4>1. u = LeaveGate(w, r)
        BY <3>1
      <4> HIDE DEF u
      <4>. QED
        BY <1>1, <1>3, <4>1, LeaveGateSound
    <3>2. CASE r \notin Http
      <4>1. u = w /\ Moves(w, w, r)
        BY <3>2 DEF Moves, Untouched, InLine
      <4>2. \A x \in Runtime : Members(w.gateLine[x]) \in SUBSET Http
        BY <1>1, MembersOfOnly
      <4> HIDE DEF u
      <4>. QED
        BY <1>1, <3>2, <4>1, <4>2
    <3>. QED
      BY <3>1, <3>2
  <2> HIDE DEF u
  <2>3. /\ Good(v) /\ Moves(u, v, r)
        /\ v.at = u.at /\ v.uses = u.uses /\ v.retried = u.retried
        /\ v.gateLine = u.gateLine /\ v.gateSlots = u.gateSlots
        /\ r \notin v.slots /\ ~InLine(v, r)
    BY <2>2, LeaveGovernorSound
  <2> HIDE DEF v
  <2>4. Moves(w, v, r)
    BY <2>2, <2>3, UntouchedOnwards
  <2>. QED
    BY <2>1, <2>2, <2>3, <2>4 DEF Idle, InLine
<1>. QED
  BY <1>2, <1>3

\* A request that leaves both keeps neither.
LEMMA LeavesSound ==
  ASSUME NEW w, Good(w), NEW r \in Request, Own(w, r), NEW p \in Places
  PROVE  /\ Good(Leaves(w, r, p)) /\ Moves(w, Leaves(w, r, p), r)
         /\ Leaves(w, r, p).at[r] = p
         /\ Leaves(w, r, p).uses = w.uses /\ Leaves(w, r, p).retried = w.retried
         /\ Idle(Leaves(w, r, p), r) /\ Coherent(Leaves(w, r, p), r)
<1> DEFINE u == Release(w, r)
           v == Put(u, r, p)
<1>1. Leaves(w, r, p) = v
  BY DEF Leaves
<1>2. /\ Good(u) /\ Moves(w, u, r) /\ Idle(u, r)
      /\ u.at = w.at /\ u.uses = w.uses /\ u.retried = w.retried
  BY ReleaseSound
<1> HIDE DEF u
<1>3. /\ Good(v) /\ Moves(u, v, r)
      /\ v.at = [u.at EXCEPT ![r] = p] /\ v.uses = u.uses /\ v.retried = u.retried
      /\ v.gateLine = u.gateLine /\ v.gateSlots = u.gateSlots
      /\ v.line = u.line /\ v.slots = u.slots
  BY <1>2, PutSound
<1> HIDE DEF v
<1>4. Moves(w, v, r)
  BY <1>2, <1>3, UntouchedOnwards
<1>5. Idle(v, r)
  BY <1>2, <1>3 DEF Idle, InLine
<1>6. Coherent(v, r)
  BY <1>5 DEF Idle, Coherent, Own, InLine
<1>7. v.at[r] = p
  BY <1>2, <1>3 DEF Good, AdmissionType
<1>. QED
  BY <1>1, <1>2, <1>3, <1>4, <1>5, <1>6, <1>7

\* A request that joins a line of the governor waits there, or has its slot at once.
LEMMA SubmittedSound ==
  ASSUME NEW w, Good(w), NEW r \in Request, Own(w, r), w.uses[r] \in Runtime,
         r \notin w.slots, \A x \in Runtime : r \notin Members(w.gateLine[x])
  PROVE  /\ Good(Submitted(w, r)) /\ Moves(w, Submitted(w, r), r)
         /\ Submitted(w, r).at[r] = "governor"
         /\ Submitted(w, r).uses = w.uses /\ Submitted(w, r).retried = w.retried
         /\ Coherent(Submitted(w, r), r)
<1> DEFINE k == KeyOf[r]
           p == Put(w, r, "governor")
           ln == [w.line EXCEPT ![k] = Append(w.line[k], r)]
           od == IF \E i \in DOMAIN w.order : w.order[i] = k THEN w.order ELSE Append(w.order, k)
           u == [p EXCEPT !.line = ln, !.order = od]
           v == Submitted(w, r)
<1>0. "governor" \in Places
  BY DEF Places
<1>1. p \in AdmissionType /\ p.line = w.line /\ p.order = w.order
  <2>1. Good(p) /\ p.line = w.line
    BY <1>0, PutSound
  <2>2. p.order = w.order
    BY DEF Put, Good, AdmissionType
  <2>. QED
    BY <2>1, <2>2 DEF Good
<1>2. v = Granted(u)
  <2>1. u = [p EXCEPT !.line[k] = Append(@, r),
                      !.order = IF \E i \in DOMAIN w.order : w.order[i] = k THEN @ ELSE Append(@, k)]
    BY <1>1
  <2>. QED
    BY <2>1 DEF Submitted
<1>3. /\ w.line \in [Key -> Seq(Request)] /\ k \in Key /\ w.order \in Seq(Key)
      /\ None \notin Runtime
  BY ExecutionAssumption DEF Good, AdmissionType
<1>4. /\ Append(w.line[k], r) \in Seq(Request)
      /\ Members(Append(w.line[k], r)) = Members(w.line[k]) \cup {r}
  BY <1>3, MembersOfAppend
<1>5. ln \in [Key -> Seq(Request)] /\ od \in Seq(Key)
  BY <1>3, <1>4
<1>6. \A l \in Key : Members(ln[l]) = IF l = k THEN Members(w.line[l]) \cup {r} ELSE Members(w.line[l])
  BY <1>3, <1>4
<1>7. /\ p.at = [w.at EXCEPT ![r] = "governor"]
      /\ p.uses = w.uses /\ p.retried = w.retried
      /\ p.gateLine = w.gateLine /\ p.gateSlots = w.gateSlots /\ p.slots = w.slots
  BY <1>0, PutSound
<1> HIDE DEF ln, od, p
<1>8. /\ u \in AdmissionType
      /\ u.at = [w.at EXCEPT ![r] = "governor"]
      /\ u.uses = w.uses /\ u.retried = w.retried
      /\ u.gateLine = w.gateLine /\ u.gateSlots = w.gateSlots
      /\ u.line = ln /\ u.slots = w.slots
  BY <1>1, <1>5, <1>7 DEF AdmissionType
<1> HIDE DEF u, v
<1>9. Good(u)
  <2>1. Counted(u)
    BY <1>8 DEF Good, Counted, Of
  <2>2. Sorted(u)
    <3>1. ASSUME NEW l \in Key, NEW q \in Members(ln[l])
          PROVE  KeyOf[q] = l
      <4>1. q \in Members(w.line[l]) \/ (q = r /\ l = k)
        BY <1>6
      <4>. QED
        BY <4>1 DEF Good, Sorted
    <3>. QED
      BY <1>8, <3>1 DEF Sorted
  <2>. QED
    BY <1>8, <2>1, <2>2 DEF Good
<1>10. w.at \in [Request -> Places]
  BY DEF Good, AdmissionType
<1>11. Moves(w, u, r)
  BY <1>6, <1>8, <1>10 DEF Moves, Untouched, InLine
<1>12. /\ Good(v) /\ \A q \in Request : Untouched(u, v, q)
       /\ v.at = u.at /\ v.uses = u.uses /\ v.retried = u.retried
       /\ v.gateLine = u.gateLine /\ v.gateSlots = u.gateSlots
  BY <1>2, <1>9, AdmitSound
<1>13. Moves(w, v, r)
  <2>1. Moves(u, v, r)
    BY <1>12 DEF Moves
  <2>. QED
    BY <1>11, <2>1, UntouchedOnwards
<1>14. v.at[r] = "governor"
  BY <1>8, <1>10, <1>12
<1>15. Coherent(v, r)
  <2>1. Own(v, r)
    <3>1. Untouched(u, v, r) /\ r \notin u.slots
      BY <1>8, <1>12
    <3>2. InLine(v, r) => r \notin v.slots
      BY <3>1 DEF Untouched
    <3>. QED
      BY <1>3, <1>8, <1>12, <3>2 DEF Own
  <2>. QED
    BY <1>8, <1>12, <1>14, <2>1 DEF Coherent, Own, Inside, InLine
<1>. QED
  BY <1>8, <1>12, <1>13, <1>14, <1>15 DEF v

\* A submission joins a line or is refused.
LEMMA SubmitSound ==
  ASSUME NEW w, Good(w), NEW r \in Http, Own(w, r), w.uses[r] \in Runtime,
         r \notin w.slots, \A x \in Runtime : r \notin Members(w.gateLine[x])
  PROVE  /\ Good(Submit(w, r)) /\ Moves(w, Submit(w, r), r)
         /\ Submit(w, r).at[r] \in {"governor", "over"}
         /\ r \in due => Submit(w, r).at[r] = "over"
         /\ Submit(w, r).uses = w.uses /\ Submit(w, r).retried = w.retried
         /\ Coherent(Submit(w, r), r)
<1>0. r \in Request
  BY DEF Request
<1>1. CASE r \in due \/ ~HasRoom(w, r)
  <2>1. Submit(w, r) = Leaves(w, r, "over")
    BY <1>1 DEF Submit
  <2>. QED
    BY <1>0, <2>1, LeavesSound DEF Places
<1>2. CASE ~(r \in due \/ ~HasRoom(w, r))
  <2> DEFINE u == Submitted(w, r)
             v == Submit(w, r)
  <2>1. v = [u EXCEPT !.jobs = Append(u.jobs, r)]
    BY <1>2 DEF Submit
  <2>2. /\ Good(u) /\ Moves(w, u, r) /\ u.at[r] = "governor"
        /\ u.uses = w.uses /\ u.retried = w.retried
        /\ Coherent(u, r)
    BY <1>0, SubmittedSound
  <2> HIDE DEF u, v
  <2>3. u.jobs \in Seq(Http) /\ Append(u.jobs, r) \in Seq(Http)
    BY <2>2 DEF Good, AdmissionType
  <2>4. /\ v \in AdmissionType
        /\ v.at = u.at /\ v.uses = u.uses /\ v.retried = u.retried
        /\ v.gateLine = u.gateLine /\ v.gateSlots = u.gateSlots
        /\ v.line = u.line /\ v.slots = u.slots
    BY <2>1, <2>2, <2>3 DEF Good, AdmissionType
  <2>5. Good(v)
    BY <2>2, <2>4, FewerSlots
  <2>6. Moves(w, v, r)
    BY <2>2, <2>4 DEF Moves, Untouched, InLine
  <2>7. Coherent(v, r)
    BY <2>2, <2>4 DEF Coherent, Own, InLine
  <2>. QED
    BY <1>2, <2>2, <2>4, <2>5, <2>6, <2>7 DEF v
<1>. QED
  BY <1>1, <1>2

\* A request that is past the gate has one of the gate's slots.
LEMMA ThroughGateSound ==
  ASSUME NEW w, Good(w), NEW r \in Http, Own(w, r), w.uses[r] \in Runtime
  PROVE  /\ Good(ThroughGate(w, r)) /\ Moves(w, ThroughGate(w, r), r)
         /\ ThroughGate(w, r).at = w.at /\ ThroughGate(w, r).uses = w.uses
         /\ ThroughGate(w, r).retried = w.retried /\ ThroughGate(w, r).slots = w.slots
         /\ Own(ThroughGate(w, r), r)
         /\ \A x \in Runtime : r \notin Members(ThroughGate(w, r).gateLine[x])
<1> DEFINE v == ThroughGate(w, r)
           x == w.uses[r]
           gl == [w.gateLine EXCEPT ![x] = Without(w.gateLine[x], r)]
           gs == [w.gateSlots EXCEPT ![x] = w.gateSlots[x] \cup {r}]
<1>1. v = [w EXCEPT !.gateSlots = gs, !.gateLine = gl]
  BY DEF ThroughGate
<1>2. /\ w \in AdmissionType /\ w.gateLine \in [Runtime -> Seq(Http)]
      /\ w.gateSlots \in [Runtime -> SUBSET Http]
  BY DEF Good, AdmissionType
<1>3. /\ Without(w.gateLine[x], r) \in Seq(Http)
      /\ Members(Without(w.gateLine[x], r)) = Members(w.gateLine[x]) \ {r}
  BY <1>2, WithoutSound DEF Request
<1>4. gl \in [Runtime -> Seq(Http)] /\ gs \in [Runtime -> SUBSET Http]
  BY <1>2, <1>3
<1>5. \A y \in Runtime :
        /\ gs[y] = IF y = x THEN w.gateSlots[y] \cup {r} ELSE w.gateSlots[y]
        /\ Members(gl[y]) = IF y = x THEN Members(w.gateLine[y]) \ {r} ELSE Members(w.gateLine[y])
  BY <1>2, <1>3
<1> HIDE DEF v, gl, gs
<1>6. /\ v \in AdmissionType
      /\ v.at = w.at /\ v.uses = w.uses /\ v.retried = w.retried
      /\ v.gateLine = gl /\ v.gateSlots = gs
      /\ v.line = w.line /\ v.slots = w.slots
  BY <1>1, <1>2, <1>4 DEF AdmissionType
<1>7. Good(v)
  BY <1>6, FewerSlots
<1>8. Moves(w, v, r)
  BY <1>5, <1>6 DEF Moves, Untouched, InLine
<1>9. Own(v, r)
  BY <1>5, <1>6 DEF Own, InLine
<1>10. \A y \in Runtime : r \notin Members(v.gateLine[y])
  BY <1>5, <1>6 DEF Own, InLine
<1>. QED
  BY <1>6, <1>7, <1>8, <1>9, <1>10 DEF v

\* A request that comes to a gate waits there or is refused.
LEMMA JoinGateSound ==
  ASSUME NEW w, Good(w), NEW r \in Http, Idle(w, r), w.uses[r] \in Runtime
  PROVE  /\ Good(JoinGate(w, r)) /\ Moves(w, JoinGate(w, r), r)
         /\ JoinGate(w, r).at[r] \in {"gate", "over"}
         /\ JoinGate(w, r).uses = w.uses /\ JoinGate(w, r).retried = w.retried
         /\ Coherent(JoinGate(w, r), r)
<1>0. r \in Request /\ {"gate", "over"} \subseteq Places /\ w.at \in [Request -> Places]
  BY DEF Request, Places, Good, AdmissionType
<1> DEFINE v == JoinGate(w, r)
           x == w.uses[r]
<1>1. CASE Cardinality(Live(w.gateLine[x])) >= GateCapacity
  <2>1. v = Put(w, r, "over")
    BY <1>1 DEF JoinGate
  <2> HIDE DEF v
  <2>2. /\ Good(v) /\ Moves(w, v, r)
        /\ v.at = [w.at EXCEPT ![r] = "over"] /\ v.uses = w.uses /\ v.retried = w.retried
        /\ v.gateLine = w.gateLine /\ v.gateSlots = w.gateSlots
        /\ v.line = w.line /\ v.slots = w.slots
    BY <1>0, <2>1, PutSound
  <2>3. Coherent(v, r)
    BY <2>2 DEF Idle, Coherent, Own, InLine
  <2>. QED
    BY <1>0, <2>2, <2>3 DEF v
<1>2. CASE ~(Cardinality(Live(w.gateLine[x])) >= GateCapacity)
  <2> DEFINE u == Put(w, r, "gate")
             gl == [w.gateLine EXCEPT ![x] = Append(w.gateLine[x], r)]
  <2>1. /\ Good(u) /\ Moves(w, u, r)
        /\ u.at = [w.at EXCEPT ![r] = "gate"] /\ u.uses = w.uses /\ u.retried = w.retried
        /\ u.gateLine = w.gateLine /\ u.gateSlots = w.gateSlots
        /\ u.line = w.line /\ u.slots = w.slots
    BY <1>0, PutSound
  <2>2. v = [u EXCEPT !.gateLine = gl]
    BY <1>2, <2>1 DEF JoinGate
  <2>3. w.gateLine \in [Runtime -> Seq(Http)]
    BY DEF Good, AdmissionType
  <2>4. /\ Append(w.gateLine[x], r) \in Seq(Http)
        /\ Members(Append(w.gateLine[x], r)) = Members(w.gateLine[x]) \cup {r}
    BY <2>3, MembersOfAppend
  <2>5. /\ gl \in [Runtime -> Seq(Http)]
        /\ \A y \in Runtime :
             Members(gl[y]) = IF y = x THEN Members(w.gateLine[y]) \cup {r} ELSE Members(w.gateLine[y])
    BY <2>3, <2>4
  <2> HIDE DEF u, v, gl
  <2>6. /\ v \in AdmissionType
        /\ v.at = u.at /\ v.uses = u.uses /\ v.retried = u.retried
        /\ v.gateLine = gl /\ v.gateSlots = u.gateSlots
        /\ v.line = u.line /\ v.slots = u.slots
    BY <2>1, <2>2, <2>5 DEF Good, AdmissionType
  <2>7. Good(v)
    BY <2>1, <2>6, FewerSlots
  <2>8. Moves(w, v, r)
    BY <1>0, <2>1, <2>5, <2>6 DEF Moves, Untouched, InLine
  <2>9. v.at[r] = "gate"
    BY <1>0, <2>1, <2>6
  <2>10. Coherent(v, r)
    BY <2>1, <2>5, <2>6, <2>9 DEF Idle, Coherent, Own, InLine
  <2>. QED
    BY <2>1, <2>6, <2>7, <2>8, <2>9, <2>10 DEF v
<1>. QED
  BY <1>1, <1>2

Residencies ==
  \A k \in Key : resident[k] \in 0..made[k] /\ made[k] \in 0..MaxResidency[k]

\* A model that resolves has a runtime.
LEMMA CurrentIsRuntime ==
  ASSUME Residencies, NEW r \in Request, Resolves(r)
  PROVE  Current(r) \in Runtime
<1> DEFINE k == KeyOf[r]
<1>1. k \in Key /\ MaxResidency[k] \in Nat
  BY ExecutionAssumption
<1>2. resident[k] \in 1..MaxResidency[k]
  BY <1>1 DEF Residencies, Resolves
<1> HIDE DEF k
<1>3. <<k, resident[k]>> \in {k} \X (1..MaxResidency[k])
  BY <1>2
<1>. QED
  BY <1>1, <1>3 DEF Current, Runtime, k

\* What an attempt uses, as long as it has nothing.
LEMMA UsesSound ==
  ASSUME NEW w, Good(w), NEW r \in Request, Idle(w, r), NEW x \in Runtime \cup {None}
  PROVE  LET v == [w EXCEPT !.uses[r] = x]
         IN  /\ Good(v) /\ Moves(w, v, r) /\ Idle(v, r)
             /\ v.uses[r] = x /\ v.at = w.at /\ v.retried = w.retried
<1> DEFINE us == [w.uses EXCEPT ![r] = x]
           v == [w EXCEPT !.uses = us]
<1>1. w \in AdmissionType /\ us \in [Request -> Runtime \cup {None}] /\ us[r] = x
  BY DEF Request, Good, AdmissionType
<1>2. \A q \in Request \ {r} : us[q] = w.uses[q]
  BY DEF Good, AdmissionType
<1> HIDE DEF us
<1>3. /\ v \in AdmissionType
      /\ v.at = w.at /\ v.uses = us /\ v.retried = w.retried
      /\ v.gateLine = w.gateLine /\ v.gateSlots = w.gateSlots
      /\ v.line = w.line /\ v.slots = w.slots
  BY <1>1 DEF AdmissionType
<1>4. v = [w EXCEPT !.uses[r] = x]
  BY DEF us
<1> HIDE DEF v
<1>5. Good(v)
  BY <1>3, FewerSlots
<1>6. Moves(w, v, r)
  BY <1>2, <1>3 DEF Moves, Untouched, InLine
<1>7. Idle(v, r)
  BY <1>3 DEF Idle, InLine
<1>. QED
  BY <1>1, <1>3, <1>4, <1>5, <1>6, <1>7

\* Where an attempt can take r, which has nothing before it.
Attempted(w, v, r) ==
  /\ Good(v) /\ Moves(w, v, r) /\ Coherent(v, r)
  /\ v.at[r] \in {"admitted", "gate", "governor", "over"}
  /\ v.at[r] = "admitted" => v.uses[r] = None
  /\ v.at[r] = "gate" => v.uses[r] # None
  /\ v.uses[r] \in {w.uses[r], Current(r), None}
  /\ r \in due => v.at[r] \in {"admitted", "over"}

\* An attempt of a request that has nothing ends with what its place allows.
LEMMA AttemptSound ==
  ASSUME NEW w, Good(w), NEW r \in Http, Idle(w, r), Residencies
  PROVE  Attempted(w, Attempt(w, r), r)
<1>0. r \in Request /\ {"admitted", "over"} \subseteq Places
  BY DEF Request, Places
<1>1. CASE ~Resolves(r)
  <2> DEFINE u == Put(w, r, "admitted")
             v == [u EXCEPT !.uses[r] = None]
  <2>1. Attempt(w, r) = v
    BY <1>1 DEF Attempt
  <2>2. /\ Good(u) /\ Moves(w, u, r)
        /\ u.at = [w.at EXCEPT ![r] = "admitted"]
        /\ u.gateLine = w.gateLine /\ u.gateSlots = w.gateSlots
        /\ u.line = w.line /\ u.slots = w.slots
    BY <1>0, PutSound
  <2>3. u.at[r] = "admitted"
    BY <1>0, <2>2 DEF Good, AdmissionType
  <2> HIDE DEF u
  <2>4. Idle(u, r)
    BY <2>2 DEF Idle, InLine
  <2>5. /\ Good(v) /\ Moves(u, v, r) /\ Idle(v, r) /\ v.uses[r] = None /\ v.at = u.at
    BY <1>0, <2>2, <2>4, UsesSound
  <2> HIDE DEF v
  <2>6. Moves(w, v, r)
    BY <2>2, <2>5, UntouchedOnwards
  <2>7. Coherent(v, r)
    BY <2>5 DEF Idle, Coherent, Own, InLine
  <2>. QED
    BY <2>1, <2>3, <2>5, <2>6, <2>7 DEF Attempted
<1>2. CASE Resolves(r)
  <2> DEFINE u == [w EXCEPT !.uses[r] = Current(r)]
  <2>1. Current(r) \in Runtime
    BY <1>0, <1>2, CurrentIsRuntime
  <2>2. Attempt(w, r) = IF r \in due THEN Put(u, r, "over")
                        ELSE IF GateOpen(u, r) THEN Submit(ThroughGate(u, r), r)
                        ELSE JoinGate(u, r)
    BY <1>2 DEF Attempt
  <2>3. /\ Good(u) /\ Moves(w, u, r) /\ Idle(u, r)
        /\ u.uses[r] = Current(r) /\ u.at = w.at
    BY <1>0, <2>1, UsesSound
  <2> HIDE DEF u
  <2>4. Own(u, r)
    BY <2>3 DEF Idle, Own, InLine
  <2>5. CASE r \in due
    <3> DEFINE v == Put(u, r, "over")
    <3>1. /\ Good(v) /\ Moves(u, v, r)
          /\ v.at = [u.at EXCEPT ![r] = "over"] /\ v.uses = u.uses
          /\ v.gateLine = u.gateLine /\ v.gateSlots = u.gateSlots
          /\ v.line = u.line /\ v.slots = u.slots
      BY <1>0, <2>3, PutSound
    <3> HIDE DEF v
    <3>2. Moves(w, v, r)
      BY <2>3, <3>1, UntouchedOnwards
    <3>3. Coherent(v, r)
      BY <2>3, <3>1 DEF Idle, Coherent, Own, InLine
    <3>4. v.at[r] = "over"
      BY <1>0, <2>3, <3>1 DEF Good, AdmissionType
    <3>5. Attempt(w, r) = v
      BY <2>2, <2>5 DEF v
    <3>. QED
      BY <2>3, <3>1, <3>2, <3>3, <3>4, <3>5 DEF Attempted
  <2>6. CASE r \notin due /\ GateOpen(u, r)
    <3> DEFINE t == ThroughGate(u, r)
               v == Submit(t, r)
    <3>1. /\ Good(t) /\ Moves(u, t, r) /\ t.uses = u.uses /\ Own(t, r) /\ t.slots = u.slots
          /\ \A x \in Runtime : r \notin Members(t.gateLine[x])
      BY <2>1, <2>3, <2>4, ThroughGateSound
    <3> HIDE DEF t
    <3>2. /\ Good(v) /\ Moves(t, v, r) /\ v.at[r] \in {"governor", "over"} /\ Coherent(v, r)
          /\ v.uses = t.uses
      <4>1. r \notin t.slots
        BY <2>3, <3>1 DEF Idle
      <4>. QED
        BY <2>1, <2>3, <3>1, <4>1, SubmitSound
    <3> HIDE DEF v
    <3>3. Moves(w, v, r)
      BY <2>3, <3>1, <3>2, UntouchedOnwards
    <3>4. Attempt(w, r) = v
      BY <2>2, <2>6 DEF v, t
    <3>. QED
      BY <2>3, <2>6, <3>1, <3>2, <3>3, <3>4 DEF Attempted
  <2>7. CASE r \notin due /\ ~GateOpen(u, r)
    <3> DEFINE v == JoinGate(u, r)
    <3>1. /\ Good(v) /\ Moves(u, v, r) /\ v.at[r] \in {"gate", "over"} /\ Coherent(v, r)
          /\ v.uses[r] = Current(r) /\ Current(r) # None
      BY <2>1, <2>3, JoinGateSound, ExecutionAssumption
    <3> HIDE DEF v
    <3>2. Moves(w, v, r)
      BY <2>3, <3>1, UntouchedOnwards
    <3>3. Attempt(w, r) = v
      BY <2>2, <2>7 DEF v
    <3>. QED
      BY <2>7, <3>1, <3>2, <3>3 DEF Attempted
  <2>. QED
    BY <2>5, <2>6, <2>7
<1>. QED
  BY <1>1, <1>2

\* A further attempt gives back first what the last one had.
LEMMA AgainSound ==
  ASSUME NEW w, Good(w), NEW r \in Http, Own(w, r), Residencies
  PROVE  Attempted(w, Again(w, r), r)
<1>0. r \in Request /\ "over" \in Places
  BY DEF Request, Places
<1>1. CASE r \in w.retried
  <2>1. Again(w, r) = Leaves(w, r, "over")
    BY <1>1 DEF Again
  <2>. QED
    BY <1>0, <2>1, LeavesSound DEF Attempted
<1>2. CASE r \notin w.retried
  <2> DEFINE t == Release(w, r)
             u == [t EXCEPT !.retried = t.retried \cup {r}]
             v == Attempt(u, r)
  <2>1. Again(w, r) = v
    BY <1>2 DEF Again
  <2>2. Good(t) /\ Moves(w, t, r) /\ Idle(t, r) /\ t.uses = w.uses
    BY <1>0, ReleaseSound
  <2> HIDE DEF t
  <2>3. /\ u \in AdmissionType
        /\ u.at = t.at /\ u.uses = t.uses /\ u.retried = t.retried \cup {r}
        /\ u.gateLine = t.gateLine /\ u.gateSlots = t.gateSlots
        /\ u.line = t.line /\ u.slots = t.slots
    BY <2>2 DEF Good, AdmissionType
  <2> HIDE DEF u
  <2>4. Good(u)
    BY <2>2, <2>3, FewerSlots
  <2>5. Moves(t, u, r)
    BY <2>3 DEF Moves, Untouched, InLine
  <2>6. Idle(u, r)
    BY <2>2, <2>3 DEF Idle, InLine
  <2>7. Attempted(u, v, r)
    BY <2>4, <2>6, AttemptSound
  <2> HIDE DEF v
  <2>8. Moves(w, v, r)
    BY <2>2, <2>5, <2>7, UntouchedOnwards DEF Attempted
  <2>. QED
    BY <2>1, <2>2, <2>3, <2>7, <2>8 DEF Attempted
<1>. QED
  BY <1>1, <1>2

-----------------------------------------------------------------------------
(* The inductive invariant.                                                 *)

\* Where a request that was admitted needs the slot it has.
Ready == {"admitted", "route", "body", "leased", "executing"}

\* Where a request may have memory.
Served == {"route", "body", "leased", "executing", "responded", "lost"}

\* The account of q, whose tasks G were cancelled, memory M is reserved and runtimes
\* V are resolved.
Account(w, G, M, V, q) ==
  /\ Coherent(w, q)
  /\ w.at[q] = "new" => w.uses[q] = None
  /\ w.at[q] = "gate" => w.uses[q] # None
  /\ w.at[q] \in {"prepared", "gate", "body"} => q \in Http
  /\ q \in G => q \in Http /\ Idle(w, q) /\ w.at[q] \in {"over", "leased", "executing"}
  /\ w.at[q] \in Ready /\ w.uses[q] # None /\ q \notin G => q \in w.slots
  /\ q \in M => w.at[q] \in Served /\ q \notin G /\ Need[q] \in Nat
  /\ w.at[q] \in {"body", "leased", "executing"} => V[q] # None /\ V[q][1] = KeyOf[q]

Others ==
  /\ resident \in [Key -> Nat] /\ made \in [Key -> Nat] /\ Residencies
  /\ waiting \subseteq Http /\ due \subseteq Timed /\ gone \subseteq Http
  /\ reserved \subseteq Request /\ Total(Need, reserved) <= Budget
  /\ serves \in [Request -> Runtime \cup {None}]
  /\ blocked \in Transcription \cup {None}

IInv ==
  /\ Good(Admission)
  /\ Others
  /\ \A q \in Request : Account(Admission, gone, reserved, serves, q)

\* The next admission state is the one that a step computes.
LEMMA BecomesAdmission ==
  ASSUME NEW v \in AdmissionType, Becomes(v)
  PROVE  Admission' = v
BY DEF Becomes, Admission, AdmissionType

\* The admission state is the record of its variables.
LEMMA AdmissionFields ==
  /\ Admission.at = at /\ Admission.retried = retried /\ Admission.uses = uses
  /\ Admission.gateLine = gateLine /\ Admission.gateSlots = gateSlots
  /\ Admission.line = line /\ Admission.order = order /\ Admission.slots = slots
  /\ Admission.jobs = jobs
BY DEF Admission

\* The account of a request nothing happened to.
LEMMA OthersKeep ==
  ASSUME NEW w, NEW v, NEW q \in Request, Untouched(w, v, q),
         NEW G, NEW M, NEW V, NEW G1, NEW M1, NEW V1,
         q \in G1 <=> q \in G, q \in M1 <=> q \in M, V1[q] = V[q],
         Account(w, G, M, V, q)
  PROVE  Account(v, G1, M1, V1, q)
<1>1. Untouched(w, v, q)
  OBVIOUS
<1>2. InLine(v, q) => InLine(w, q)
  BY <1>1 DEF Untouched, InLine
<1>3. Coherent(w, q) /\ v.at[q] = w.at[q] /\ v.uses[q] = w.uses[q]
  BY <1>1 DEF Account, Untouched
<1>4. q \in v.slots => q \in w.slots \/ InLine(w, q)
  BY <1>1 DEF Untouched
<1>5. Own(v, q)
  BY <1>1, <1>2, <1>3, <1>4 DEF Untouched, Coherent, Own
<1>6. Coherent(v, q)
  BY <1>1, <1>2, <1>3, <1>4, <1>5 DEF Untouched, Coherent, Inside
<1>7. Idle(w, q) => Idle(v, q)
  BY <1>1, <1>2, <1>4 DEF Untouched, Idle
<1>8. q \in w.slots => q \in v.slots
  BY <1>1 DEF Untouched
<1>. QED
  BY <1>3, <1>6, <1>7, <1>8 DEF Account

\* A step of r keeps the invariant when it keeps r's own account.
LEMMA StepKeeps ==
  ASSUME IInv, NEW v, Becomes(v), Good(v), NEW r \in Request, Moves(Admission, v, r),
         Others',
         \A q \in Request \ {r} :
           (q \in gone' <=> q \in gone) /\ (q \in reserved' <=> q \in reserved)
           /\ serves'[q] = serves[q],
         Account(v, gone', reserved', serves', r)
  PROVE  IInv'
<1>1. Admission' = v
  BY BecomesAdmission DEF Good
<1>2. ASSUME NEW q \in Request
      PROVE  Account(v, gone', reserved', serves', q)
  <2>1. CASE q = r
    BY <2>1
  <2>2. CASE q # r
    <3>1. Account(Admission, gone, reserved, serves, q) /\ Untouched(Admission, v, q)
      BY <2>2 DEF IInv, Moves
    <3>. QED
      BY <2>2, <3>1, OthersKeep
  <2>. QED
    BY <2>1, <2>2
<1>3. Good(Admission)' /\ \A q \in Request : Account(Admission, gone, reserved, serves, q)'
  BY <1>1, <1>2
<1>. QED
  BY <1>3 DEF IInv

\* v is the value when r is moved to p and nothing else happens.
Placed(v, r, p) ==
  /\ v.at[r] = p /\ v.uses = uses /\ v.gateSlots = gateSlots /\ v.gateLine = gateLine
  /\ v.slots = slots
  /\ InLine(v, r) <=> InLine(Admission, r)
  /\ Idle(v, r) <=> Idle(Admission, r)
  /\ Own(v, r) <=> Own(Admission, r)

\* Where a step only moves r.
LEMMA PutKeeps ==
  ASSUME IInv, NEW r \in Request, NEW p \in Places, Becomes(Put(Admission, r, p)),
         Others',
         \A q \in Request \ {r} :
           (q \in gone' <=> q \in gone) /\ (q \in reserved' <=> q \in reserved)
           /\ serves'[q] = serves[q],
         \A v : Placed(v, r, p) => Account(v, gone', reserved', serves', r)
  PROVE  IInv'
<1> DEFINE v == Put(Admission, r, p)
<1>1. /\ Good(v) /\ Moves(Admission, v, r)
      /\ v.at = [at EXCEPT ![r] = p] /\ v.uses = uses /\ v.gateLine = gateLine
      /\ v.gateSlots = gateSlots /\ v.line = line /\ v.slots = slots
  BY PutSound, AdmissionFields DEF IInv
<1>2. v.at[r] = p
  BY <1>1, AdmissionFields DEF IInv, Good, AdmissionType
<1> HIDE DEF v
<1>3. Placed(v, r, p)
  BY <1>1, <1>2, AdmissionFields DEF Placed, InLine, Idle, Own
<1>4. Account(v, gone', reserved', serves', r)
  BY <1>3
<1>. QED
  BY <1>1, <1>4, StepKeeps DEF v

\* What the invariant says of r.
LEMMA AccountOf ==
  ASSUME IInv, NEW r \in Request
  PROVE  /\ Own(Admission, r)
         /\ \A x \in Runtime : /\ r \in gateSlots[x] => at[r] \in Inside
                               /\ r \in Members(gateLine[x]) => at[r] = "gate"
         /\ InLine(Admission, r) => at[r] = "governor" /\ r \notin slots
         /\ r \in slots => at[r] \in Inside /\ uses[r] # None
         /\ at[r] = "new" => uses[r] = None
         /\ at[r] = "gate" => uses[r] # None
         /\ at[r] \in {"prepared", "gate", "body"} => r \in Http
         /\ r \in gone => /\ r \in Http /\ at[r] \in {"over", "leased", "executing"}
                          /\ Idle(Admission, r)
         /\ at[r] \in Ready /\ uses[r] # None /\ r \notin gone => r \in slots
         /\ r \in reserved => at[r] \in Served /\ r \notin gone /\ Need[r] \in Nat
         /\ at[r] \in {"body", "leased", "executing"} =>
              serves[r] # None /\ serves[r][1] = KeyOf[r]
BY AdmissionFields DEF IInv, Account, Coherent, Own

LEMMA ArriveKeeps ==
  ASSUME IInv, NEW r \in Request, Arrive(r)
  PROVE  IInv'
<1> DEFINE p == IF Resolves(r) THEN "prepared" ELSE "route"
<1>1. /\ at[r] = "new" /\ r \in Http /\ Becomes(Put(Admission, r, p)) /\ p \in Places
      /\ UNCHANGED <<residency, waiting, reserved, serves, gone, due, blocked>>
  BY DEF Arrive, Places
<1>2. Others'
  BY <1>1 DEF IInv, Others, Residencies, residency
<1>3. ASSUME NEW v, Placed(v, r, p)
      PROVE  Account(v, gone', reserved', serves', r)
  BY <1>1, <1>3, AccountOf, ExecutionAssumption
     DEF Placed, Account, Coherent, Inside, Ready, Served, Direct
<1>. QED
  BY <1>1, <1>2, <1>3, PutKeeps

LEMMA ProceedKeeps ==
  ASSUME IInv, NEW r \in Request, Proceed(r)
  PROVE  IInv'
<1> DEFINE p == IF uses[r] = Current(r) THEN "admitted" ELSE "answered"
<1>1. /\ at[r] = "governor" /\ r \in slots /\ r \in Direct
      /\ Becomes(Put(Admission, r, p)) /\ p \in Places
      /\ UNCHANGED <<residency, waiting, reserved, serves, gone, due, blocked>>
  BY DEF Proceed, Places
<1>2. Others'
  BY <1>1 DEF IInv, Others, Residencies, residency
<1>3. ASSUME NEW v, Placed(v, r, p)
      PROVE  Account(v, gone', reserved', serves', r)
  BY <1>1, <1>3, AccountOf, ExecutionAssumption
     DEF Placed, Account, Coherent, Inside, Ready, Served, Direct
<1>. QED
  BY <1>1, <1>2, <1>3, PutKeeps

\* Memory that was returned leaves enough, and r may have what fits.
LEMMA ReturnFits ==
  ASSUME IInv, NEW r
  PROVE  Total(Need, reserved \ {r}) <= Budget
<1>1. \A y \in reserved : y \in Request /\ Need[y] \in Nat
  BY AccountOf DEF IInv, Others
<1>2. reserved \in SUBSET Request /\ Total(Need, reserved) <= Budget /\ Budget \in Nat
  BY ExecutionAssumption DEF IInv, Others
<1>3. IsFiniteSet(reserved)
  BY <1>2, RequestsAreFinite
<1>4. /\ Total(Need, reserved) \in Nat /\ Total(Need, reserved \ {r}) \in Nat
      /\ Total(Need, reserved) = IF r \in reserved THEN Total(Need, reserved \ {r}) + Need[r]
                                ELSE Total(Need, reserved \ {r})
  BY <1>1, <1>3, TotalRemove
<1>. QED
  BY <1>1, <1>2, <1>4

\* A reservation that fits keeps the budget.
LEMMA ReserveFits ==
  ASSUME IInv, NEW r \in Request, r \notin reserved, Need[r] \in Nat, Fits(r)
  PROVE  Total(Need, reserved \cup {r}) <= Budget
<1>1. \A y \in reserved : y \in Request /\ Need[y] \in Nat
  BY AccountOf DEF IInv, Others
<1>2. IsFiniteSet(reserved)
  BY RequestsAreFinite DEF IInv, Others
<1>3. Total(Need, reserved \cup {r}) = Total(Need, reserved) + Need[r]
  BY <1>1, <1>2, TotalAdd
<1>. QED
  BY <1>3 DEF Fits

\* The account of a request that has nothing and is over.
LEMMA OverAccount ==
  ASSUME NEW v, NEW r, Coherent(v, r), v.at[r] = "over", NEW G, NEW M, NEW V,
         r \in G => r \in Http, r \notin M
  PROVE  Account(v, G, M, V, r)
BY DEF Coherent, Account, Idle, Inside, Ready

\* The account of a request after an attempt.
LEMMA AttemptedAccount ==
  ASSUME NEW w, NEW v, NEW r \in Http, Attempted(w, v, r), NEW G, NEW M, NEW V,
         r \notin G, r \notin M
  PROVE  Account(v, G, M, V, r)
<1>1. r \notin Direct
  BY ExecutionAssumption
<1>. QED
  BY <1>1 DEF Attempted, Account, Coherent, Ready

LEMMA HandleFailsKeeps ==
  ASSUME IInv, NEW r \in Request, HandleFails(r)
  PROVE  IInv'
<1> DEFINE p == "responded"
<1>1. /\ at[r] = "route"
      /\ Becomes(Put(Admission, r, p)) /\ p \in Places
      /\ UNCHANGED <<residency, waiting, reserved, serves, gone, due, blocked>>
  BY DEF HandleFails, Places
<1>2. Others'
  BY <1>1 DEF IInv, Others, Residencies, residency
<1>3. ASSUME NEW v, Placed(v, r, p)
      PROVE  Account(v, gone', reserved', serves', r)
  BY <1>1, <1>3, AccountOf, ExecutionAssumption
     DEF Placed, Account, Coherent, Inside, Ready, Served, Direct
<1>. QED
  BY <1>1, <1>2, <1>3, PutKeeps

LEMMA LoseBodyKeeps ==
  ASSUME IInv, NEW r \in Request, LoseBody(r)
  PROVE  IInv'
<1> DEFINE p == "lost"
<1>1. /\ at[r] = "body"
      /\ Becomes(Put(Admission, r, p)) /\ p \in Places
      /\ UNCHANGED <<residency, waiting, reserved, serves, gone, due, blocked>>
  BY DEF LoseBody, Places
<1>2. Others'
  BY <1>1 DEF IInv, Others, Residencies, residency
<1>3. ASSUME NEW v, Placed(v, r, p)
      PROVE  Account(v, gone', reserved', serves', r)
  BY <1>1, <1>3, AccountOf, ExecutionAssumption
     DEF Placed, Account, Coherent, Inside, Ready, Served, Direct
<1>. QED
  BY <1>1, <1>2, <1>3, PutKeeps

LEMMA ExecuteKeeps ==
  ASSUME IInv, NEW r \in Request, Execute(r)
  PROVE  IInv'
<1> DEFINE p == "executing"
<1>1. /\ at[r] = "leased"
      /\ Becomes(Put(Admission, r, p)) /\ p \in Places
      /\ UNCHANGED <<residency, waiting, reserved, serves, gone, due, blocked>>
  BY DEF Execute, Places
<1>2. Others'
  BY <1>1 DEF IInv, Others, Residencies, residency
<1>3. ASSUME NEW v, Placed(v, r, p)
      PROVE  Account(v, gone', reserved', serves', r)
  BY <1>1, <1>3, AccountOf, ExecutionAssumption
     DEF Placed, Account, Coherent, Inside, Ready, Served, Direct
<1>. QED
  BY <1>1, <1>2, <1>3, PutKeeps

LEMMA HandleKeeps ==
  ASSUME IInv, NEW r \in Request, Handle(r)
  PROVE  IInv'
<1> DEFINE p == IF r \in Streams THEN "body" ELSE "leased"
<1>1. /\ at[r] = "route" /\ Resolves(r) /\ serves' = [serves EXCEPT ![r] = Current(r)]
      /\ Becomes(Put(Admission, r, p)) /\ p \in Places
      /\ UNCHANGED <<residency, waiting, reserved, gone, due, blocked>>
  BY DEF Handle, Servable, Places
<1>2. Current(r) \in Runtime /\ Current(r) # None /\ Current(r)[1] = KeyOf[r]
  <2>1. Current(r) \in Runtime
    BY <1>1, CurrentIsRuntime DEF IInv, Others
  <2>. QED
    BY <2>1, ExecutionAssumption DEF Current
<1>3. /\ serves' \in [Request -> Runtime \cup {None}] /\ serves'[r] = Current(r)
      /\ \A q \in Request \ {r} : serves'[q] = serves[q]
  BY <1>1, <1>2 DEF IInv, Others
<1>4. Others'
  BY <1>1, <1>3 DEF IInv, Others, Residencies, residency
<1>5. ASSUME NEW v, Placed(v, r, p)
      PROVE  Account(v, gone', reserved', serves', r)
  BY <1>1, <1>2, <1>3, <1>5, AccountOf, ExecutionAssumption
     DEF Placed, Account, Coherent, Inside, Ready, Served, Direct
<1>. QED
  BY <1>1, <1>3, <1>4, <1>5, PutKeeps

LEMMA StartBodyKeeps ==
  ASSUME IInv, NEW r \in Request, StartBody(r)
  PROVE  IInv'
<1> DEFINE p == IF serves[r] = Current(r) THEN "leased" ELSE "responded"
<1>1. /\ at[r] = "body"
      /\ serves' = IF serves[r] = Current(r) THEN serves ELSE [serves EXCEPT ![r] = None]
      /\ Becomes(Put(Admission, r, p)) /\ p \in Places
      /\ UNCHANGED <<residency, waiting, reserved, gone, due, blocked>>
  BY DEF StartBody, Places
<1>2. /\ serves' \in [Request -> Runtime \cup {None}]
      /\ p = "leased" => serves'[r] = serves[r]
      /\ \A q \in Request \ {r} : serves'[q] = serves[q]
  BY <1>1 DEF IInv, Others
<1>3. Others'
  BY <1>1, <1>2 DEF IInv, Others, Residencies, residency
<1>4. ASSUME NEW v, Placed(v, r, p)
      PROVE  Account(v, gone', reserved', serves', r)
  BY <1>1, <1>2, <1>4, AccountOf, ExecutionAssumption
     DEF Placed, Account, Coherent, Inside, Ready, Served, Direct
<1>. QED
  BY <1>1, <1>2, <1>3, <1>4, PutKeeps

LEMMA FinishKeeps ==
  ASSUME IInv, NEW r \in Request, Finish(r)
  PROVE  IInv'
<1> DEFINE p == IF r \in gone THEN "over" ELSE "responded"
<1>1. /\ at[r] = "executing" /\ serves' = [serves EXCEPT ![r] = None]
      /\ Becomes(Put(Admission, r, p)) /\ p \in Places
      /\ UNCHANGED <<residency, waiting, reserved, gone, due, blocked>>
  BY DEF Finish, Places
<1>2. /\ serves' \in [Request -> Runtime \cup {None}]
      /\ \A q \in Request \ {r} : serves'[q] = serves[q]
  BY <1>1 DEF IInv, Others
<1>3. Others'
  BY <1>1, <1>2 DEF IInv, Others, Residencies, residency
<1>4. ASSUME NEW v, Placed(v, r, p)
      PROVE  Account(v, gone', reserved', serves', r)
  <2>1. r \in gone => Idle(v, r)
    BY <1>4, AccountOf DEF Placed
  <2>. QED
    BY <1>1, <1>4, <2>1, AccountOf, ExecutionAssumption
       DEF Placed, Account, Coherent, Inside, Ready, Served, Direct, Idle
<1>. QED
  BY <1>1, <1>2, <1>3, <1>4, PutKeeps

LEMMA ReturnMemoryKeeps ==
  ASSUME IInv, NEW r \in Request, ReturnMemory(r)
  PROVE  IInv'
<1> DEFINE p == "answered"
<1>1. /\ at[r] = "responded" /\ reserved' = reserved \ {r}
      /\ Becomes(Put(Admission, r, p)) /\ p \in Places
      /\ UNCHANGED <<residency, waiting, serves, gone, due, blocked>>
  BY DEF ReturnMemory, Places
<1>2. Others'
  BY <1>1, ReturnFits DEF IInv, Others, Residencies, residency
<1>3. ASSUME NEW v, Placed(v, r, p)
      PROVE  Account(v, gone', reserved', serves', r)
  BY <1>1, <1>3, AccountOf, ExecutionAssumption
     DEF Placed, Account, Coherent, Inside, Ready, Served, Direct
<1>. QED
  BY <1>1, <1>2, <1>3, PutKeeps

LEMMA ReserveKeeps ==
  ASSUME IInv, NEW r \in Request, Reserve(r)
  PROVE  IInv'
<1> DEFINE free == Need[r] = None \/ (r \in Http /\ ~Resolves(r))
           p == IF free \/ Fits(r) THEN "route" ELSE "answered"
<1>1. /\ at[r] = "admitted"
      /\ reserved' = IF ~free /\ Fits(r) THEN reserved \cup {r} ELSE reserved
      /\ Becomes(Put(Admission, r, p)) /\ p \in Places
      /\ UNCHANGED <<residency, waiting, serves, gone, due, blocked>>
  BY DEF Reserve, Places
<1>2. r \notin reserved /\ (~free => Need[r] \in Nat)
  BY <1>1, AccountOf, ExecutionAssumption DEF Served
<1>3. Total(Need, reserved') <= Budget /\ reserved' \subseteq Request
  BY <1>1, <1>2, ReserveFits DEF IInv, Others
<1>4. Others'
  BY <1>1, <1>3 DEF IInv, Others, Residencies, residency
<1>5. ASSUME NEW v, Placed(v, r, p)
      PROVE  Account(v, gone', reserved', serves', r)
  BY <1>1, <1>2, <1>5, AccountOf, ExecutionAssumption
     DEF Placed, Account, Coherent, Inside, Ready, Served, Direct
<1>. QED
  BY <1>1, <1>4, <1>5, PutKeeps

\* A step after which r is attempted again, or over.
LEMMA AttemptKeeps ==
  ASSUME IInv, NEW r \in Http, NEW v, Becomes(v), Attempted(Admission, v, r),
         r \notin gone, r \notin reserved,
         UNCHANGED <<residency, waiting, reserved, serves, gone, due, blocked>>
  PROVE  IInv'
<1>1. Others'
  BY DEF IInv, Others, Residencies, residency
<1>2. Good(v) /\ Moves(Admission, v, r)
  BY DEF Attempted
<1>3. Account(v, gone', reserved', serves', r)
  BY AttemptedAccount
<1>4. r \in Request
  BY DEF Request
<1>. QED
  BY <1>1, <1>2, <1>3, <1>4, StepKeeps

\* A step after which r is over.
LEMMA OverKeeps ==
  ASSUME IInv, NEW r \in Request, NEW v, Becomes(v), Good(v), Moves(Admission, v, r),
         Coherent(v, r), v.at[r] = "over", r \notin reserved,
         UNCHANGED <<residency, waiting, reserved, serves, gone, due>>,
         blocked' \in {blocked, None}
  PROVE  IInv'
<1>1. Others'
  BY DEF IInv, Others, Residencies, residency
<1>2. Account(v, gone', reserved', serves', r)
  BY OverAccount DEF IInv, Others
<1>. QED
  BY <1>1, <1>2, StepKeeps

\* The first attempt.
LEMMA ScheduleAttempts ==
  ASSUME IInv, NEW r \in Request, Schedule(r)
  PROVE  /\ r \in Http /\ r \notin gone /\ r \notin reserved
         /\ Becomes(Attempt(Admission, r)) /\ Attempted(Admission, Attempt(Admission, r), r)
<1>1. at[r] = "prepared" /\ Becomes(Attempt(Admission, r))
  BY DEF Schedule
<1>2. r \in Http /\ r \notin gone /\ r \notin reserved
  BY <1>1, AccountOf DEF Served
<1>3. Idle(Admission, r)
  BY <1>1, AccountOf, AdmissionFields DEF Idle, Inside
<1>4. Good(Admission) /\ Residencies
  BY DEF IInv, Others
<1>5. Attempted(Admission, Attempt(Admission, r), r)
  BY <1>2, <1>3, <1>4, AttemptSound
<1>. QED
  BY <1>1, <1>2, <1>5

LEMMA ScheduleKeeps ==
  ASSUME IInv, NEW r \in Request, Schedule(r)
  PROVE  IInv'
<1>1. UNCHANGED <<residency, waiting, reserved, serves, gone, due, blocked>>
  BY DEF Schedule
<1>. QED
  BY <1>1, ScheduleAttempts, AttemptKeeps

\* The value after r has passed the gate.
Passed(r) ==
  IF uses[r] = Current(r) THEN Submit(ThroughGate(Admission, r), r)
  ELSE Again(ThroughGate(Admission, r), r)

\* Past the gate, a request goes on or makes its second attempt.
LEMMA PassGateAttempts ==
  ASSUME IInv, NEW r \in Request, PassGate(r)
  PROVE  /\ r \in Http /\ r \notin gone /\ r \notin reserved
         /\ Becomes(Passed(r)) /\ Attempted(Admission, Passed(r), r)
<1> DEFINE u == ThroughGate(Admission, r)
           v == Passed(r)
<1>1. at[r] = "gate" /\ Becomes(v)
  BY DEF PassGate, Passed
<1>2. r \in Http /\ r \notin gone /\ r \notin reserved /\ r \notin slots
  BY <1>1, AccountOf DEF Served, Inside
<1>3. Good(Admission) /\ Residencies /\ Own(Admission, r)
  BY AccountOf DEF IInv, Others
<1>4. Attempted(Admission, v, r)
  <2>1. uses[r] \in Runtime
    <3>1. uses[r] \in Runtime \cup {None} /\ r \in Request
      BY <1>3, AdmissionFields DEF Good, AdmissionType
    <3>. QED
      BY <1>1, <3>1, AccountOf
  <2>2. /\ Good(u) /\ Moves(Admission, u, r) /\ Own(u, r) /\ u.uses = uses /\ u.slots = slots
        /\ \A x \in Runtime : r \notin Members(u.gateLine[x])
    BY <1>2, <1>3, <2>1, ThroughGateSound, AdmissionFields
  <2> HIDE DEF u
  <2>3. CASE uses[r] = Current(r)
    <3>1. v = Submit(u, r)
      BY <2>3 DEF Passed, u
    <3> HIDE DEF v
    <3>2. /\ Good(v) /\ Moves(u, v, r) /\ v.at[r] \in {"governor", "over"}
          /\ Coherent(v, r) /\ (r \in due => v.at[r] = "over") /\ v.uses = u.uses
      BY <1>2, <2>1, <2>2, <3>1, SubmitSound
    <3>3. Moves(Admission, v, r)
      BY <2>2, <3>2, UntouchedOnwards
    <3>. QED
      BY <2>2, <3>2, <3>3, AdmissionFields DEF Attempted
  <2>4. CASE uses[r] # Current(r)
    <3>1. v = Again(u, r)
      BY <2>4 DEF Passed, u
    <3> HIDE DEF v
    <3>2. Attempted(u, v, r)
      BY <1>2, <1>3, <2>2, <3>1, AgainSound
    <3>3. Moves(Admission, v, r)
      BY <2>2, <3>2, UntouchedOnwards DEF Attempted
    <3>. QED
      BY <2>2, <3>2, <3>3, AdmissionFields DEF Attempted
  <2>. QED
    BY <2>3, <2>4
<1>. QED
  BY <1>1, <1>2, <1>4

LEMMA PassGateKeeps ==
  ASSUME IInv, NEW r \in Request, PassGate(r)
  PROVE  IInv'
<1>1. UNCHANGED <<residency, waiting, reserved, serves, gone, due, blocked>>
  BY DEF PassGate
<1>. QED
  BY <1>1, PassGateAttempts, AttemptKeeps

LEMMA ReturnSlotsKeeps ==
  ASSUME IInv, NEW r \in Request, ReturnSlots(r)
  PROVE  IInv'
<1> DEFINE v == Leaves(Admission, r, "over")
<1>1. /\ at[r] = "answered" /\ Becomes(v) /\ blocked' \in {blocked, None}
      /\ UNCHANGED <<residency, waiting, reserved, serves, gone, due>>
  BY DEF ReturnSlots
<1>2. r \notin reserved /\ Own(Admission, r) /\ Good(Admission) /\ "over" \in Places
  BY <1>1, AccountOf DEF Served, IInv, Places
<1>3. Good(v) /\ Moves(Admission, v, r) /\ Coherent(v, r) /\ v.at[r] = "over"
  BY <1>2, LeavesSound
<1> HIDE DEF v
<1>. QED
  BY <1>1, <1>2, <1>3, OverKeeps

LEMMA CancelKeeps ==
  ASSUME IInv, NEW r \in Request, Cancel(r)
  PROVE  IInv'
<1> DEFINE p == IF at[r] \in {"leased", "executing"} THEN at[r] ELSE "over"
           v == Leaves(Admission, r, p)
<1>1. /\ r \in Http /\ at[r] # "body" /\ gone' = gone \cup {r} /\ reserved' = reserved \ {r}
      /\ Becomes(v) /\ p \in Places
      /\ UNCHANGED <<residency, waiting, serves, due, blocked>>
  BY DEF Cancel, Places
<1>2. Own(Admission, r) /\ Good(Admission)
  BY AccountOf DEF IInv
<1>3. /\ Good(v) /\ Moves(Admission, v, r) /\ Coherent(v, r) /\ Idle(v, r) /\ v.at[r] = p
  BY <1>1, <1>2, LeavesSound
<1> HIDE DEF v
<1>4. Others'
  BY <1>1, ReturnFits DEF IInv, Others, Residencies, residency
<1>5. r \notin Direct
  BY <1>1, ExecutionAssumption
<1>6. Account(v, gone', reserved', serves', r)
  BY <1>1, <1>3, <1>5, AccountOf DEF Account
<1>. QED
  BY <1>1, <1>3, <1>4, <1>6, StepKeeps

LEMMA DeliverKeeps ==
  ASSUME IInv, NEW r \in Request, Deliver(r)
  PROVE  IInv'
<1>1. /\ r \in Http
      /\ UNCHANGED <<residency, waiting, reserved, serves, gone, due, blocked>>
  BY DEF Deliver
<1>2. Own(Admission, r) /\ Good(Admission) /\ Residencies /\ "over" \in Places
  BY AccountOf DEF IInv, Others, Places
<1>3. CASE /\ at[r] = "governor" /\ r \in slots /\ uses[r] = Current(r)
           /\ Becomes(Put(Admission, r, "admitted"))
  <2>1. Others'
    BY <1>1 DEF IInv, Others, Residencies, residency
  <2>2. ASSUME NEW v, Placed(v, r, "admitted")
        PROVE  Account(v, gone', reserved', serves', r)
    BY <1>1, <1>3, <2>2, AccountOf, ExecutionAssumption
       DEF Placed, Account, Coherent, Inside, Ready, Served, Direct
  <2>3. "admitted" \in Places
    BY DEF Places
  <2>. QED
    BY <1>1, <1>3, <2>1, <2>2, <2>3, PutKeeps
<1>4. CASE at[r] = "governor" /\ r \in slots /\ Becomes(Again(Admission, r))
  <2>1. Attempted(Admission, Again(Admission, r), r)
    BY <1>1, <1>2, AgainSound
  <2>2. r \notin gone /\ r \notin reserved
    BY <1>4, AccountOf DEF Served
  <2>. QED
    BY <1>1, <1>4, <2>1, <2>2, AttemptKeeps
<1>5. CASE at[r] = "refused" /\ Becomes(Leaves(Admission, r, "over"))
  <2> DEFINE v == Leaves(Admission, r, "over")
  <2>1. Good(v) /\ Moves(Admission, v, r) /\ Coherent(v, r) /\ v.at[r] = "over"
    BY <1>2, LeavesSound
  <2>2. r \notin reserved
    BY <1>5, AccountOf DEF Served
  <2>3. Becomes(v)
    BY <1>5
  <2> HIDE DEF v
  <2>. QED
    BY <1>1, <2>1, <2>2, <2>3, OverKeeps
<1>. QED
  BY <1>3, <1>4, <1>5 DEF Deliver

LEMMA TimeOutAtGateKeeps ==
  ASSUME IInv, NEW r \in Request, TimeOutAtGate(r)
  PROVE  IInv'
<1> DEFINE u == LeaveGate(Admission, r)
           v == Put(u, r, "over")
<1>1. /\ at[r] = "gate" /\ Becomes(v)
      /\ UNCHANGED <<residency, waiting, reserved, serves, gone, due, blocked>>
  BY DEF TimeOutAtGate
<1>2. /\ Good(Admission) /\ "over" \in Places /\ Own(Admission, r)
      /\ uses[r] # None /\ r \notin slots /\ ~InLine(Admission, r) /\ r \notin reserved
  BY <1>1, AccountOf DEF IInv, Places, Inside, Served
<1>3. uses[r] \in Runtime
  BY <1>2, AdmissionFields DEF Good, AdmissionType
<1>4. /\ Good(u) /\ Moves(Admission, u, r) /\ u.line = line /\ u.slots = slots
      /\ \A x \in Runtime : r \notin u.gateSlots[x] /\ r \notin Members(u.gateLine[x])
  BY <1>2, <1>3, LeaveGateSound, AdmissionFields
<1> HIDE DEF u
<1>5. /\ Good(v) /\ Moves(u, v, r) /\ v.at = [u.at EXCEPT ![r] = "over"]
      /\ v.gateLine = u.gateLine /\ v.gateSlots = u.gateSlots
      /\ v.line = u.line /\ v.slots = u.slots
  BY <1>2, <1>4, PutSound
<1> HIDE DEF v
<1>6. v.at[r] = "over"
  BY <1>4, <1>5 DEF Good, AdmissionType
<1>7. Idle(v, r)
  BY <1>2, <1>4, <1>5, AdmissionFields DEF Idle, InLine
<1>8. Coherent(v, r)
  BY <1>7 DEF Idle, Coherent, Own, InLine
<1>9. Moves(Admission, v, r)
  BY <1>4, <1>5, UntouchedOnwards
<1>. QED
  BY <1>1, <1>2, <1>5, <1>6, <1>8, <1>9, OverKeeps

\* A step that does nothing to any request.
LEMMA NobodyMoves ==
  ASSUME IInv, NEW v, Becomes(v), Good(v), \A q \in Request : Untouched(Admission, v, q),
         Others', UNCHANGED <<reserved, serves, gone>>
  PROVE  IInv'
<1>1. Admission' = v
  BY BecomesAdmission DEF Good
<1>2. ASSUME NEW q \in Request
      PROVE  Account(v, gone', reserved', serves', q)
  <2>1. Account(Admission, gone, reserved, serves, q) /\ Untouched(Admission, v, q)
    BY DEF IInv
  <2>. QED
    BY <2>1, OthersKeep
<1>3. Good(Admission)' /\ \A q \in Request : Account(Admission, gone, reserved, serves, q)'
  BY <1>1, <1>2
<1>. QED
  BY <1>3 DEF IInv

LEMMA StartWaitKeeps ==
  ASSUME IInv, StartWait
  PROVE  IInv'
<1> DEFINE v == [Admission EXCEPT !.jobs = Tail(jobs)]
<1>1. /\ jobs # << >> /\ waiting' = waiting \cup {Head(jobs)} /\ Becomes(v)
      /\ UNCHANGED <<residency, reserved, serves, gone, due, blocked>>
  BY AdmissionFields DEF StartWait
<1>2. Good(Admission) /\ jobs \in Seq(Http)
  BY AdmissionFields DEF IInv, Good, AdmissionType
<1>3. Head(jobs) \in Http /\ Tail(jobs) \in Seq(Http)
  BY <1>1, <1>2
<1>4. /\ v \in AdmissionType
      /\ v.at = at /\ v.uses = uses /\ v.retried = retried
      /\ v.gateLine = gateLine /\ v.gateSlots = gateSlots
      /\ v.line = line /\ v.slots = slots
  BY <1>2, <1>3, AdmissionFields DEF Good, AdmissionType
<1> HIDE DEF v
<1>5. Good(v)
  BY <1>2, <1>4, FewerSlots, AdmissionFields
<1>6. \A q \in Request : Untouched(Admission, v, q)
  BY <1>4, AdmissionFields DEF Untouched, InLine
<1>7. Others'
  BY <1>1, <1>3 DEF IInv, Others, Residencies, residency
<1>. QED
  BY <1>1, <1>5, <1>6, <1>7, NobodyMoves

\* A step that leaves admission and memory alone preserves the invariant.
LEMMA StandingStill ==
  ASSUME IInv, UNCHANGED admission, Others', UNCHANGED <<reserved, serves, gone>>
  PROVE  IInv'
<1>1. Becomes(Admission)
  BY AdmissionFields DEF admission, Becomes
<1>2. \A q \in Request : Untouched(Admission, Admission, q)
  BY DEF Untouched
<1>3. Good(Admission)
  BY DEF IInv
<1>. QED
  BY <1>1, <1>2, <1>3, NobodyMoves

\* Whether r queues at the governor.
LEMMA QueuesInLine ==
  ASSUME IInv, NEW r \in Request
  PROVE  Queues(r) <=> InLine(Admission, r)
<1>1. KeyOf[r] \in Key /\ line \in [Key -> Seq(Request)] /\ Sorted(Admission)
  BY ExecutionAssumption, AdmissionFields DEF IInv, Good, AdmissionType
<1>2. Queues(r) <=> r \in Members(line[KeyOf[r]])
  BY DEF Queues, Members
<1>. QED
  BY <1>1, <1>2, AdmissionFields DEF Sorted, InLine

LEMMA EndWaitKeeps ==
  ASSUME IInv, NEW r \in Request, EndWait(r)
  PROVE  IInv'
<1>1. /\ r \in waiting /\ waiting' = waiting \ {r} /\ r \in Http
      /\ UNCHANGED <<residency, reserved, serves, gone, due, blocked>>
  BY DEF EndWait, IInv, Others
<1>2. Others'
  BY <1>1 DEF IInv, Others, Residencies, residency
<1>3. CASE ~Queues(r)
  <2>1. UNCHANGED admission
    BY <1>3, AdmissionFields DEF EndWait, Becomes, admission
  <2>. QED
    BY <1>1, <1>2, <2>1, StandingStill
<1>4. CASE Queues(r)
  <2> DEFINE k == KeyOf[r]
             u == Put(Admission, r, "refused")
             ln == [line EXCEPT ![k] = Without(line[k], r)]
             v == [u EXCEPT !.line = ln]
  <2>1. Good(Admission) /\ InLine(Admission, r) /\ "refused" \in Places
    BY <1>4, QueuesInLine DEF IInv, Places
  <2>2. at[r] = "governor" /\ r \notin slots /\ r \notin gone /\ r \notin reserved
        /\ Own(Admission, r)
    BY <2>1, AccountOf DEF Served
  <2>3. /\ Good(u) /\ Moves(Admission, u, r) /\ u.at = [at EXCEPT ![r] = "refused"]
        /\ u.uses = uses /\ u.retried = retried
        /\ u.gateLine = gateLine /\ u.gateSlots = gateSlots /\ u.line = line /\ u.slots = slots
    BY <2>1, PutSound, AdmissionFields
  <2>4. Becomes(v)
    <3>1. v = [u EXCEPT !.line[k] = Without(@, r)]
      BY <2>3
    <3>. QED
      BY <1>4, <3>1 DEF EndWait
  <2>5. k \in Key /\ line \in [Key -> Seq(Request)]
    BY <2>1, AdmissionFields, ExecutionAssumption DEF Good, AdmissionType
  <2>6. /\ Without(line[k], r) \in Seq(Request)
        /\ Members(Without(line[k], r)) = Members(line[k]) \ {r}
    BY <2>5, WithoutSound
  <2>7. /\ ln \in [Key -> Seq(Request)]
        /\ \A l \in Key : Members(ln[l]) = IF l = k THEN Members(line[l]) \ {r} ELSE Members(line[l])
    BY <2>5, <2>6
  <2> HIDE DEF u, ln
  <2>8. /\ v \in AdmissionType /\ v.at = u.at /\ v.uses = uses /\ v.retried = retried
        /\ v.gateLine = gateLine /\ v.gateSlots = gateSlots /\ v.line = ln /\ v.slots = slots
    BY <2>3, <2>7 DEF Good, AdmissionType
  <2> HIDE DEF v
  <2>9. Good(v)
    <3>1. \A l \in Key : Members(v.line[l]) \subseteq Members(Admission.line[l])
      BY <2>7, <2>8, AdmissionFields
    <3>. QED
      BY <2>1, <2>8, <3>1, FewerSlots, AdmissionFields
  <2>10. Moves(u, v, r)
    BY <2>3, <2>7, <2>8 DEF Moves, Untouched, InLine
  <2>11. Moves(Admission, v, r)
    BY <2>3, <2>10, UntouchedOnwards
  <2>12. ~InLine(v, r)
    BY <2>1, <2>7, <2>8, AdmissionFields DEF Good, Sorted, InLine
  <2>13. v.at[r] = "refused"
    BY <2>1, <2>3, <2>8, AdmissionFields DEF Good, AdmissionType
  <2>14. Own(v, r)
    BY <2>2, <2>8, <2>12, AdmissionFields DEF Own
  <2>15. Coherent(v, r)
    BY <2>2, <2>8, <2>12, <2>13, <2>14, AccountOf DEF Coherent, Inside
  <2>16. Account(v, gone', reserved', serves', r)
    BY <1>1, <2>2, <2>13, <2>15 DEF Account, Ready
  <2>. QED
    BY <1>1, <1>2, <2>4, <2>9, <2>11, <2>16, StepKeeps
<1>. QED
  BY <1>3, <1>4

\* r asks the governor.
LEMMA AcquireSubmits ==
  ASSUME IInv, NEW r \in Request, Idle(Admission, r), Resolves(r)
  PROVE  LET v == Submitted([Admission EXCEPT !.uses[r] = Current(r)], r)
         IN  /\ Good(v) /\ Moves(Admission, v, r) /\ Coherent(v, r)
             /\ v.at[r] = "governor" /\ v.uses[r] = Current(r)
<1> DEFINE u == [Admission EXCEPT !.uses[r] = Current(r)]
           v == Submitted(u, r)
<1>1. Current(r) \in Runtime /\ Good(Admission)
  BY CurrentIsRuntime DEF IInv, Others
<1>2. Good(u) /\ Moves(Admission, u, r) /\ Idle(u, r) /\ u.uses[r] = Current(r)
  BY <1>1, UsesSound
<1> HIDE DEF u
<1>3. Own(u, r) /\ r \notin u.slots /\ \A x \in Runtime : r \notin Members(u.gateLine[x])
  BY <1>2 DEF Idle, Own
<1>4. /\ Good(v) /\ Moves(u, v, r) /\ v.at[r] = "governor" /\ Coherent(v, r)
      /\ v.uses = u.uses
  BY <1>1, <1>2, <1>3, SubmittedSound
<1>5. Moves(Admission, v, r)
  <2> HIDE DEF v
  <2>. QED
    BY <1>2, <1>4, UntouchedOnwards
<1>. QED
  BY <1>2, <1>4, <1>5 DEF u

LEMMA AcquireKeeps ==
  ASSUME IInv, NEW r \in Request, Acquire(r)
  PROVE  IInv'
<1>1. /\ r \in Direct /\ at[r] = "new" /\ Resolves(r) /\ blocked' \in Transcription \cup {None}
      /\ UNCHANGED <<residency, waiting, reserved, serves, gone, due>>
  BY DEF Acquire, IInv, Others
<1>2. Others'
  BY <1>1 DEF IInv, Others, Residencies, residency
<1>3. /\ r \notin gone /\ r \notin reserved /\ r \notin Http
      /\ Idle(Admission, r) /\ "over" \in Places
  BY <1>1, AccountOf, AdmissionFields, ExecutionAssumption DEF Idle, Inside, Served, Places
<1>4. CASE Becomes(Submitted([Admission EXCEPT !.uses[r] = Current(r)], r))
  <2> DEFINE v == Submitted([Admission EXCEPT !.uses[r] = Current(r)], r)
  <2>1. Good(v) /\ Moves(Admission, v, r) /\ v.at[r] = "governor" /\ Coherent(v, r)
    BY <1>1, <1>3, AcquireSubmits
  <2>2. Becomes(v)
    BY <1>4
  <2> HIDE DEF v
  <2>3. Account(v, gone', reserved', serves', r)
    BY <1>1, <1>3, <2>1 DEF Account, Ready
  <2>. QED
    BY <1>1, <1>2, <2>1, <2>2, <2>3, StepKeeps
<1>5. CASE Becomes(Put(Admission, r, "over"))
  <2>1. ASSUME NEW v, Placed(v, r, "over")
        PROVE  Account(v, gone', reserved', serves', r)
    <3>1. Idle(v, r)
      BY <1>3, <2>1 DEF Placed
    <3>. QED
      BY <1>1, <1>3, <2>1, <3>1 DEF Placed, Account, Coherent, Own, Idle, Ready
  <2>. QED
    BY <1>1, <1>2, <1>3, <1>5, <2>1, PutKeeps
<1>. QED
  BY <1>4, <1>5 DEF Acquire

LEMMA ChangeResidencyKeeps ==
  ASSUME IInv, NEW k \in Key, ChangeResidency(k)
  PROVE  IInv'
<1>1. UNCHANGED <<admission, waiting, reserved, serves, gone, due, blocked>>
  BY DEF ChangeResidency
<1>2. resident' \in [Key -> Nat] /\ made' \in [Key -> Nat] /\ Residencies'
  <2>1. /\ resident \in [Key -> Nat] /\ made \in [Key -> Nat] /\ Residencies
        /\ MaxResidency \in [Key -> Nat]
    BY ExecutionAssumption DEF IInv, Others
  <2>2. CASE resident' = [resident EXCEPT ![k] = 0] /\ UNCHANGED made
    BY <2>1, <2>2 DEF Residencies
  <2>3. CASE /\ made[k] < MaxResidency[k] /\ made' = [made EXCEPT ![k] = @ + 1]
             /\ resident' = [resident EXCEPT ![k] = made[k] + 1]
    <3>1. /\ made[k] + 1 \in 0..MaxResidency[k] /\ made[k] + 1 \in Nat
          /\ \A l \in Key : made'[l] = (IF l = k THEN made[k] + 1 ELSE made[l])
          /\ \A l \in Key : resident'[l] = (IF l = k THEN made[k] + 1 ELSE resident[l])
      BY <2>1, <2>3
    <3>. QED
      BY <2>1, <2>3, <3>1 DEF Residencies
  <2>. QED
    BY <2>2, <2>3 DEF ChangeResidency
<1>3. Others'
  BY <1>1, <1>2 DEF IInv, Others
<1>. QED
  BY <1>1, <1>3, StandingStill

LEMMA LapseKeeps ==
  ASSUME IInv, NEW r \in Request, Lapse(r)
  PROVE  IInv'
<1>1. /\ UNCHANGED <<admission, residency, waiting, reserved, serves, gone, blocked>>
      /\ due' = due \cup {r} /\ r \in Timed
  BY DEF Lapse
<1>2. Others'
  BY <1>1 DEF IInv, Others, Residencies, residency
<1>. QED
  BY <1>1, <1>2, StandingStill

-----------------------------------------------------------------------------
(* The theorems.                                                            *)

\* An empty line has no members.
LEMMA MembersOfNothing == Members(<< >>) = {}
BY DEF Members

\* Initially nobody has anything.
LEMMA InitHolds ==
  ASSUME Init
  PROVE  IInv
<1>1. Admission \in AdmissionType
  <2>1. at \in [Request -> Places] /\ uses \in [Request -> Runtime \cup {None}]
    BY DEF Init, Places
  <2>2. /\ gateLine \in [Runtime -> Seq(Http)] /\ gateSlots \in [Runtime -> SUBSET Http]
        /\ line \in [Key -> Seq(Request)]
    BY DEF Init
  <2>3. retried \in SUBSET Http /\ order \in Seq(Key) /\ slots \in SUBSET Request /\ jobs \in Seq(Http)
    BY DEF Init
  <2>. QED
    BY <2>1, <2>2, <2>3 DEF Admission, AdmissionType
<1>2. /\ \A x \in Runtime : gateSlots[x] = {} /\ Members(gateLine[x]) = {}
      /\ \A k \in Key : Members(line[k]) = {}
      /\ slots = {}
  BY MembersOfNothing DEF Init
<1>3. Counted(Admission)
  <2>1. \A k \in Key : Of(Admission, k) = {}
    BY <1>2, AdmissionFields DEF Of
  <2>2. Cardinality({}) = 0
    BY FS_EmptySet
  <2>3. 0 <= GlobalSlots /\ \A k \in Key : 0 <= Cap[k]
    BY ExecutionAssumption
  <2>. QED
    BY <1>2, <2>1, <2>2, <2>3, AdmissionFields DEF Counted
<1>4. Good(Admission)
  BY <1>1, <1>2, <1>3, AdmissionFields DEF Good, Sorted
<1>5. ASSUME NEW q \in Request
      PROVE  Account(Admission, gone, reserved, serves, q)
  <2>1. Idle(Admission, q)
    BY <1>2, AdmissionFields DEF Idle, InLine
  <2>2. at[q] = "new" /\ uses[q] = None /\ q \notin gone /\ q \notin reserved
    BY DEF Init
  <2>. QED
    BY <2>1, <2>2, AdmissionFields DEF Account, Coherent, Own, Idle, InLine, Ready
<1>6. Others
  <2>1. Total(Need, {}) = 0
    BY FS_EmptySet, TotalUnfolds
  <2>2. \A k \in Key : MaxResidency[k] \in Nat
    BY ExecutionAssumption
  <2>. QED
    BY <2>1, <2>2, ExecutionAssumption DEF Init, Others, Residencies
<1>. QED
  BY <1>4, <1>5, <1>6 DEF IInv

\* Every step preserves the invariant.
LEMMA NextKeeps ==
  ASSUME IInv, [Next]_vars
  PROVE  IInv'
<1>1. CASE UNCHANGED vars
  <2>1. /\ UNCHANGED admission /\ UNCHANGED <<reserved, serves, gone>>
        /\ UNCHANGED <<residency, waiting, due, blocked>>
    BY <1>1 DEF vars
  <2>2. Others'
    BY <2>1 DEF IInv, Others, Residencies, residency
  <2>. QED
    BY <2>1, <2>2, StandingStill
<1>2. ASSUME NEW r \in Request, Step(r)
      PROVE  IInv'
  BY <1>2, ScheduleKeeps, PassGateKeeps, TimeOutAtGateKeeps, EndWaitKeeps, DeliverKeeps,
     ProceedKeeps, ReserveKeeps, HandleKeeps, HandleFailsKeeps, StartBodyKeeps, ExecuteKeeps,
     FinishKeeps, ReturnMemoryKeeps, ReturnSlotsKeeps DEF Step
<1>3. ASSUME NEW r \in Request, Arrive(r) \/ Acquire(r) \/ LoseBody(r) \/ Cancel(r) \/ Lapse(r)
      PROVE  IInv'
  BY <1>3, ArriveKeeps, AcquireKeeps, LoseBodyKeeps, CancelKeeps, LapseKeeps
<1>. QED
  BY <1>1, <1>2, <1>3, StartWaitKeeps, ChangeResidencyKeeps DEF Next

\* The accounts of all requests, the lines and the ledger agree in every reachable
\* state: what a request has belongs to the place in the stack of middlewares where
\* it is.
THEOREM InvariantHolds == Spec => []IInv
BY InitHolds, NextKeeps, PTL DEF Spec

\* Every variable keeps the type the source declares for it.
THEOREM TypeCorrect == Spec => []TypeOK
<1>1. ASSUME IInv
      PROVE  TypeOK
  BY <1>1, AdmissionFields DEF IInv, Others, Residencies, Good, AdmissionType, TypeOK
<1>. QED
  BY <1>1, InvariantHolds, PTL

\* Who has left, at whatever place and in either attempt, keeps no slot or place of
\* any gate, none of the governor and no memory; who has not, at most the gate of the
\* present attempt.
THEOREM NothingIsKept == Spec => []NothingKept
<1>1. ASSUME IInv, NEW r \in Request
      PROVE  /\ \A x \in Runtime : r \in gateSlots[x] \/ r \in Members(gateLine[x]) =>
                  ~Left(r) /\ x = uses[r]
             /\ Left(r) => r \notin slots \cup reserved /\ ~Queues(r)
  <2>1. /\ Own(Admission, r)
        /\ \A x \in Runtime : r \in gateSlots[x] \/ r \in Members(gateLine[x]) =>
             at[r] \in Inside \cup {"gate"}
        /\ InLine(Admission, r) => at[r] = "governor"
        /\ r \in slots => at[r] \in Inside
        /\ r \in gone => Idle(Admission, r)
        /\ r \in reserved => at[r] \in Served /\ r \notin gone
    BY <1>1, AccountOf
  <2>2. r \in gone => /\ \A x \in Runtime : r \notin gateSlots[x] /\ r \notin Members(gateLine[x])
                      /\ ~InLine(Admission, r) /\ r \notin slots
    BY <2>1, AdmissionFields DEF Idle
  <2>3. \A x \in Runtime : r \in gateSlots[x] \/ r \in Members(gateLine[x]) => x = uses[r]
    BY <2>1, AdmissionFields DEF Own
  <2>4. Queues(r) <=> InLine(Admission, r)
    BY <1>1, QueuesInLine
  <2>. QED
    BY <2>1, <2>2, <2>3, <2>4 DEF Left, Inside, Served
<1>2. ASSUME IInv
      PROVE  NothingKept
  <2>1. \A r \in Request : \A x \in Runtime :
          r \in Members(gateLine[x]) <=> \E i \in 1..Len(gateLine[x]) : gateLine[x][i] = r
    BY DEF Members
  <2>. QED
    BY <1>1, <1>2, <2>1 DEF NothingKept
<1>. QED
  BY <1>2, InvariantHolds, PTL

\* Requests of the same runtime, all with a slot, and one of them still waits.
LEMMA RoomBesideWaiter ==
  ASSUME IInv, NEW r \in slots, at[r] = "leased", Executing(serves[r]) \subseteq slots
  PROVE  Cardinality(Executing(serves[r])) < Cap[KeyOf[r]]
<1> DEFINE k == KeyOf[r]
           others == Executing(serves[r])
           all == Of(Admission, k)
<1>1. slots \in SUBSET Request /\ r \in Request /\ k \in Key /\ Cap[k] \in Nat
  BY AdmissionFields, ExecutionAssumption DEF IInv, Good, AdmissionType
<1>2. serves[r][1] = k
  BY <1>1, AccountOf
<1>3. others \subseteq all \ {r}
  <2>1. ASSUME NEW q \in others
        PROVE  q \in all \ {r}
    <3>1. q \in Request /\ at[q] = "executing" /\ serves[q] = serves[r] /\ q \in slots
      BY DEF Executing
    <3>2. serves[q][1] = KeyOf[q]
      BY <3>1, AccountOf
    <3>. QED
      BY <1>2, <3>1, <3>2, AdmissionFields DEF Of
  <2>. QED
    BY <2>1
<1>4. all \in SUBSET Request /\ r \in all /\ Cardinality(all) <= Cap[k]
  BY <1>1, AdmissionFields DEF Of, IInv, Good, Counted
<1> HIDE DEF others, all
<1>5. /\ IsFiniteSet(all) /\ Cardinality(all) \in Nat
      /\ all \ {r} \in SUBSET Request /\ others \in SUBSET Request
  BY <1>3, <1>4, RequestsAreFinite
<1>6. Cardinality(all \ {r}) = Cardinality(all) - 1
  BY <1>4, <1>5, FS_RemoveElement
<1>7. IsFiniteSet(all \ {r})
  BY <1>5, RequestsAreFinite
<1>8. Cardinality(others) <= Cardinality(all \ {r}) /\ Cardinality(others) \in Nat
  BY <1>3, <1>5, <1>7, RequestsAreFinite, FS_Subset
<1>. QED
  BY <1>1, <1>4, <1>5, <1>6, <1>8 DEF others

\* Who executes after an admission has a slot of the governor, at most
\* global_max_running have one, and none of those waits at a semaphore unless requests
\* without one are before it.
THEOREM SlotsAreWell == Spec => []SlotsAreWorth
<1>1. ASSUME IInv
      PROVE  SlotsAreWorth
  <2>1. Cardinality(slots) <= GlobalSlots
    BY <1>1, AdmissionFields DEF IInv, Good, Counted
  <2>2. \A r \in Request :
          at[r] \in {"leased", "executing"} /\ uses[r] # None /\ r \notin gone => r \in slots
    BY <1>1, AccountOf DEF Ready
  <2>. QED
    BY <1>1, <2>1, <2>2, RoomBesideWaiter DEF SlotsAreWorth
<1>. QED
  BY <1>1, InvariantHolds, PTL

-----------------------------------------------------------------------------
(* Memory.                                                                  *)

\* q has asked for a residency there was.  Whoever comes to the handler of the runtime
\* it was admitted for has its memory, and keeps it there.
Endowed(q) ==
  /\ uses[q] # None => uses[q][2] <= made[KeyOf[q]]
  /\ Need[q] # None /\ q \notin gone =>
       /\ at[q] = "route" /\ uses[q] # None /\ uses[q] = Current(q) => q \in reserved
       /\ ServedAsAdmitted(q) => q \in reserved

MemoryInv == IInv /\ \A q \in Request : Endowed(q)

\* A runtime that a request uses is one of the residencies there were.
LEMMA CurrentIsMade ==
  ASSUME IInv, NEW q \in Request
  PROVE  /\ Current(q)[2] = resident[KeyOf[q]] /\ resident[KeyOf[q]] <= made[KeyOf[q]]
         /\ resident[KeyOf[q]] \in Nat /\ made[KeyOf[q]] \in Nat
         /\ uses[q] \in Runtime \cup {None}
         /\ uses[q] # None /\ uses[q] = Current(q) => Resolves(q)
<1>1. KeyOf[q] \in Key /\ uses[q] \in Runtime \cup {None}
  BY ExecutionAssumption, AdmissionFields DEF IInv, Good, AdmissionType
<1>2. resident[KeyOf[q]] \in 0..made[KeyOf[q]] /\ made[KeyOf[q]] \in Nat
  BY <1>1 DEF IInv, Others, Residencies
<1>3. \A x \in Runtime : x[2] # 0
  BY ExecutionAssumption DEF Runtime
<1>. QED
  BY <1>1, <1>2, <1>3 DEF Current, Resolves

\* A move of r leaves the others' memory alone.
LEMMA MemoryByMove ==
  ASSUME MemoryInv, NEW r \in Request, NEW v, Becomes(v), Moves(Admission, v, r),
         UNCHANGED residency,
         \A q \in Request \ {r} :
           (q \in gone' <=> q \in gone) /\ (q \in reserved' <=> q \in reserved)
           /\ serves'[q] = serves[q],
         v.uses[r] \in {uses[r], Current(r), None},
         Need[r] # None /\ r \notin gone' =>
           /\ v.at[r] = "route" /\ v.uses[r] # None /\ v.uses[r] = Current(r) => r \in reserved'
           /\ v.at[r] \in {"body", "leased", "executing"} /\ serves'[r] = v.uses[r] =>
                r \in reserved'
  PROVE  \A q \in Request : Endowed(q)'
<1>1. at' = v.at /\ uses' = v.uses /\ resident' = resident /\ made' = made
  BY DEF Becomes, residency
<1>2. \A q \in Request : Current(q)' = Current(q)
  BY <1>1 DEF Current
<1>3. ASSUME NEW q \in Request \ {r}
      PROVE  Endowed(q)'
  <2>1. v.at[q] = at[q] /\ v.uses[q] = uses[q] /\ Endowed(q)
    BY <1>3, AdmissionFields DEF Moves, Untouched, MemoryInv
  <2>. QED
    BY <1>1, <1>2, <1>3, <2>1 DEF Endowed, ServedAsAdmitted
<1>4. Endowed(r)'
  <2>1. v.uses[r] # None => v.uses[r][2] <= made[KeyOf[r]]
    BY CurrentIsMade DEF MemoryInv, Endowed
  <2>. QED
    BY <1>1, <1>2, <2>1 DEF Endowed, ServedAsAdmitted
<1>. QED
  BY <1>3, <1>4

\* A request that is put elsewhere.
LEMMA MemoryByPut ==
  ASSUME MemoryInv, NEW r \in Request, NEW p \in Places, Becomes(Put(Admission, r, p)),
         UNCHANGED residency,
         \A q \in Request \ {r} :
           (q \in gone' <=> q \in gone) /\ (q \in reserved' <=> q \in reserved)
           /\ serves'[q] = serves[q],
         Need[r] # None /\ r \notin gone' =>
           /\ p = "route" /\ uses[r] # None /\ uses[r] = Current(r) => r \in reserved'
           /\ p \in {"body", "leased", "executing"} /\ serves'[r] = uses[r] => r \in reserved'
  PROVE  \A q \in Request : Endowed(q)'
<1> DEFINE v == Put(Admission, r, p)
<1>1. /\ Good(Admission) /\ Moves(Admission, v, r) /\ v.at = [at EXCEPT ![r] = p]
      /\ v.uses = uses
  BY PutSound, AdmissionFields DEF MemoryInv, IInv
<1>2. v.at[r] = p
  BY <1>1, AdmissionFields DEF Good, AdmissionType
<1> HIDE DEF v
<1>. QED
  BY <1>1, <1>2, MemoryByMove DEF v

\* Where nobody changes place and no model is loaded, everybody keeps the same memory.
LEMMA MemoryAtRest ==
  ASSUME MemoryInv, UNCHANGED <<at, uses, residency, reserved, serves, gone>>
  PROVE  \A q \in Request : Endowed(q)'
BY DEF MemoryInv, Endowed, ServedAsAdmitted, Current, residency

\* The steps of a request in its handler and behind it.
LEMMA MemoryInHandler ==
  ASSUME MemoryInv, NEW r \in Request,
         \/ Proceed(r) \/ HandleFails(r) \/ LoseBody(r) \/ Execute(r) \/ Arrive(r)
         \/ Reserve(r) \/ Handle(r) \/ StartBody(r) \/ Finish(r) \/ ReturnMemory(r)
  PROVE  \A q \in Request : Endowed(q)'
<1>1. IInv /\ Endowed(r)
  BY DEF MemoryInv
<1>2. serves \in [Request -> Runtime \cup {None}]
  BY <1>1 DEF IInv, Others
<1>3. CASE Proceed(r) \/ HandleFails(r) \/ LoseBody(r)
  <2>1. \E p \in {"admitted", "answered", "responded", "lost"} : Becomes(Put(Admission, r, p))
    BY <1>3 DEF Proceed, HandleFails, LoseBody
  <2>2. UNCHANGED <<residency, reserved, serves, gone>>
    BY <1>3 DEF Proceed, HandleFails, LoseBody
  <2>. QED
    BY <2>1, <2>2, MemoryByPut DEF Places
<1>4. CASE Execute(r)
  <2>1. /\ at[r] = "leased" /\ Becomes(Put(Admission, r, "executing"))
        /\ UNCHANGED <<residency, reserved, serves, gone>>
    BY <1>4 DEF Execute
  <2>. QED
    BY <1>1, <2>1, MemoryByPut DEF Places, Endowed, ServedAsAdmitted
<1>5. CASE Arrive(r)
  <2>1. /\ at[r] = "new" /\ \E p \in {"prepared", "route"} : Becomes(Put(Admission, r, p))
        /\ UNCHANGED <<residency, reserved, serves, gone>>
    BY <1>5 DEF Arrive
  <2>. QED
    BY <1>1, <2>1, AccountOf, MemoryByPut DEF Places
<1>6. CASE Reserve(r)
  <2> DEFINE free == Need[r] = None \/ (r \in Http /\ ~Resolves(r))
             p == IF free \/ Fits(r) THEN "route" ELSE "answered"
  <2>1. /\ reserved' = IF ~free /\ Fits(r) THEN reserved \cup {r} ELSE reserved
        /\ Becomes(Put(Admission, r, p)) /\ p \in Places
        /\ UNCHANGED <<residency, serves, gone>>
    BY <1>6 DEF Reserve, Places
  <2>2. uses[r] # None /\ uses[r] = Current(r) => Resolves(r)
    BY <1>1, CurrentIsMade
  <2>. QED
    BY <2>1, <2>2, MemoryByPut
<1>7. CASE Handle(r)
  <2>1. /\ at[r] = "route" /\ Resolves(r) /\ serves' = [serves EXCEPT ![r] = Current(r)]
        /\ \E p \in {"body", "leased"} : Becomes(Put(Admission, r, p))
        /\ UNCHANGED <<residency, reserved, gone>>
    BY <1>7 DEF Handle, Servable
  <2>2. Current(r) \in Runtime /\ None \notin Runtime
    BY <1>1, <2>1, CurrentIsRuntime, ExecutionAssumption DEF IInv, Others
  <2>3. serves'[r] = Current(r) /\ \A q \in Request \ {r} : serves'[q] = serves[q]
    BY <1>2, <2>1
  <2>. QED
    BY <1>1, <2>1, <2>2, <2>3, MemoryByPut DEF Places, Endowed
<1>8. CASE StartBody(r)
  <2>1. /\ at[r] = "body" /\ UNCHANGED <<residency, reserved, gone>>
        /\ \/ serves' = serves /\ Becomes(Put(Admission, r, "leased"))
           \/ /\ serves' = [serves EXCEPT ![r] = None]
              /\ Becomes(Put(Admission, r, "responded"))
    BY <1>8 DEF StartBody
  <2>2. \A q \in Request \ {r} : serves'[q] = serves[q]
    BY <1>2, <2>1
  <2>. QED
    BY <1>1, <2>1, <2>2, MemoryByPut DEF Places, Endowed, ServedAsAdmitted
<1>9. CASE Finish(r)
  <2>1. /\ serves' = [serves EXCEPT ![r] = None] /\ UNCHANGED <<residency, reserved, gone>>
        /\ \E p \in {"over", "responded"} : Becomes(Put(Admission, r, p))
    BY <1>9 DEF Finish
  <2>2. \A q \in Request \ {r} : serves'[q] = serves[q]
    BY <1>2, <2>1
  <2>. QED
    BY <2>1, <2>2, MemoryByPut DEF Places
<1>10. CASE ReturnMemory(r)
  <2>1. /\ reserved' = reserved \ {r} /\ UNCHANGED <<residency, serves, gone>>
        /\ Becomes(Put(Admission, r, "answered"))
    BY <1>10 DEF ReturnMemory
  <2>. QED
    BY <2>1, MemoryByPut DEF Places
<1>. QED
  BY <1>3, <1>4, <1>5, <1>6, <1>7, <1>8, <1>9, <1>10

\* The steps of a request up to its admission, and those by which it leaves.
LEMMA MemoryInLine ==
  ASSUME MemoryInv, NEW r \in Request,
         \/ Schedule(r) \/ PassGate(r) \/ TimeOutAtGate(r) \/ EndWait(r) \/ Deliver(r)
         \/ Acquire(r) \/ ReturnSlots(r) \/ Cancel(r)
  PROVE  \A q \in Request : Endowed(q)'
<1>1. IInv /\ Good(Admission) /\ Own(Admission, r) /\ Residencies
  BY AccountOf DEF MemoryInv, IInv, Others
<1>2. CASE \E v : /\ Becomes(v) /\ Attempted(Admission, v, r)
                  /\ UNCHANGED <<residency, reserved, serves, gone>>
  <2>1. PICK v : /\ Becomes(v) /\ Attempted(Admission, v, r)
                 /\ UNCHANGED <<residency, reserved, serves, gone>>
    BY <1>2
  <2>2. /\ Moves(Admission, v, r) /\ v.at[r] \in {"admitted", "gate", "governor", "over"}
        /\ v.uses[r] \in {uses[r], Current(r), None}
    BY <2>1, AdmissionFields DEF Attempted
  <2>. QED
    BY <2>1, <2>2, MemoryByMove
<1>3. CASE Schedule(r) \/ PassGate(r)
  <2>1. UNCHANGED <<residency, reserved, serves, gone>>
    BY <1>3 DEF Schedule, PassGate
  <2>. QED
    BY <1>1, <1>2, <1>3, <2>1, ScheduleAttempts, PassGateAttempts
<1>4. CASE TimeOutAtGate(r) \/ EndWait(r)
  <2>1. /\ at' = at \/ \E p \in {"over", "refused"} : at' = [at EXCEPT ![r] = p]
        /\ UNCHANGED <<uses, residency, reserved, serves, gone>>
    BY <1>4, AdmissionFields
       DEF TimeOutAtGate, EndWait, Becomes, Put, LeaveGate, Admission
  <2>2. at \in [Request -> Places]
    BY <1>1, AdmissionFields DEF Good, AdmissionType
  <2>3. ASSUME NEW q \in Request
        PROVE  Endowed(q)'
    <3>1. Endowed(q) /\ (at'[q] = at[q] \/ at'[q] \in {"over", "refused"})
      BY <2>1, <2>2 DEF MemoryInv
    <3>. QED
      BY <2>1, <3>1 DEF Endowed, ServedAsAdmitted, Current, residency
  <2>. QED
    BY <2>3
<1>5. CASE Deliver(r)
  <2>1. r \in Http /\ UNCHANGED <<residency, reserved, serves, gone>>
    BY <1>5 DEF Deliver
  <2>2. CASE Becomes(Put(Admission, r, "admitted"))
    BY <2>1, <2>2, MemoryByPut DEF Places
  <2>3. CASE Becomes(Again(Admission, r))
    BY <1>1, <1>2, <2>1, <2>3, AgainSound
  <2>4. CASE Becomes(Leaves(Admission, r, "over"))
    <3> DEFINE v == Leaves(Admission, r, "over")
    <3>1. Moves(Admission, v, r) /\ v.at[r] = "over" /\ v.uses = uses
      BY <1>1, LeavesSound, AdmissionFields DEF Places
    <3> HIDE DEF v
    <3>. QED
      BY <2>1, <2>4, <3>1, MemoryByMove DEF v
  <2>. QED
    BY <1>5, <2>2, <2>3, <2>4 DEF Deliver
<1>6. CASE Acquire(r)
  <2>1. /\ r \in Direct /\ Resolves(r) /\ at[r] = "new"
        /\ UNCHANGED <<residency, reserved, serves, gone>>
    BY <1>6 DEF Acquire
  <2>2. CASE Becomes(Put(Admission, r, "over"))
    BY <2>1, <2>2, MemoryByPut DEF Places
  <2>3. CASE Becomes(Submitted([Admission EXCEPT !.uses[r] = Current(r)], r))
    <3> DEFINE v == Submitted([Admission EXCEPT !.uses[r] = Current(r)], r)
    <3>1. Idle(Admission, r)
      BY <1>1, <2>1, AccountOf, AdmissionFields DEF Idle, Inside
    <3>2. Moves(Admission, v, r) /\ v.at[r] = "governor" /\ v.uses[r] = Current(r)
      BY <1>1, <2>1, <3>1, AcquireSubmits
    <3>3. Becomes(v)
      BY <2>3
    <3> HIDE DEF v
    <3>. QED
      BY <2>1, <3>2, <3>3, MemoryByMove
  <2>. QED
    BY <1>6, <2>2, <2>3 DEF Acquire
<1>7. CASE ReturnSlots(r) \/ Cancel(r)
  <2>1. PICK p \in Places : /\ Becomes(Leaves(Admission, r, p))
                            /\ p = "over" \/ r \in gone'
    BY <1>7 DEF ReturnSlots, Cancel, Places
  <2>2. /\ UNCHANGED <<residency, serves>>
        /\ \A q \in Request \ {r} : (q \in gone' <=> q \in gone) /\ (q \in reserved' <=> q \in reserved)
    BY <1>7 DEF ReturnSlots, Cancel
  <2> DEFINE v == Leaves(Admission, r, p)
  <2>3. Moves(Admission, v, r) /\ v.at[r] = p /\ v.uses = uses
    BY <1>1, LeavesSound, AdmissionFields
  <2> HIDE DEF v
  <2>. QED
    BY <2>1, <2>2, <2>3, MemoryByMove DEF v
<1>. QED
  BY <1>3, <1>4, <1>5, <1>6, <1>7

\* A residency that is new is not the one a request was admitted for.
LEMMA MemoryAcrossLoads ==
  ASSUME MemoryInv, NEW k \in Key, ChangeResidency(k)
  PROVE  \A q \in Request : Endowed(q)'
<1>1. UNCHANGED <<at, uses, reserved, serves, gone>>
  BY DEF ChangeResidency, admission
<1>2. ASSUME NEW q \in Request
      PROVE  Endowed(q)'
  <2>1. /\ Current(q)[2] = resident[KeyOf[q]] /\ made[KeyOf[q]] \in Nat
        /\ resident \in [Key -> Nat] /\ made \in [Key -> Nat]
        /\ uses[q] \in Runtime \cup {None} /\ Endowed(q) /\ KeyOf[q] \in Key
    BY CurrentIsMade, ExecutionAssumption DEF MemoryInv, IInv, Others
  <2>2. \A x \in Runtime : x[2] \in Nat /\ x[2] # 0
    BY ExecutionAssumption DEF Runtime
  <2>3. /\ made'[KeyOf[q]] \in Nat /\ made[KeyOf[q]] <= made'[KeyOf[q]]
        /\ resident'[KeyOf[q]] \in {resident[KeyOf[q]], 0, made[KeyOf[q]] + 1}
    BY <2>1 DEF ChangeResidency
  <2>4. uses[q] # None => uses[q][2] \in Nat /\ uses[q][2] # 0 /\ uses[q][2] <= made[KeyOf[q]]
    BY <2>1, <2>2 DEF Endowed
  <2>5. uses[q] # None /\ uses[q] = Current(q)' => uses[q] = Current(q)
    <3>1. Current(q)' = <<KeyOf[q], resident'[KeyOf[q]]>>
      BY DEF Current
    <3>2. ASSUME uses[q] # None, uses[q] = Current(q)'
          PROVE  resident'[KeyOf[q]] = resident[KeyOf[q]]
      BY <2>1, <2>3, <2>4, <3>1, <3>2
    <3>. QED
      BY <3>1, <3>2 DEF Current
  <2>. QED
    BY <1>1, <2>1, <2>3, <2>4, <2>5 DEF Endowed, ServedAsAdmitted
<1>. QED
  BY <1>2

\* Every step leaves those who are served as they were admitted their memory.
LEMMA MemoryKeeps ==
  ASSUME MemoryInv, [Next]_vars
  PROVE  MemoryInv'
<1>1. IInv'
  BY NextKeeps DEF MemoryInv
<1>2. ASSUME NEW r \in Request, Step(r) \/ Arrive(r) \/ Acquire(r) \/ LoseBody(r) \/ Cancel(r)
      PROVE  \A q \in Request : Endowed(q)'
  BY <1>2, MemoryInHandler, MemoryInLine DEF Step
<1>3. CASE StartWait \/ \E r \in Request : Lapse(r)
  <2>1. UNCHANGED <<at, uses, residency, reserved, serves, gone>>
    BY <1>3, AdmissionFields DEF StartWait, Lapse, admission, Becomes, Admission
  <2>. QED
    BY <1>1, <2>1, MemoryAtRest DEF MemoryInv
<1>4. CASE UNCHANGED vars
  BY <1>1, <1>4, MemoryAtRest DEF MemoryInv, vars, admission
<1>5. CASE \E k \in Key : ChangeResidency(k)
  BY <1>1, <1>5, MemoryAcrossLoads DEF MemoryInv
<1>. QED
  BY <1>1, <1>2, <1>3, <1>4, <1>5 DEF Next, MemoryInv

\* Transient memory is reserved within the budget, for nobody who still waits for
\* admission, and for everybody with an estimate who is served by the runtime he was
\* admitted for, until his execution or his stream has ended, however late its body is
\* iterated, whatever is loaded and unloaded meanwhile, and whoever else is cancelled.
THEOREM MemoryFollows == Spec => []MemoryFollowsAdmission
<1>1. Init => MemoryInv
  BY InitHolds DEF Init, MemoryInv, Endowed, ServedAsAdmitted
<1>2. MemoryInv /\ [Next]_vars => MemoryInv'
  BY MemoryKeeps
<1>3. ASSUME MemoryInv
      PROVE  MemoryFollowsAdmission
  <2>1. IInv /\ Total(Need, reserved) <= Budget /\ \A r \in reserved : r \in Request
    BY <1>3 DEF MemoryInv, IInv, Others
  <2>2. \A r \in reserved : at[r] \in Served
    BY <2>1, AccountOf
  <2>3. \A r \in Request \ gone : ServedAsAdmitted(r) /\ Need[r] # None => r \in reserved
    BY <1>3 DEF MemoryInv, Endowed
  <2>. QED
    BY <2>1, <2>2, <2>3 DEF MemoryFollowsAdmission, Served
<1>. QED
  BY <1>1, <1>2, <1>3, PTL DEF Spec

-----------------------------------------------------------------------------
(* Deadlines.                                                               *)

\* A late request is not put into a line.
Late(q) == at'[q] \in {"gate", "governor"} => at'[q] = at[q] /\ uses'[q] = uses[q]

NobodyLateQueues == \A q \in due : Late(q)

\* A move of one request puts nobody who is late into a line, if it does not put this one.
LEMMA LateByMove ==
  ASSUME IInv, NEW r \in Request, NEW v, Becomes(v), Moves(Admission, v, r),
         r \in due => v.at[r] \notin {"gate", "governor"}
  PROVE  NobodyLateQueues
<1>1. at' = v.at /\ uses' = v.uses
  BY DEF Becomes
<1>2. ASSUME NEW q \in due
      PROVE  Late(q)
  <2>1. q \in Request
    BY ExecutionAssumption DEF IInv, Others, Request
  <2>2. CASE q = r
    BY <1>1, <2>2 DEF Late
  <2>3. CASE q # r
    <3>1. v.at[q] = at[q] /\ v.uses[q] = uses[q]
      BY <2>1, <2>3, AdmissionFields DEF Moves, Untouched
    <3>. QED
      BY <1>1, <3>1 DEF Late
  <2>. QED
    BY <2>2, <2>3
<1>. QED
  BY <1>2 DEF NobodyLateQueues

\* Putting a request elsewhere than into a line puts nobody who is late there.
LEMMA LateByPut ==
  ASSUME IInv, NEW r \in Request, NEW p \in Places \ {"gate", "governor"},
         Becomes(Put(Admission, r, p))
  PROVE  NobodyLateQueues
<1> DEFINE v == Put(Admission, r, p)
<1>1. Good(Admission) /\ Moves(Admission, v, r) /\ v.at = [at EXCEPT ![r] = p]
  BY PutSound, AdmissionFields DEF IInv
<1>2. v.at[r] = p
  BY <1>1, AdmissionFields DEF Good, AdmissionType
<1> HIDE DEF v
<1>. QED
  BY <1>1, <1>2, LateByMove DEF v

\* Leaving puts nobody who is late into a line.
LEMMA LateByLeaving ==
  ASSUME IInv, NEW r \in Request, NEW p \in Places \ {"gate", "governor"},
         Becomes(Leaves(Admission, r, p))
  PROVE  NobodyLateQueues
<1> DEFINE v == Leaves(Admission, r, p)
<1>1. Own(Admission, r) /\ Good(Admission)
  BY AccountOf DEF IInv
<1>2. Moves(Admission, v, r) /\ v.at[r] = p
  BY <1>1, LeavesSound
<1> HIDE DEF v
<1>. QED
  BY <1>2, LateByMove DEF v

\* An attempt of a late request ends outside the lines.
LEMMA LateByAttempt ==
  ASSUME IInv, NEW r \in Request, NEW v, Becomes(v), Attempted(Admission, v, r)
  PROVE  NobodyLateQueues
BY LateByMove DEF Attempted

\* Where nobody changes place, nobody joins a line.
LEMMA LateAtRest ==
  ASSUME UNCHANGED <<at, uses>>
  PROVE  NobodyLateQueues
BY DEF NobodyLateQueues, Late

\* No step of a request puts somebody who is late into a line.
LEMMA LateInStep ==
  ASSUME IInv, NEW r \in Request, Step(r)
  PROVE  NobodyLateQueues
<1>1. Schedule(r) \/ PassGate(r) => NobodyLateQueues
  BY ScheduleAttempts, PassGateAttempts, LateByAttempt
<1>2. ASSUME TimeOutAtGate(r)
      PROVE  NobodyLateQueues
  <2>1. at' = [at EXCEPT ![r] = "over"] /\ uses' = uses
    BY <1>2, AdmissionFields DEF TimeOutAtGate, Becomes, Put, LeaveGate, Admission
  <2>2. at \in [Request -> Places] /\ due \subseteq Request
    BY AdmissionFields, ExecutionAssumption DEF IInv, Good, AdmissionType, Others, Request
  <2>. QED
    BY <2>1, <2>2 DEF NobodyLateQueues, Late
<1>3. ASSUME EndWait(r)
      PROVE  NobodyLateQueues
  <2>1. (at' = [at EXCEPT ![r] = "refused"] \/ at' = at) /\ uses' = uses
    BY <1>3, AdmissionFields DEF EndWait, Becomes, Put, Admission
  <2>2. at \in [Request -> Places] /\ due \subseteq Request
    BY AdmissionFields, ExecutionAssumption DEF IInv, Good, AdmissionType, Others, Request
  <2>3. ASSUME NEW q \in due
        PROVE  Late(q)
    BY <2>1, <2>2 DEF Late
  <2>. QED
    BY <2>3 DEF NobodyLateQueues
<1>4. ASSUME Deliver(r)
      PROVE  NobodyLateQueues
  <2>1. CASE Becomes(Put(Admission, r, "admitted"))
    BY <2>1, LateByPut DEF Places
  <2>2. CASE Becomes(Again(Admission, r))
    <3>1. r \in Http /\ Good(Admission) /\ Own(Admission, r) /\ Residencies
      BY <1>4, AccountOf DEF Deliver, IInv, Others
    <3>. QED
      BY <2>2, <3>1, AgainSound, LateByAttempt
  <2>3. CASE Becomes(Leaves(Admission, r, "over"))
    BY <2>3, LateByLeaving DEF Places
  <2>. QED
    BY <1>4, <2>1, <2>2, <2>3 DEF Deliver
<1>5. Proceed(r) \/ Reserve(r) \/ Handle(r) \/ HandleFails(r) \/ StartBody(r) \/ Execute(r)
      \/ Finish(r) \/ ReturnMemory(r) =>
        \E p \in Places \ {"gate", "governor"} : Becomes(Put(Admission, r, p))
  BY DEF Places, Proceed, Reserve, Handle, HandleFails, StartBody, Execute, Finish, ReturnMemory
<1>6. ReturnSlots(r) => NobodyLateQueues
  BY LateByLeaving DEF ReturnSlots, Places
<1>. QED
  BY <1>1, <1>2, <1>3, <1>4, <1>5, <1>6, LateByPut DEF Step

\* A request whose deadline has passed is never put into a line again, at the gate or
\* at the governor, in the first attempt or in the second.
THEOREM LateDoNotQueue == Spec => LateRequestsDoNotQueue
<1>1. ASSUME IInv, NEW r \in Request, Arrive(r) \/ Acquire(r) \/ LoseBody(r) \/ Cancel(r) \/ Lapse(r)
      PROVE  NobodyLateQueues
  <2>1. CASE Arrive(r) \/ LoseBody(r)
    <3>1. \E p \in Places \ {"gate", "governor"} : Becomes(Put(Admission, r, p))
      BY <2>1 DEF Arrive, LoseBody, Places
    <3>. QED
      BY <1>1, <3>1, LateByPut
  <2>2. CASE Acquire(r)
    <3>1. CASE Becomes(Put(Admission, r, "over"))
      BY <1>1, <3>1, LateByPut DEF Places
    <3>2. CASE Becomes(Submitted([Admission EXCEPT !.uses[r] = Current(r)], r))
      <4>1. /\ r \in Direct /\ Resolves(r) /\ at[r] = "new"
            /\ r \notin due
        BY <1>1, <2>2, ExecutionAssumption DEF Acquire, IInv, Others
      <4>2. Idle(Admission, r)
        BY <1>1, <4>1, AccountOf, AdmissionFields DEF Idle, Inside
      <4>3. Moves(Admission, Submitted([Admission EXCEPT !.uses[r] = Current(r)], r), r)
        BY <1>1, <4>1, <4>2, AcquireSubmits
      <4>. QED
        BY <1>1, <3>2, <4>1, <4>3, LateByMove
    <3>. QED
      BY <2>2, <3>1, <3>2 DEF Acquire
  <2>3. CASE Cancel(r)
    <3>1. \E p \in Places \ {"gate", "governor"} : Becomes(Leaves(Admission, r, p))
      BY <2>3 DEF Cancel, Places
    <3>. QED
      BY <1>1, <3>1, LateByLeaving
  <2>4. CASE Lapse(r)
    BY <2>4, LateAtRest DEF Lapse, admission
  <2>. QED
    BY <1>1, <2>1, <2>2, <2>3, <2>4
<1>2. ASSUME StartWait \/ \E k \in Key : ChangeResidency(k)
      PROVE  UNCHANGED <<at, uses>>
  BY <1>2, AdmissionFields DEF StartWait, ChangeResidency, admission, Becomes, Admission
<1>3. ASSUME IInv, [Next]_vars
      PROVE  [NobodyLateQueues]_vars
  BY <1>1, <1>2, <1>3, LateInStep, LateAtRest DEF Next
<1>4. [NobodyLateQueues]_vars => 
        [\A r \in due : /\ at'[r] \in {"gate", "governor"} => at'[r] = at[r] /\ uses'[r] = uses[r]]_vars
  BY DEF NobodyLateQueues, Late
<1>. QED
  BY <1>3, <1>4, InvariantHolds, PTL DEF LateRequestsDoNotQueue, Spec

=============================================================================
