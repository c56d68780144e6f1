------------------------ MODULE RuntimeGate_proofs ------------------------
(***************************************************************************)
(* Proofs about RuntimeGate, for every set of requests, every capacity and *)
(* every number of slots.                                                  *)
(***************************************************************************)
EXTENDS RuntimeGate, CollectionLemmas

-----------------------------------------------------------------------------
(* The first n members of a set of positions.                               *)

First(L, n) == {i \in L : Cardinality({j \in L : j <= i}) <= n}

\* They begin the set, and they are n unless they are all of it.
LEMMA FirstCount ==
  ASSUME NEW N \in Nat, NEW L \in SUBSET (1..N), NEW n \in Nat
  PROVE  /\ IsFiniteSet(First(L, n))
         /\ Cardinality(First(L, n)) <= n
         /\ First(L, n) = L \/ Cardinality(First(L, n)) = n
         /\ \A i \in First(L, n), j \in L : j <= i => j \in First(L, n)
<1> DEFINE UpTo(i) == {j \in L : j <= i}
<1>0. \A i \in L : i \in Nat
  OBVIOUS
<1>1. IsFiniteSet(L) /\ \A T \in SUBSET L : IsFiniteSet(T) /\ Cardinality(T) \in Nat
  <2>1. IsFiniteSet(1..N)
    BY FS_Interval
  <2>2. IsFiniteSet(L)
    BY <2>1, FS_Subset
  <2>. QED
    BY <2>2, FS_Subset, FS_CardinalityType
<1>2. \A m \in Nat : \A i \in First(L, m), j \in L : j <= i => j \in First(L, m)
  <2> SUFFICES ASSUME NEW m \in Nat, NEW i \in First(L, m), NEW j \in L, j <= i
               PROVE  j \in First(L, m)
    OBVIOUS
  <2>1. i \in L /\ Cardinality(UpTo(i)) <= m
    BY DEF First
  <2>2. UpTo(j) \in SUBSET UpTo(i) /\ UpTo(i) \in SUBSET L /\ UpTo(j) \in SUBSET L
    <3>1. \A x \in L : x <= j => x <= i
      BY <1>0, <2>1
    <3>. QED
      BY <3>1
  <2> HIDE DEF UpTo
  <2>3. /\ Cardinality(UpTo(j)) <= Cardinality(UpTo(i))
        /\ Cardinality(UpTo(j)) \in Nat /\ Cardinality(UpTo(i)) \in Nat
    BY <1>1, <2>2, FS_Subset
  <2>4. Cardinality(UpTo(j)) <= m
    BY <2>1, <2>3
  <2>. QED
    BY <2>4 DEF First, UpTo
<1> DEFINE Counted(m) == /\ Cardinality(First(L, m)) <= m
                         /\ First(L, m) = L \/ Cardinality(First(L, m)) = m
           T == {m \in 0..n : Counted(m)}
<1>3. 0 \in T
  <2>1. First(L, 0) = {}
    <3> SUFFICES ASSUME NEW i \in L, Cardinality(UpTo(i)) <= 0
                 PROVE  FALSE
      BY DEF First
    <3>1. UpTo(i) \in SUBSET L /\ i \in UpTo(i)
      OBVIOUS
    <3>2. Cardinality(UpTo(i)) = 0
      BY <1>1, <3>1
    <3> HIDE DEF UpTo
    <3>. QED
      BY <1>1, <3>1, <3>2, FS_EmptySet
  <2>. QED
    BY <2>1, FS_EmptySet
<1>4. ASSUME NEW k \in 1..n, k - 1 \in T
      PROVE  k \in T
  <2> DEFINE F == First(L, k - 1)
  <2>1. /\ k - 1 \in Nat /\ k \in 0..n /\ Cardinality(F) <= k - 1
        /\ F = L \/ Cardinality(F) = k - 1
    BY <1>4
  <2>2. F \in SUBSET L /\ First(L, k) \in SUBSET L /\ F \in SUBSET First(L, k)
    <3>1. \A i \in L : UpTo(i) \in SUBSET L
      OBVIOUS
    <3>2. \A i \in L : Cardinality(UpTo(i)) \in Nat
      BY <1>1, <3>1
    <3> HIDE DEF UpTo
    <3>3. \A i \in L : Cardinality(UpTo(i)) <= k - 1 => Cardinality(UpTo(i)) <= k
      BY <3>2
    <3>. QED
      BY <3>3 DEF First, UpTo
  <2>3. CASE F = L
    <3>1. First(L, k) = F
      BY <2>2, <2>3
    <3>2. Cardinality(F) \in Nat
      BY <1>1, <2>2
    <3>. QED
      BY <2>1, <2>3, <3>1, <3>2
  <2>4. CASE F # L
    <3>1. PICK m \in L \ F : \A i \in L \ F : m <= i
      <4> HIDE DEF F
      <4>1. L \ F \in SUBSET Nat /\ L \ F # {}
        BY <1>0, <2>2, <2>4
      <4>. QED
        BY <4>1, LeastNatural
    <3>2. \A i \in F : i < m
      <4>1. \A i \in F : ~(m <= i)
        BY <1>2, <2>1, <3>1
      <4> HIDE DEF F
      <4>. QED
        BY <1>0, <2>2, <3>1, <4>1
    <3>3. UpTo(m) = F \cup {m}
      <4> HIDE DEF F
      <4>1. \A i \in L : i <= m => i \in F \/ i = m
        BY <1>0, <3>1
      <4>2. \A i \in F : i \in L /\ i <= m
        BY <1>0, <2>2, <3>1, <3>2
      <4>. QED
        BY <3>1, <4>1, <4>2
    <3>4. Cardinality(F) = k - 1 /\ Cardinality(UpTo(m)) = k
      <4>1. Cardinality(F) = k - 1 /\ IsFiniteSet(F)
        BY <1>1, <2>1, <2>2, <2>4
      <4> HIDE DEF F, UpTo
      <4>2. Cardinality(F \cup {m}) = Cardinality(F) + 1
        BY <3>1, <4>1, FS_AddElement
      <4>. QED
        BY <3>3, <4>1, <4>2
    <3>5. First(L, k) = F \cup {m}
      <4>1. m \in First(L, k)
        BY <3>1, <3>4 DEF First
      <4>2. ASSUME NEW i \in L \ F, i # m
            PROVE  i \notin First(L, k)
        <5>1. UpTo(m) \cup {i} \in SUBSET UpTo(i) /\ UpTo(i) \in SUBSET L /\ i \notin UpTo(m)
              /\ UpTo(m) \in SUBSET L
          <6>1. i \in Nat /\ m \in Nat /\ m < i
            BY <1>0, <3>1, <4>2
          <6>2. \A x \in L : x <= m => x <= i
            BY <1>0, <6>1
          <6>3. i <= i /\ ~(i <= m)
            BY <6>1
          <6> HIDE DEF F
          <6>4. UpTo(m) \cup {i} \in SUBSET UpTo(i)
            BY <6>2, <6>3
          <6>. QED
            BY <6>3, <6>4
        <5> HIDE DEF UpTo, F
        <5>2. IsFiniteSet(UpTo(m)) /\ IsFiniteSet(UpTo(i)) /\ Cardinality(UpTo(i)) \in Nat
          BY <1>1, <5>1
        <5>3. Cardinality(UpTo(m) \cup {i}) = k + 1
          BY <3>4, <5>1, <5>2, FS_AddElement
        <5>4. Cardinality(UpTo(m) \cup {i}) <= Cardinality(UpTo(i))
          BY <5>1, <5>2, FS_Subset
        <5>5. ~(Cardinality(UpTo(i)) <= k)
          BY <5>2, <5>3, <5>4
        <5>. QED
          BY <5>5 DEF First, UpTo
      <4> HIDE DEF F
      <4>. QED
        BY <2>2, <4>1, <4>2
    <3>6. Cardinality(First(L, k)) = k
      BY <3>3, <3>4, <3>5
    <3>. QED
      BY <2>1, <3>6
  <2>. QED
    BY <2>3, <2>4
<1>5. n \in T
  <2> HIDE DEF T
  <2>1. 0..n \subseteq T
    BY <1>3, <1>4, IntervalInduction
  <2>. QED
    BY <2>1
<1>6. First(L, n) \in SUBSET L
  BY DEF First
<1>. QED
  BY <1>1, <1>2, <1>5, <1>6

\* Position k is the last of those taken, or 0 when none is, and after are the
\* positions of 1..N after it.
LastTaken(k, N, taken, after) ==
  /\ k \in 0..N
  /\ \A j \in taken : j <= k
  /\ k = 0 \/ k \in taken
  /\ after = (k + 1)..N

\* The positions of 1..N after all those taken are the ones after a position k that
\* is the last of them, or 0.
LEMMA AfterTaken ==
  ASSUME NEW N \in Nat, NEW taken \in SUBSET (1..N),
         NEW after \in SUBSET (1..N), \A i \in 1..N : i \in after <=> \A j \in taken : j < i
  PROVE  \E k : LastTaken(k, N, taken, after)
<1>1. CASE after = {}
  <2>1. N = 0 \/ N \in taken
    <3>1. N \notin after
      BY <1>1
    <3>. QED
      BY <3>1
  <2>2. (N + 1)..N = {}
    OBVIOUS
  <2>3. LastTaken(N, N, taken, after)
    BY <1>1, <2>1, <2>2 DEF LastTaken
  <2>. QED
    BY <2>3
<1>2. CASE after # {}
  <2>1. PICK m \in after : \A j \in after : m <= j
    <3>1. after \in SUBSET Nat
      OBVIOUS
    <3>. QED
      BY <1>2, <3>1, LeastNatural
  <2>2. m \in 1..N /\ m - 1 \in 0..N /\ \A j \in taken : j < m
    BY <2>1
  <2>3. m - 1 = 0 \/ m - 1 \in taken
    <3> SUFFICES ASSUME m - 1 # 0
                 PROVE  m - 1 \in taken
      OBVIOUS
    <3>1. m - 1 \in 1..N /\ m - 1 \notin after
      BY <2>1, <2>2
    <3>2. PICK j \in taken : ~(j < m - 1)
      BY <3>1
    <3>3. j = m - 1
      BY <2>2, <3>2
    <3>. QED
      BY <3>2, <3>3
  <2>4. \A j \in taken : j <= m - 1
    BY <2>2
  <2>5. after = ((m - 1) + 1)..N
    <3>1. \A i \in 1..N : m <= i => \A j \in taken : j < i
      BY <2>2
    <3>2. \A i \in after : m <= i /\ i \in 1..N
      BY <2>1
    <3>3. m \in Nat /\ (m - 1) + 1 = m
      BY <2>2
    <3>4. after = m..N
      <4>1. \A i \in m..N : i \in 1..N /\ m <= i
        BY <2>2, <3>3
      <4>2. \A i \in after : i \in m..N
        BY <3>2, <3>3
      <4>. QED
        BY <3>1, <4>1, <4>2
    <3>. QED
      BY <3>3, <3>4
  <2>6. LastTaken(m - 1, N, taken, after)
    BY <2>2, <2>3, <2>4, <2>5 DEF LastTaken
  <2>. QED
    BY <2>6
<1>. QED
  BY <1>1, <1>2

-----------------------------------------------------------------------------
(* A state of the gate, as a value, and what its operators make of it.      *)

Held(g) == {r \in Request : g.state[r] \in {"admitted", "running"}}

\* Types; the queue holds every id at most once, and every queued request; a slot
\* is counted for everyone who holds one, and not more than there are.
Sound(g) ==
  /\ g \in [state : [Request -> States], queue : Seq(Request), inflight : Nat]
  /\ \A i, j \in 1..Len(g.queue) : g.queue[i] = g.queue[j] => i = j
  /\ \A r \in Queued(g) : \E i \in 1..Len(g.queue) : g.queue[i] = r
  /\ g.inflight = Cardinality(Held(g))
  /\ g.inflight <= MaxRunning

\* The holders are finitely many.
LEMMA HeldFinite ==
  ASSUME NEW g
  PROVE  IsFiniteSet(Held(g)) /\ Cardinality(Held(g)) \in Nat
<1>1. Held(g) \in SUBSET Request /\ IsFiniteSet(Request)
  BY GateAssumption DEF Held
<1>. QED
  BY <1>1, FS_Subset, FS_CardinalityType

\* Expiring takes nothing from the holders and nobody out of the queue.
LEMMA ExpireSound ==
  ASSUME NEW g, Sound(g)
  PROVE  /\ Sound(ExpireQueued(g))
         /\ Queued(ExpireQueued(g)) = Queued(g) \ due
         /\ Held(ExpireQueued(g)) = Held(g)
         /\ ExpireQueued(g).queue = g.queue
         /\ ExpireQueued(g).inflight = g.inflight
         /\ \A r \in Request : ExpireQueued(g).state[r] =
              IF g.state[r] = "queued" /\ r \in due THEN "expired" ELSE g.state[r]
<1> DEFINE h == ExpireQueued(g)
<1>1. /\ g \in [state : [Request -> States], queue : Seq(Request), inflight : Nat]
      /\ \A r \in Request : g.state[r] \in States
  BY DEF Sound
<1>2. /\ h \in [state : [Request -> States], queue : Seq(Request), inflight : Nat]
      /\ h.queue = g.queue /\ h.inflight = g.inflight
      /\ \A r \in Request : h.state[r] =
           IF g.state[r] = "queued" /\ r \in due THEN "expired" ELSE g.state[r]
  BY <1>1 DEF ExpireQueued, Queued, States, Terminal
<1> HIDE DEF h
<1>3. Queued(h) = Queued(g) \ due /\ Held(h) = Held(g)
  BY <1>2 DEF Queued, Held
<1>4. Sound(h)
  BY <1>2, <1>3 DEF Sound
<1>. QED
  BY <1>2, <1>3, <1>4 DEF h

\* One request leaves its slot.
LEMMA LeaveSlot ==
  ASSUME NEW g, Sound(g), NEW r \in Held(g), NEW st \in Terminal
  PROVE  LET h == ReleaseSlot([g EXCEPT !.state[r] = st])
         IN  /\ Sound(h) /\ h.queue = g.queue /\ h.inflight = g.inflight - 1
             /\ h.state = [g.state EXCEPT ![r] = st]
<1> DEFINE m == [g EXCEPT !.state[r] = st]
           h == ReleaseSlot(m)
<1>1. /\ g \in [state : [Request -> States], queue : Seq(Request), inflight : Nat]
      /\ r \in Request /\ g.state[r] \in {"admitted", "running"}
  BY DEF Sound, Held
<1>2. g.inflight \in Nat /\ g.inflight > 0
  <2>1. g.inflight = Cardinality(Held(g)) /\ g.inflight \in Nat
    BY DEF Sound
  <2>2. Cardinality(Held(g)) # 0
    BY HeldFinite, FS_EmptySet
  <2>. QED
    BY <2>1, <2>2
<1>3. /\ m \in [state : [Request -> States], queue : Seq(Request), inflight : Nat]
      /\ m.state = [g.state EXCEPT ![r] = st] /\ m.queue = g.queue
      /\ m.inflight = g.inflight
  BY <1>1 DEF States
<1> HIDE DEF m
<1>4. /\ h \in [state : [Request -> States], queue : Seq(Request), inflight : Nat]
      /\ h.state = m.state /\ h.queue = m.queue /\ h.inflight = m.inflight - 1
  BY <1>2, <1>3 DEF ReleaseSlot
<1> HIDE DEF h
<1>5. Held(h) = Held(g) \ {r} /\ Queued(h) = Queued(g)
  BY <1>1, <1>3, <1>4 DEF Held, Queued, Terminal
<1>6. Cardinality(Held(h)) = Cardinality(Held(g)) - 1
  BY <1>5, HeldFinite, FS_RemoveElement
<1>7. Sound(h)
  BY <1>2, <1>3, <1>4, <1>5, <1>6, GateAssumption DEF Sound
<1>. QED
  BY <1>3, <1>4, <1>7 DEF h, m

\* A request that holds no slot and takes none changes its state, its place in the
\* queue kept.
LEMMA Marked ==
  ASSUME NEW g, Sound(g), NEW r \in Request, r \notin Held(g),
         NEW st \in States \ {"admitted", "running", "queued"}
  PROVE  LET h == [g EXCEPT !.state[r] = st]
         IN  /\ Sound(h) /\ h.queue = g.queue /\ h.inflight = g.inflight
             /\ h.state = [g.state EXCEPT ![r] = st]
<1> DEFINE h == [g EXCEPT !.state[r] = st]
<1>1. g \in [state : [Request -> States], queue : Seq(Request), inflight : Nat]
  BY DEF Sound
<1>2. /\ h \in [state : [Request -> States], queue : Seq(Request), inflight : Nat]
      /\ h.state = [g.state EXCEPT ![r] = st] /\ h.queue = g.queue
      /\ h.inflight = g.inflight
  BY <1>1
<1> HIDE DEF h
<1>3. Held(h) = Held(g) /\ Queued(h) = Queued(g) \ {r}
  BY <1>1, <1>2 DEF Held, Queued
<1>4. Sound(h)
  BY <1>2, <1>3 DEF Sound
<1>. QED
  BY <1>2, <1>4 DEF h

\* An admitted request starts in time, or leaves its slot.
LEMMA StartSound ==
  ASSUME NEW g, Sound(g), NEW r \in Request, g.state[r] = "admitted"
  PROVE  LET h == Start(g, r)
         IN  /\ Sound(h) /\ h.queue = g.queue
             /\ r \in due => /\ h.inflight = g.inflight - 1
                             /\ h.state = [g.state EXCEPT ![r] = "expired"]
             /\ r \notin due => /\ h.inflight = g.inflight
                                /\ h.state = [g.state EXCEPT ![r] = "running"]
<1>1. r \in Held(g) /\ "expired" \in Terminal
  BY DEF Held, Terminal
<1>2. CASE r \in due
  BY <1>1, <1>2, LeaveSlot DEF Start
<1>3. CASE r \notin due
  <2> DEFINE h == [g EXCEPT !.state[r] = "running"]
  <2>1. g \in [state : [Request -> States], queue : Seq(Request), inflight : Nat]
    BY DEF Sound
  <2>2. /\ h \in [state : [Request -> States], queue : Seq(Request), inflight : Nat]
        /\ h.state = [g.state EXCEPT ![r] = "running"] /\ h.queue = g.queue
        /\ h.inflight = g.inflight
    BY <2>1 DEF States
  <2>3. Start(g, r) = h
    BY <1>3 DEF Start
  <2> HIDE DEF h
  <2>4. Held(h) = Held(g) /\ Queued(h) = Queued(g)
    BY <2>1, <2>2 DEF Held, Queued
  <2>5. Sound(h)
    BY <2>2, <2>4 DEF Sound
  <2>. QED
    BY <1>3, <2>2, <2>3, <2>5
<1>. QED
  BY <1>2, <1>3

\* Every entry of p is one of q.
Within(p, q) == \A i \in 1..Len(p) : \E j \in 1..Len(q) : p[i] = q[j]

\* forget() takes one id out of the queue, whose request does not wait any more.
LEMMA ForgetSound ==
  ASSUME NEW g, Sound(g), NEW r \in Request, g.state[r] # "queued"
  PROVE  LET h == Forget(g, r)
         IN  /\ Sound(h) /\ h.state = g.state /\ h.inflight = g.inflight
             /\ h.queue = Only(g.queue, Request \ {r})
             /\ Within(h.queue, g.queue)
<1> DEFINE h == Forget(g, r)
           q == Only(g.queue, Request \ {r})
<1>1. /\ g \in [state : [Request -> States], queue : Seq(Request), inflight : Nat]
      /\ g.queue \in Seq(Request)
  BY DEF Sound
<1>2. /\ q \in Seq(Request)
      /\ \A i \in 1..Len(q) : \E k \in 1..Len(g.queue) : g.queue[k] = q[i]
      /\ \A k \in 1..Len(g.queue) :
           g.queue[k] \in Request \ {r} => \E i \in 1..Len(q) : q[i] = g.queue[k]
      /\ (\A k, l \in 1..Len(g.queue) : g.queue[k] = g.queue[l] => k = l) =>
           \A i, j \in 1..Len(q) : q[i] = q[j] => i = j
  <2> DEFINE s == g.queue
             S == Request \ {r}
  <2>1. s \in Seq(Request)
    BY <1>1
  <2>2. \A k \in 1..Len(s) : s[k] \in S => s[k] \in Request \ {r}
    OBVIOUS
  <2> HIDE DEF s, S
  <2>3. /\ Only(s, S) \in Seq(Request)
        /\ \A i \in 1..Len(Only(s, S)) :
             Only(s, S)[i] \in S /\ \E k \in 1..Len(s) : s[k] = Only(s, S)[i]
        /\ \A k \in 1..Len(s) : s[k] \in S =>
             \E i \in 1..Len(Only(s, S)) : Only(s, S)[i] = s[k]
        /\ (\A k, l \in 1..Len(s) : s[k] = s[l] => k = l) =>
             \A i, j \in 1..Len(Only(s, S)) : Only(s, S)[i] = Only(s, S)[j] => i = j
    BY <2>1, OnlyElements
  <2>. QED
    BY <2>3, Zenon DEF s, S
<1>3. /\ h \in [state : [Request -> States], queue : Seq(Request), inflight : Nat]
      /\ h.state = g.state /\ h.queue = q /\ h.inflight = g.inflight
  <2> HIDE DEF q
  <2>1. Forget(g, r) = [g EXCEPT !.queue = q]
    BY <1>1 DEF Forget, q
  <2>. QED
    BY <1>1, <1>2, <2>1
<1> HIDE DEF h, q
<1>4. Held(h) = Held(g) /\ Queued(h) = Queued(g)
  BY <1>3 DEF Held, Queued
<1>5. \A x \in Queued(h) : \E i \in 1..Len(h.queue) : h.queue[i] = x
  <2> SUFFICES ASSUME NEW x \in Queued(h)
               PROVE  \E i \in 1..Len(h.queue) : h.queue[i] = x
    OBVIOUS
  <2>1. PICK k \in 1..Len(g.queue) : g.queue[k] = x
    BY <1>4 DEF Sound
  <2>2. x \in Request \ {r}
    BY <1>4 DEF Queued
  <2>. QED
    BY <1>2, <1>3, <2>1, <2>2
<1>6. \A i, j \in 1..Len(h.queue) : h.queue[i] = h.queue[j] => i = j
  BY <1>2, <1>3 DEF Sound
<1>7. Sound(h)
  BY <1>3, <1>4, <1>5, <1>6 DEF Sound
<1>8. Within(h.queue, g.queue)
  BY <1>2, <1>3 DEF Within
<1>9. h.queue = Only(g.queue, Request \ {r})
  BY <1>3 DEF q
<1>. QED
  BY <1>3, <1>7, <1>8, <1>9 DEF h

\* A new id joins the queue at its end.
LEMMA SubmitSound ==
  ASSUME NEW g, Sound(g), NEW r \in Request, g.state[r] = "new",
         \A i \in 1..Len(g.queue) : g.queue[i] # r
  PROVE  LET h == Submitted(g, r)
         IN  /\ Sound(h) /\ h.inflight = g.inflight
             /\ h.state = [g.state EXCEPT ![r] = "queued"]
             /\ h.queue = Append(g.queue, r)
<1> DEFINE h == Submitted(g, r)
           q == Append(g.queue, r)
<1>1. /\ g \in [state : [Request -> States], queue : Seq(Request), inflight : Nat]
      /\ g.queue \in Seq(Request) /\ Len(g.queue) \in Nat
  BY DEF Sound
<1>2. /\ q \in Seq(Request) /\ Len(q) = Len(g.queue) + 1 /\ q[Len(q)] = r
      /\ \A i \in 1..Len(g.queue) : q[i] = g.queue[i]
  BY <1>1
<1> HIDE DEF q
<1>3. /\ h \in [state : [Request -> States], queue : Seq(Request), inflight : Nat]
      /\ h.state = [g.state EXCEPT ![r] = "queued"] /\ h.queue = q
      /\ h.inflight = g.inflight
  <2>1. h = [g EXCEPT !.state[r] = "queued", !.queue = q]
    BY <1>1 DEF Submitted, q
  <2> HIDE DEF h
  <2>2. "queued" \in States
    BY DEF States, Waiting
  <2>. QED
    BY <1>1, <1>2, <2>1, <2>2
<1> HIDE DEF h
<1>4. Held(h) = Held(g) /\ Queued(h) = Queued(g) \cup {r}
  BY <1>1, <1>3 DEF Held, Queued
<1>5. \A x \in Queued(h) : \E i \in 1..Len(q) : q[i] = x
  <2>1. \A x \in Queued(g) : \E i \in 1..Len(q) : q[i] = x
    BY <1>1, <1>2 DEF Sound
  <2>2. Len(q) \in 1..Len(q)
    BY <1>1, <1>2
  <2>. QED
    BY <1>2, <1>4, <2>1, <2>2
<1>6. \A i, j \in 1..Len(q) : q[i] = q[j] => i = j
  <2>1. \A i \in 1..Len(q) : i \in 1..Len(g.queue) \/ i = Len(q)
    BY <1>1, <1>2
  <2>. QED
    BY <1>2, <2>1 DEF Sound
<1>7. Sound(h)
  BY <1>3, <1>4, <1>5, <1>6 DEF Sound
<1>. QED
  BY <1>3, <1>7 DEF h, q

\* cancel() of whatever request.
LEMMA CancelSound ==
  ASSUME NEW g, Sound(g), NEW r \in Request
  PROVE  LET h == Cancelled(g, r)
         IN  /\ Sound(h) /\ h.queue = g.queue
             /\ IF g.state[r] \in Waiting
                THEN /\ h.state = [g.state EXCEPT ![r] = "cancelled"]
                     /\ h.inflight = IF g.state[r] = "admitted" THEN g.inflight - 1
                                     ELSE g.inflight
                ELSE h = g
<1>1. "cancelled" \in Terminal /\ "cancelled" \in States \ {"admitted", "running", "queued"}
  BY DEF Terminal, States
<1>2. CASE g.state[r] = "queued"
  <2>1. r \notin Held(g) /\ Cancelled(g, r) = [g EXCEPT !.state[r] = "cancelled"]
    BY <1>2 DEF Held, Cancelled
  <2>. QED
    BY <1>1, <1>2, <2>1, Marked DEF Waiting
<1>3. CASE g.state[r] = "admitted"
  <2>1. r \in Held(g)
        /\ Cancelled(g, r) = ReleaseSlot([g EXCEPT !.state[r] = "cancelled"])
    BY <1>3 DEF Held, Cancelled
  <2>. QED
    BY <1>1, <1>3, <2>1, LeaveSlot DEF Waiting
<1>4. CASE g.state[r] \notin Waiting
  BY <1>4 DEF Cancelled, Waiting
<1>. QED
  BY <1>2, <1>3, <1>4 DEF Waiting

\* The entries of the queue from one position on are what is left of it, and those
\* before it wait no more.
Popped(g, h) ==
  \E k \in 0..Len(g.queue) :
    /\ h.queue = SubSeq(g.queue, k + 1, Len(g.queue))
    /\ \A i \in 1..k : g.queue[i] \notin Queued(h)

\* Gate h is gate g after n calls of next(), which have admitted the requests who.
Admits(g, h, n, who) ==
  /\ Sound(h)
  /\ who \in SUBSET (Queued(g) \ due)
  /\ \A r \in Request : h.state[r] = IF r \in who THEN "admitted"
                                     ELSE IF g.state[r] = "queued" /\ r \in due THEN "expired"
                                     ELSE g.state[r]
  /\ IsFiniteSet(who) /\ Cardinality(who) \in 0..n
  /\ h.inflight = g.inflight + Cardinality(who)
  /\ who = Queued(g) \ due \/ Cardinality(who) = n
  /\ Popped(g, h)
  /\ \A i, j \in 1..Len(g.queue) :
       j <= i /\ g.queue[i] \in who => g.queue[j] \notin Queued(h)
  /\ \A i \in Live(g) :
       g.queue[i] \in who <=> Cardinality({j \in Live(g) : j <= i}) <= n

\* Calls of next() admit the first of those who wait in time.
LEMMA AdmitNextSound ==
  ASSUME NEW g, Sound(g), NEW n \in Nat, n <= Free(g)
  PROVE  \E who : Admits(g, AdmitNext(g, n), n, who)
<1> DEFINE s == g.queue
           N == Len(g.queue)
           L == Live(g)
           taken == First(L, n)
           after == {i \in 1..N : \A j \in taken : j < i}
           rest == IF after = {} THEN << >>
                   ELSE SubSeq(s, CHOOSE i \in after : \A j \in after : i <= j, N)
           who == {s[i] : i \in taken}
           gone == ExpireQueued(g)
           h == AdmitNext(g, n)
<1>1. /\ g \in [state : [Request -> States], queue : Seq(Request), inflight : Nat]
      /\ s \in Seq(Request) /\ N \in Nat /\ N = Len(s)
      /\ \A i, j \in 1..N : s[i] = s[j] => i = j
      /\ L = {i \in 1..N : s[i] \in Queued(g) \ due}
      /\ L \in SUBSET (1..N)
  BY DEF Sound, Live
<1>2. h = [state    |-> [r \in Request |-> IF r \in who THEN "admitted" ELSE gone.state[r]],
           queue    |-> rest,
           inflight |-> g.inflight + Cardinality(taken)]
  BY DEF AdmitNext, FirstLive, First
<1>3. \A i \in L : s[i] \in who <=> Cardinality({j \in L : j <= i}) <= n
  <2>1. ASSUME NEW i \in L, s[i] \in who
        PROVE  i \in taken
    <3> HIDE DEF taken, s, N, L
    <3>1. PICK j \in taken : s[i] = s[j]
      BY <2>1
    <3>2. j \in L
      BY <3>1 DEF taken, First
    <3>. QED
      BY <1>1, <3>1, <3>2
  <2>. QED
    BY <2>1 DEF First
<1> HIDE DEF s, N, L, gone, h
<1>4. /\ IsFiniteSet(taken) /\ Cardinality(taken) <= n
      /\ taken = L \/ Cardinality(taken) = n
      /\ \A i \in taken, j \in L : j <= i => j \in taken
  BY <1>1, FirstCount
<1>5. taken \in SUBSET L /\ taken \in SUBSET (1..N) /\ Cardinality(taken) \in Nat
  <2>1. taken \in SUBSET L
    BY DEF First
  <2>. QED
    BY <1>1, <1>4, <2>1, FS_CardinalityType
<1> HIDE DEF taken
<1>6. PICK k \in 0..N :
        /\ \A j \in taken : j <= k
        /\ k = 0 \/ k \in taken
        /\ after = (k + 1)..N
  <2>1. after \in SUBSET (1..N) /\ \A i \in 1..N : i \in after <=> \A j \in taken : j < i
    OBVIOUS
  <2> HIDE DEF after
  <2>2. \E k : LastTaken(k, N, taken, after)
    BY <1>1, <1>5, <2>1, AfterTaken
  <2>. QED
    BY <2>2 DEF LastTaken
<1>7. rest = SubSeq(s, k + 1, N)
  <2> HIDE DEF after
  <2>1. CASE after = {}
    <3>1. N < k + 1
      BY <1>1, <1>6, <2>1
    <3>. QED
      BY <1>1, <2>1, <3>1, SubSeqEmpty
  <2>2. CASE after # {}
    <3>1. k + 1 \in after /\ \A i \in after : k + 1 <= i /\ i \in Int
      BY <1>1, <1>6, <2>2
    <3>2. (CHOOSE i \in after : \A j \in after : i <= j) = k + 1
      BY <3>1
    <3>. QED
      BY <2>2, <3>2, Zenon
  <2>. QED
    BY <2>1, <2>2
<1> HIDE DEF after, rest
<1>8. /\ who \in SUBSET (Queued(g) \ due) /\ IsFiniteSet(who)
      /\ Cardinality(who) = Cardinality(taken)
  <2>1. who \in SUBSET (Queued(g) \ due)
    BY <1>1, <1>5
  <2> DEFINE f == [i \in taken |-> s[i]]
  <2>2. f \in Bijection(taken, who)
    <3>1. f \in [taken -> who] /\ \A w \in who : \E i \in taken : f[i] = w
      OBVIOUS
    <3>2. \A i, j \in taken : f[i] = f[j] => i = j
      BY <1>1, <1>5
    <3> HIDE DEF f, who
    <3>. QED
      BY <3>1, <3>2 DEF Bijection, Injection, Surjection, IsInjective
  <2> HIDE DEF f, who
  <2>. QED
    BY <1>4, <2>1, <2>2, FS_Bijection DEF ExistsBijection
<1>9. who = Queued(g) \ due \/ Cardinality(who) = n
  <2> SUFFICES ASSUME taken = L
               PROVE  Queued(g) \ due \in SUBSET who
    BY <1>4, <1>8
  <2> SUFFICES ASSUME NEW r \in Queued(g) \ due
               PROVE  r \in who
    OBVIOUS
  <2>1. PICK i \in 1..N : s[i] = r
    BY DEF Sound, s, N
  <2>. QED
    BY <1>1, <2>1
<1>10. /\ gone.inflight = g.inflight /\ Held(gone) = Held(g)
       /\ \A r \in Request : gone.state[r] =
            IF g.state[r] = "queued" /\ r \in due THEN "expired" ELSE g.state[r]
       /\ gone.state \in [Request -> States]
  BY ExpireSound DEF gone, Sound
<1>11. rest \in Seq(Request) /\ Len(rest) = N - k /\ \A i \in 1..(N - k) : rest[i] = s[k + i]
  BY <1>1, <1>7, Suffix
<1>12. /\ h \in [state : [Request -> States], queue : Seq(Request), inflight : Nat]
       /\ h.queue = rest /\ h.inflight = g.inflight + Cardinality(who)
       /\ \A r \in Request : h.state[r] = IF r \in who THEN "admitted"
                                          ELSE IF g.state[r] = "queued" /\ r \in due THEN "expired"
                                          ELSE g.state[r]
  <2>1. "admitted" \in States
    BY DEF States, Waiting
  <2> HIDE DEF who
  <2>. QED
    BY <1>1, <1>2, <1>5, <1>8, <1>10, <1>11, <2>1
<1> HIDE DEF who
<1>13. Held(h) = Held(g) \cup who /\ Queued(h) = (Queued(g) \ due) \ who
       /\ Held(g) \cap who = {}
  BY <1>1, <1>8, <1>12 DEF Held, Queued
<1>14. \A i \in 1..N : i <= k => s[i] \notin Queued(h)
  <2> SUFFICES ASSUME NEW i \in 1..N, i <= k, s[i] \in Queued(h)
               PROVE  FALSE
    OBVIOUS
  <2>1. i \in L /\ k \in taken
    BY <1>1, <1>6, <1>13
  <2>2. i \in taken
    BY <1>4, <2>1
  <2>3. s[i] \in who
    BY <2>2 DEF who
  <2>. QED
    BY <1>13, <2>3
<1>15. \A i, j \in 1..N : j <= i /\ s[i] \in who => s[j] \notin Queued(h)
  <2> SUFFICES ASSUME NEW i \in 1..N, NEW j \in 1..N, j <= i, s[i] \in who
               PROVE  s[j] \notin Queued(h)
    OBVIOUS
  <2>1. PICK m \in taken : s[m] = s[i]
    BY DEF who
  <2>2. m = i /\ m <= k
    BY <1>1, <1>5, <1>6, <2>1
  <2>. QED
    BY <1>14, <2>2
<1>16. Sound(h)
  <2>1. \A i, j \in 1..Len(rest) : rest[i] = rest[j] => i = j
    <3>1. \A i \in 1..(N - k) : k + i \in 1..N
      BY <1>1
    <3>. QED
      BY <1>1, <1>11, <3>1
  <2>2. \A r \in Queued(h) : \E i \in 1..Len(rest) : rest[i] = r
    <3> SUFFICES ASSUME NEW r \in Queued(h)
                 PROVE  \E i \in 1..Len(rest) : rest[i] = r
      OBVIOUS
    <3>1. PICK i \in 1..N : s[i] = r
      BY <1>13 DEF Sound, s, N
    <3>2. ~(i <= k)
      BY <1>14, <3>1
    <3>3. i - k \in 1..(N - k) /\ k + (i - k) = i
      BY <1>1, <3>2
    <3>. QED
      BY <1>11, <3>1, <3>3
  <2>3. Cardinality(Held(h)) = Cardinality(Held(g)) + Cardinality(who)
    <3>1. /\ IsFiniteSet(Held(g)) /\ Cardinality(Held(g)) \in Nat
          /\ Cardinality(who) \in Nat
      BY <1>5, <1>8, HeldFinite
    <3>2. Cardinality(Held(g) \cup who) = Cardinality(Held(g)) + Cardinality(who) - Cardinality({})
      BY <1>8, <1>13, <3>1, FS_Union
    <3>. QED
      BY <1>13, <3>1, <3>2, FS_EmptySet
  <2>4. g.inflight \in Nat /\ g.inflight = Cardinality(Held(g)) /\ n <= MaxRunning - g.inflight
    BY DEF Sound, Free
  <2>5. h.inflight = Cardinality(Held(h)) /\ h.inflight <= MaxRunning
    BY <1>4, <1>5, <1>8, <1>12, <2>3, <2>4, GateAssumption
  <2>. QED
    BY <1>12, <2>1, <2>2, <2>5 DEF Sound
<1>17. Popped(g, h)
  <2>1. h.queue = SubSeq(g.queue, k + 1, Len(g.queue)) /\ k \in 0..Len(g.queue)
    BY <1>7, <1>12 DEF s, N
  <2>2. \A i \in 1..k : g.queue[i] \notin Queued(h)
    BY <1>1, <1>14 DEF s, N
  <2>. QED
    BY <2>1, <2>2 DEF Popped
<1>18. Cardinality(who) \in 0..n
  BY <1>4, <1>5, <1>8
<1>. QED
  BY <1>3, <1>8, <1>9, <1>12, <1>15, <1>16, <1>17, <1>18 DEF Admits, s, N, L, h

-----------------------------------------------------------------------------
(* A step of acquire().                                                     *)

\* What gate g has become for the others when it is h, after a step of r's task: a
\* request that waited may have expired, or have been admitted with everyone before
\* it, and then slots were taken; the entries of the queue keep their order.
Advanced(g, h, r) ==
  /\ Sound(h)
  /\ Queued(h) \subseteq Queued(g)
  /\ \A x \in Request \ {r} :
       \/ h.state[x] = g.state[x]
       \/ g.state[x] = "queued" /\ h.state[x] = "expired" /\ x \in due
       \/ g.state[x] = "queued" /\ h.state[x] = "admitted" /\ h.inflight # g.inflight
  /\ Popped(g, h)
  /\ \A i, j \in 1..Len(g.queue) :
       j <= i /\ g.queue[i] \in Queued(g) \cap Held(h) => g.queue[j] \notin Queued(h)

\* What has become of r: it waits because every slot is taken, it runs in time, or
\* it will not be served.
Decided(g, h, r) ==
  /\ h.state[r] \in {"queued", "running"} \cup Terminal
  /\ h.state[r] = "queued" => g.state[r] = "queued" /\ h.inflight = MaxRunning
  /\ h.state[r] = "running" => r \notin due /\ g.state[r] \in Waiting

\* Nothing is popped off a queue that stays as it is.
LEMMA PoppedNothing ==
  ASSUME NEW g, Sound(g), NEW h, h.queue = g.queue
  PROVE  Popped(g, h)
<1>1. g.queue \in Seq(Request)
  BY DEF Sound
<1> DEFINE s == g.queue
<1>2. 0 \in 0..Len(s) /\ SubSeq(s, 1, Len(s)) = s /\ 0 + 1 = 1
  BY <1>1
<1>3. h.queue = SubSeq(s, 0 + 1, Len(s))
  <2> HIDE DEF s
  <2>1. h.queue = s
    BY DEF s
  <2>. QED
    BY <1>2, <2>1, Zenon
<1>. QED
  BY <1>2, <1>3 DEF Popped

\* A step that has admitted the requests who, and started r if it is among them.
LEMMA AdmittedAdvances ==
  ASSUME NEW g, Sound(g), NEW r \in Request, NEW n, NEW who, NEW m, Admits(g, m, n, who),
         NEW h, Sound(h), h.queue = m.queue, h.inflight = m.inflight,
         \A x \in Request \ {r} : h.state[x] = m.state[x],
         \/ h.state[r] = m.state[r]
         \/ m.state[r] = "admitted" /\ h.state[r] = "running"
  PROVE  /\ Advanced(g, h, r)
         /\ who # {} => h.inflight # g.inflight
<1>1. /\ g.inflight \in Nat /\ Cardinality(who) \in Nat
      /\ h.inflight = g.inflight + Cardinality(who) /\ IsFiniteSet(who)
  BY DEF Sound, Admits
<1>2. who # {} => h.inflight # g.inflight
  <2>1. who # {} => Cardinality(who) # 0
    BY <1>1, FS_EmptySet
  <2>. QED
    BY <1>1, <2>1
<1>3. Queued(h) = Queued(m) /\ Held(h) = Held(m)
  BY DEF Queued, Held
<1>4. Queued(m) = (Queued(g) \ due) \ who /\ Held(m) = Held(g) \cup who
  BY DEF Queued, Held, Admits
<1>5. \A x \in Request \ {r} :
        \/ h.state[x] = g.state[x]
        \/ g.state[x] = "queued" /\ h.state[x] = "expired" /\ x \in due
        \/ g.state[x] = "queued" /\ h.state[x] = "admitted" /\ h.inflight # g.inflight
  BY <1>2 DEF Admits, Queued
<1>6. Popped(g, h)
  BY <1>3 DEF Admits, Popped
<1>7. \A i, j \in 1..Len(g.queue) :
        j <= i /\ g.queue[i] \in Queued(g) \cap Held(h) => g.queue[j] \notin Queued(h)
  <2>1. Queued(g) \cap Held(h) = who
    <3>1. Queued(g) \cap Held(g) = {}
      BY DEF Queued, Held
    <3>2. who \subseteq Queued(g)
      BY DEF Admits
    <3>. QED
      BY <1>3, <1>4, <3>1, <3>2
  <2>. QED
    BY <1>3, <2>1 DEF Admits
<1>. QED
  BY <1>2, <1>3, <1>4, <1>5, <1>6, <1>7 DEF Advanced

\* A step that changes nothing but r's state and takes it no slot.
LEMMA OnlyOwnAdvances ==
  ASSUME NEW g, Sound(g), NEW r \in Request, NEW h, Sound(h), h.queue = g.queue,
         \A x \in Request \ {r} : h.state[x] = g.state[x],
         g.state[r] # "queued", h.state[r] # "queued"
  PROVE  Advanced(g, h, r)
<1>1. Popped(g, h)
  BY PoppedNothing
<1>2. Queued(h) = Queued(g)
  BY DEF Queued
<1>3. Queued(g) \cap Held(h) = {}
  BY DEF Queued, Held
<1>. QED
  BY <1>1, <1>2, <1>3 DEF Advanced

\* acquire() goes on with what it finds.
LEMMA AcquireAdvances ==
  ASSUME NEW g, Sound(g), NEW r \in Request, g.state[r] \notin {"new", "running"}
  PROVE  Advanced(g, Acquire(g, r), r) /\ Decided(g, Acquire(g, r), r)
<1> DEFINE h == Acquire(g, r)
<1>1. /\ g \in [state : [Request -> States], queue : Seq(Request), inflight : Nat]
      /\ g.state[r] \in {"queued", "admitted"} \cup Terminal
      /\ g.inflight \in Nat /\ MaxRunning \in Nat /\ Free(g) \in Nat
      /\ Free(g) = MaxRunning - g.inflight
  BY GateAssumption DEF Sound, States, Waiting, Free
<1>2. CASE g.state[r] = "admitted"
  <2>1. h = Start(g, r)
    BY <1>2 DEF Acquire
  <2>2. /\ Sound(h) /\ h.queue = g.queue
        /\ r \in due => /\ h.inflight = g.inflight - 1
                        /\ h.state = [g.state EXCEPT ![r] = "expired"]
        /\ r \notin due => /\ h.inflight = g.inflight
                           /\ h.state = [g.state EXCEPT ![r] = "running"]
    BY <1>2, <2>1, StartSound
  <2> HIDE DEF h
  <2>3. /\ \A x \in Request \ {r} : h.state[x] = g.state[x]
        /\ IF r \in due THEN h.state[r] = "expired" ELSE h.state[r] = "running"
    BY <1>1, <2>2
  <2>4. Advanced(g, h, r)
    BY <1>2, <2>2, <2>3, OnlyOwnAdvances
  <2>5. Decided(g, h, r)
    BY <1>2, <2>3 DEF Decided, Waiting, Terminal
  <2>. QED
    BY <2>4, <2>5 DEF h
<1>3. CASE g.state[r] \in Terminal
  <2>1. h = g
    BY <1>3 DEF Acquire, Terminal
  <2>2. Advanced(g, g, r)
    BY <1>3, OnlyOwnAdvances DEF Terminal
  <2>. QED
    BY <1>3, <2>1, <2>2 DEF Decided, Waiting, Terminal
<1>4. CASE g.state[r] = "queued" /\ Free(g) = 0 /\ r \notin due
  <2>1. h = g /\ g.inflight = MaxRunning
    BY <1>1, <1>4 DEF Acquire, AcquireInTime
  <2>2. Popped(g, g) /\ Queued(g) \cap Held(g) = {}
    BY PoppedNothing DEF Queued, Held
  <2>3. Advanced(g, g, r)
    BY <2>2 DEF Advanced
  <2>. QED
    BY <1>4, <2>1, <2>3 DEF Decided, Waiting
<1>5. CASE g.state[r] = "queued" /\ Free(g) = 0 /\ r \in due
  <2>1. h = ExpireQueued(g)
    BY <1>5 DEF Acquire, AcquireTooLate
  <2> HIDE DEF h
  <2>2. /\ Sound(h) /\ Queued(h) = Queued(g) \ due /\ Held(h) = Held(g)
        /\ h.queue = g.queue
        /\ \A x \in Request : h.state[x] =
             IF g.state[x] = "queued" /\ x \in due THEN "expired" ELSE g.state[x]
    BY <2>1, ExpireSound
  <2>3. Popped(g, h) /\ Queued(g) \cap Held(h) = {}
    BY <2>2, PoppedNothing DEF Queued, Held
  <2>4. Advanced(g, h, r)
    BY <2>2, <2>3 DEF Advanced
  <2>5. Decided(g, h, r)
    BY <1>5, <2>2 DEF Decided, Waiting, Terminal
  <2>. QED
    BY <2>4, <2>5 DEF h
<1>6. CASE g.state[r] = "queued" /\ Free(g) # 0 /\ r \in due
  <2>1. h = AdmitNext(g, 1)
    BY <1>6 DEF Acquire, AcquireTooLate
  <2> HIDE DEF h
  <2>2. PICK who : Admits(g, h, 1, who)
    BY <1>1, <1>6, <2>1, AdmitNextSound
  <2>3. Advanced(g, h, r)
    <3>1. Sound(h)
      BY <2>2 DEF Admits
    <3>. QED
      BY <2>2, <3>1, AdmittedAdvances
  <2>4. h.state[r] = "expired"
    BY <1>6, <2>2 DEF Admits
  <2>. QED
    BY <2>3, <2>4 DEF Decided, Waiting, Terminal, h
<1>7. CASE g.state[r] = "queued" /\ Free(g) # 0 /\ r \notin due
  <2> DEFINE turn == Cardinality(Ahead(g, r))
             n == IF turn <= Free(g) THEN turn ELSE Free(g)
             m == AdmitNext(g, n)
  <2>1. h = IF m.state[r] = "admitted" THEN Start(m, r) ELSE m
    BY <1>7 DEF Acquire, AcquireInTime
  <2>2. PICK p \in 1..Len(g.queue) : g.queue[p] = r
    BY <1>7 DEF Sound, Queued
  <2>3. p \in Live(g) /\ r \in Queued(g) \ due
    BY <1>7, <2>2 DEF Live, Queued
  <2>4. Ahead(g, r) = {j \in Live(g) : j <= p}
    <3>1. \A j \in Live(g) : g.queue[j] = r <=> j = p
      BY <2>2 DEF Sound, Live
    <3>. QED
      BY <2>3, <3>1 DEF Ahead
  <2>5. turn \in Nat /\ n \in Nat /\ n <= Free(g)
    <3>1. IsFiniteSet(1..Len(g.queue)) /\ Ahead(g, r) \in SUBSET (1..Len(g.queue))
      <4>1. g.queue \in Seq(Request)
        BY <1>1
      <4>2. Len(g.queue) \in Nat
        BY <4>1
      <4>3. IsFiniteSet(1..Len(g.queue))
        BY <4>2, FS_Interval
      <4>. QED
        BY <4>3 DEF Ahead, Live
    <3>2. turn \in Nat
      BY <3>1, FS_Subset, FS_CardinalityType
    <3> HIDE DEF turn
    <3>. QED
      BY <1>1, <3>2
  <2> HIDE DEF turn, n
  <2>6. PICK who : Admits(g, m, n, who)
    BY <2>5, AdmitNextSound
  <2>7. turn <= n => r \in who
    <3>1. g.queue[p] \in who <=> Cardinality({j \in Live(g) : j <= p}) <= n
      BY <2>3, <2>6 DEF Admits
    <3>. QED
      BY <2>2, <2>4, <3>1 DEF turn
  <2> HIDE DEF m, h
  <2>8. Sound(m)
    BY <2>6 DEF Admits
  <2>9. CASE r \in who
    <3>1. m.state[r] = "admitted"
      BY <2>6, <2>9 DEF Admits
    <3>2. /\ Sound(h) /\ h.queue = m.queue /\ h.inflight = m.inflight
          /\ h.state = [m.state EXCEPT ![r] = "running"]
      BY <1>7, <2>1, <2>8, <3>1, StartSound
    <3>3. /\ Sound(h) /\ h.queue = m.queue /\ h.inflight = m.inflight
          /\ h.state[r] = "running" /\ \A x \in Request \ {r} : h.state[x] = m.state[x]
      BY <2>8, <3>2 DEF Sound
    <3>4. Advanced(g, h, r)
      BY <2>6, <3>1, <3>3, AdmittedAdvances
    <3>. QED
      BY <1>7, <3>3, <3>4 DEF Decided, Waiting, h
  <2>10. CASE r \notin who
    <3>1. m.state[r] = "queued"
      BY <1>7, <2>6, <2>10 DEF Admits
    <3>2. h = m
      BY <2>1, <3>1
    <3>3. Advanced(g, h, r)
      BY <2>6, <2>8, <3>2, AdmittedAdvances
    <3>4. n = Free(g)
      BY <1>1, <2>5, <2>7, <2>10 DEF n
    <3>5. Cardinality(who) = n /\ m.inflight = g.inflight + Cardinality(who)
      BY <2>3, <2>6, <2>10 DEF Admits
    <3>6. m.inflight = MaxRunning
      BY <1>1, <3>4, <3>5
    <3>. QED
      BY <1>7, <3>1, <3>2, <3>3, <3>6 DEF Decided, Waiting, h
  <2>. QED
    BY <2>9, <2>10
<1>. QED
  BY <1>1, <1>2, <1>3, <1>4, <1>5, <1>6, <1>7

-----------------------------------------------------------------------------
(* The invariant.                                                           *)

\* Where the task of request x is in its coroutine, given gate g, tasks t and the
\* deadlines d that have passed.
Fits(g, t, d, x) ==
  /\ t[x] = "idle" <=> g.state[x] = "new"
  /\ t[x] = "idle" => \A i \in 1..Len(g.queue) : g.queue[i] # x
  /\ g.state[x] = "queued" => t[x] \in {"ready", "asleep"}
  /\ g.state[x] = "admitted" => t[x] = "ready"
  /\ g.state[x] = "running" <=> t[x] = "busy"
  /\ t[x] = "asleep" => IF g.state[x] = "queued" THEN g.inflight = MaxRunning ELSE x \in d

Tasks == {"idle", "ready", "asleep", "busy", "done"}

IInv ==
  /\ Sound(Gate)
  /\ task \in [Request -> Tasks]
  /\ due \subseteq Timed
  /\ \A x \in Request : Fits(Gate, task, due, x)

\* The invariant gives the types and the accounts.
LEMMA InvGivesAccounts ==
  ASSUME IInv
  PROVE  TypeOK /\ SlotsAreAccounted
<1>1. Held(Gate) = Holding /\ Gate.inflight = inflight /\ Gate.state = state
      /\ Gate.queue = queue
  BY DEF Held, Holding, Gate
<1>2. /\ state \in [Request -> States] /\ queue \in Seq(Request) /\ inflight \in Nat
      /\ inflight = Cardinality(Holding) /\ inflight <= MaxRunning
  BY <1>1 DEF IInv, Sound
<1>3. TypeOK
  BY <1>2 DEF TypeOK, IInv, Tasks
<1>4. \A r \in Request : task[r] = "asleep" =>
        IF state[r] = "queued" THEN inflight = MaxRunning ELSE r \in due
  BY <1>1 DEF IInv, Fits
<1>5. \A r \in Holding : task[r] = IF state[r] = "admitted" THEN "ready" ELSE "busy"
  BY <1>1 DEF IInv, Fits, Holding
<1>. QED
  BY <1>2, <1>3, <1>4, <1>5 DEF SlotsAreAccounted

\* The next gate is the one that a step computes.
LEMMA BecomesGate ==
  ASSUME NEW h, Sound(h), Becomes(h)
  PROVE  Gate' = h
<1>1. h \in [state : [Request -> States], queue : Seq(Request), inflight : Nat]
  BY DEF Sound
<1>2. h = [state |-> h.state, queue |-> h.queue, inflight |-> h.inflight]
  BY <1>1
<1>. QED
  BY <1>2, Zenon DEF Becomes, Gate

\* The tasks after notify_all.
LEMMA WokenTasks ==
  ASSUME task \in [Request -> Tasks]
  PROVE  /\ Woken \in [Request -> Tasks]
         /\ \A x \in Request : Woken[x] = IF task[x] = "asleep" THEN "ready" ELSE task[x]
BY DEF Woken, Tasks

\* A step of r's task that settles in gate h, having started in g.
LEMMA SettleFits ==
  ASSUME NEW r \in Request, NEW g, Sound(g), NEW h, Advanced(g, h, r), Decided(g, h, r),
         Settle(g, h, r), UNCHANGED due,
         task \in [Request -> Tasks], due \subseteq Timed,
         \A x \in Request \ {r} : Fits(g, task, due, x)
  PROVE  /\ IInv' /\ state' = h.state
         /\ queue' = h.queue \/ (queue' = Only(h.queue, Request \ {r}) /\ h.state[r] \in Terminal)
<1> DEFINE k == Gate'
           others == IF Notifies(g, h) THEN Woken ELSE task
<1>1. /\ Sound(h) /\ h \in [state : [Request -> States], queue : Seq(Request), inflight : Nat]
  BY DEF Advanced, Sound
<1>2. \A x \in Request :
        others[x] = IF task[x] = "asleep" /\ h.inflight # g.inflight THEN "ready" ELSE task[x]
  BY WokenTasks DEF Notifies
<1>3. others \in [Request -> Tasks]
  BY WokenTasks
<1> HIDE DEF others
<1>4. /\ Sound(k) /\ k.state = h.state /\ k.inflight = h.inflight
      /\ Within(k.queue, h.queue)
      /\ k.queue = h.queue \/ (k.queue = Only(h.queue, Request \ {r}) /\ h.state[r] \in Terminal)
  <2>1. CASE Becomes(h)
    <3>1. k = h
      BY <1>1, <2>1, BecomesGate
    <3>. QED
      BY <1>1, <3>1 DEF Within
  <2>2. CASE h.state[r] \in Terminal /\ Becomes(Forget(h, r))
    <3> DEFINE f == Forget(h, r)
    <3>1. /\ Sound(f) /\ f.state = h.state /\ f.inflight = h.inflight
          /\ f.queue = Only(h.queue, Request \ {r})
          /\ Within(f.queue, h.queue)
      BY <1>1, <2>2, ForgetSound DEF Terminal
    <3>2. k = f
      BY <2>2, <3>1, BecomesGate
    <3> HIDE DEF f, k
    <3>. QED
      BY <2>2, <3>1, <3>2
  <2>. QED
    BY <2>1, <2>2 DEF Settle
<1>5. \E a \in {"asleep", "busy", "done"} :
        /\ task' = [others EXCEPT ![r] = a]
        /\ a = "asleep" <=> h.state[r] = "queued"
        /\ a = "busy" <=> h.state[r] = "running"
  <2>1. CASE h.state[r] = "queued" /\ task' = [others EXCEPT ![r] = "asleep"]
    BY <2>1
  <2>2. CASE h.state[r] = "running" /\ task' = [others EXCEPT ![r] = "busy"]
    BY <2>2
  <2>3. CASE h.state[r] \in Terminal /\ task' = [others EXCEPT ![r] = "done"]
    BY <2>3 DEF Terminal
  <2>. QED
    BY <2>1, <2>2, <2>3 DEF Settle, others
<1>6. PICK a \in {"asleep", "busy", "done"} :
        /\ task' = [others EXCEPT ![r] = a]
        /\ a = "asleep" <=> h.state[r] = "queued"
        /\ a = "busy" <=> h.state[r] = "running"
  BY <1>5
<1>7. /\ task' \in [Request -> Tasks] /\ task'[r] = a
      /\ \A x \in Request \ {r} : task'[x] = others[x]
  BY <1>3, <1>6 DEF Tasks
<1> HIDE DEF k
<1>8. Within(h.queue, g.queue)
  <2>1. PICK n \in 0..Len(g.queue) : h.queue = SubSeq(g.queue, n + 1, Len(g.queue))
    BY DEF Advanced, Popped
  <2> DEFINE s == g.queue
  <2>2. s \in Seq(Request) /\ Len(s) \in Nat /\ n \in 0..Len(s)
    BY DEF Sound
  <2>3. /\ h.queue = SubSeq(s, n + 1, Len(s)) /\ Len(h.queue) = Len(s) - n
        /\ \A i \in 1..(Len(s) - n) : h.queue[i] = s[n + i]
    <3> HIDE DEF s
    <3>1. h.queue = SubSeq(s, n + 1, Len(s))
      BY <2>1 DEF s
    <3>. QED
      BY <2>2, <3>1, Suffix, Zenon
  <2> HIDE DEF s
  <2>4. \A i \in 1..(Len(s) - n) : n + i \in 1..Len(s)
    BY <2>2
  <2>. QED
    BY <2>3, <2>4 DEF s, Within
<1>9. ASSUME NEW x \in Request \ {r}
      PROVE  Fits(k, task', due, x)
  <2>0. Within(k.queue, g.queue)
    <3>1. Within(k.queue, h.queue)
      BY <1>4
    <3>. QED
      BY <1>8, <3>1 DEF Within
  <2>1. Fits(g, task, due, x)
    BY <1>9
  <2>2. \/ h.state[x] = g.state[x]
        \/ g.state[x] = "queued" /\ h.state[x] = "expired" /\ x \in due
        \/ g.state[x] = "queued" /\ h.state[x] = "admitted" /\ h.inflight # g.inflight
    BY <1>9 DEF Advanced
  <2>3. task'[x] = IF task[x] = "asleep" /\ h.inflight # g.inflight THEN "ready" ELSE task[x]
    BY <1>2, <1>7, <1>9
  <2>4. task'[x] = "idle" => \A i \in 1..Len(k.queue) : k.queue[i] # x
    BY <2>0, <2>1, <2>3 DEF Fits, Within
  <2>5. k.state[x] = h.state[x] /\ k.inflight = h.inflight
    BY <1>4
  <2>. QED
    BY <2>1, <2>2, <2>3, <2>4, <2>5 DEF Fits
<1>10. Fits(k, task', due, r)
  <2>1. /\ h.state[r] \in {"queued", "running"} \cup Terminal
        /\ h.state[r] = "queued" => h.inflight = MaxRunning
    BY DEF Decided
  <2>2. k.state[r] = h.state[r] /\ k.inflight = h.inflight
    BY <1>4
  <2>. QED
    BY <1>6, <1>7, <2>1, <2>2 DEF Fits, Terminal
<1>11. IInv'
  <2>1. \A x \in Request : Fits(Gate', task', due', x)
    BY <1>9, <1>10 DEF k
  <2>. QED
    BY <1>4, <1>7, <2>1 DEF IInv, k, Sound, Queued, Held, Fits
<1>12. k.state = state' /\ k.queue = queue'
  BY DEF k, Gate
<1>. QED
  BY <1>4, <1>11, <1>12

-----------------------------------------------------------------------------
(* Every step keeps the invariant.                                          *)

\* Whoever starts in this step is in time.
StartInTime ==
  \A r \in Request : state[r] # "running" /\ state'[r] = "running" => r \notin due

\* The gate is the record of its variables.
LEMMA GateFields ==
  /\ Gate.state = state /\ Gate.queue = queue /\ Gate.inflight = inflight
  /\ Gate' = [state |-> state', queue |-> queue', inflight |-> inflight']
BY DEF Gate

\* What r's step may do to the others, on the gate h.
OthersStay(h, r) ==
  \A x \in Request \ {r} :
    h.state[x] = state[x] \/ (state[x] = "queued" /\ h.state[x] = "expired" /\ x \in due)

\* How far a request in state s has come.
Stage(s) ==
  CASE s = "new" -> "idle"
    [] s = "queued" -> "waiting"
    [] s \in {"admitted", "running"} -> "granted"
    [] OTHER -> "over"

\* The step of one request r, q being the queue with r in it when r arrives.  Nobody
\* goes back, and only r moves without having waited.  Those who wait keep the places
\* they have in q, and nobody is admitted before one who waits.
Evolves(q, r) ==
  /\ \A x \in Request :
       \/ Stage(state'[x]) = Stage(state[x])
       \/ <<Stage(state[x]), Stage(state'[x])>> \in Pool!Moves
  /\ \A x \in Request \ {r} : Stage(state'[x]) # Stage(state[x]) => state[x] = "queued"
  /\ Only(queue', Queued(Gate')) = Only(q, Queued(Gate'))
  /\ \A i, j \in 1..Len(q) :
       j <= i /\ q[i] \in Held(Gate') \ Held(Gate) => q[j] \notin Queued(Gate')
  /\ \/ q = queue /\ (r \in Request /\ state[r] = "new" =>
                        Stage(state'[r]) \notin {"waiting", "granted"})
     \/ q = Append(queue, r) /\ r \in Request /\ state[r] = "new" /\ task[r] = "idle"

Progress == \E q, r : Evolves(q, r)

\* Dropping the entry of one who does not wait, and what has been popped, leaves the
\* line of those who wait.
LEMMA LineStays ==
  ASSUME NEW g, Sound(g), NEW h, Sound(h), Popped(g, h), NEW r, NEW p,
         p = h.queue \/ (p = Only(h.queue, Request \ {r}) /\ r \notin Queued(h))
  PROVE  Only(p, Queued(h)) = Only(g.queue, Queued(h))
<1> DEFINE s == g.queue
           W == Queued(h)
           u == h.queue
<1>1. s \in Seq(Request) /\ u \in Seq(Request) /\ W \subseteq Request
  BY DEF Sound, Queued
<1>2. PICK k \in 0..Len(s) : u = SubSeq(s, k + 1, Len(s)) /\ \A i \in 1..k : s[i] \notin W
  BY DEF Popped
<1>3. p = u \/ (p = Only(u, Request \ {r}) /\ r \notin W)
  OBVIOUS
<1> HIDE DEF s, W, u
<1>4. Only(u, W) = Only(s, W)
  <2>1. Only(SubSeq(s, k + 1, Len(s)), W) = Only(s, W)
    BY <1>1, <1>2, OnlySuffix
  <2>. QED
    BY <1>2, <2>1, Zenon
<1>5. Only(p, W) = Only(u, W)
  <2>1. CASE p = u
    BY <2>1
  <2>2. CASE p = Only(u, Request \ {r}) /\ r \notin W
    <3>1. (Request \ {r}) \cap W = W
      BY <1>1, <2>2
    <3>2. Only(Only(u, Request \ {r}), W) = Only(u, (Request \ {r}) \cap W)
      BY <1>1, OnlyOnly
    <3>. QED
      BY <2>2, <3>1, <3>2, Zenon
  <2>. QED
    BY <1>3, <2>1, <2>2
<1>. QED
  BY <1>4, <1>5, Zenon DEF s, W

\* Gate g is where the step of r's task begins: something may have expired, and r may
\* have been submitted.
Begins(g, r) ==
  /\ Sound(g)
  /\ \A x \in Request \ {r} : Fits(g, task, due, x)
  /\ OthersStay(g, r)
  /\ g.state[r] \notin {"new", "running"}
  /\ \/ /\ g.queue = queue /\ state[r] # "new"
        /\ g.state[r] = state[r] \/ (state[r] = "queued" /\ g.state[r] = "expired")
     \/ /\ g.queue = Append(queue, r) /\ g.state[r] = "queued"
        /\ state[r] = "new" /\ task[r] = "idle"

\* What a step's own task does keeps it, when the step began in gate g.
LEMMA SettleKeeps ==
  ASSUME IInv, NEW r \in Request, NEW g, Begins(g, r),
         NEW h, h = Acquire(g, r), Settle(g, h, r), UNCHANGED due
  PROVE  IInv' /\ StartInTime /\ Progress
<1>1. Advanced(g, h, r) /\ Decided(g, h, r)
  BY AcquireAdvances DEF Begins
<1>2. /\ IInv' /\ state' = h.state
      /\ queue' = h.queue \/ (queue' = Only(h.queue, Request \ {r}) /\ h.state[r] \in Terminal)
  BY <1>1, SettleFits DEF IInv, Begins
<1>3. /\ Sound(g) /\ Sound(h) /\ Sound(Gate)
      /\ g.state[r] \in States /\ h.state[r] \in States /\ state[r] \in States
      /\ \A x \in Request : state[x] \in States
  BY <1>1, GateFields DEF Begins, Advanced, IInv, Sound
<1>4. StartInTime
  <2>1. \A x \in Request \ {r} : h.state[x] = "running" => state[x] = "running"
    BY <1>1 DEF Advanced, Begins, OthersStay
  <2>2. h.state[r] = "running" => r \notin due
    BY <1>1 DEF Decided
  <2>. QED
    BY <1>2, <2>1, <2>2 DEF StartInTime
<1>5. Queued(Gate') = Queued(h) /\ Held(Gate') = Held(h)
  BY <1>2, GateFields DEF Queued, Held
<1>6. ASSUME NEW x \in Request \ {r}
      PROVE  \/ h.state[x] = state[x]
             \/ state[x] = "queued" /\ h.state[x] \in {"expired", "admitted"}
  BY <1>1, <1>6 DEF Advanced, Begins, OthersStay
<1>7. /\ h.state[r] = "queued" => state[r] \in {"new", "queued"}
      /\ h.state[r] = "running" => state[r] \in {"new"} \cup Waiting
      /\ h.state[r] \in {"queued", "running"} \cup Terminal
  BY <1>1 DEF Decided, Begins, Waiting
<1>8. /\ \A x \in Request :
           \/ Stage(state'[x]) = Stage(state[x])
           \/ <<Stage(state[x]), Stage(state'[x])>> \in Pool!Moves
      /\ \A x \in Request \ {r} : Stage(state'[x]) # Stage(state[x]) => state[x] = "queued"
  <2>1. \A x \in Request \ {r} :
          \/ state'[x] = state[x]
          \/ state[x] = "queued" /\ state'[x] \in {"expired", "admitted"}
    BY <1>2, <1>6
  <2>2. \/ Stage(state'[r]) = Stage(state[r])
        \/ <<Stage(state[r]), Stage(state'[r])>> \in Pool!Moves
    BY <1>2, <1>3, <1>7 DEF Stage, Pool!Moves, Waiting, Terminal, States
  <2>. QED
    BY <2>1, <2>2 DEF Stage, Pool!Moves
<1>9. Only(queue', Queued(h)) = Only(g.queue, Queued(h))
  <2>1. h.state[r] \in Terminal => r \notin Queued(h)
    BY DEF Terminal, Queued
  <2>2. Popped(g, h)
    BY <1>1 DEF Advanced
  <2>. QED
    BY <1>2, <1>3, <2>1, <2>2, LineStays
<1>10. Held(h) \ Held(Gate) \subseteq Queued(g) \cap Held(h)
  <2> SUFFICES ASSUME NEW x \in Held(h), x \notin Held(Gate)
               PROVE  x \in Queued(g)
    OBVIOUS
  <2>1. CASE x = r
    <3>1. h.state[r] = "running" /\ state[r] \in {"new", "queued"}
      BY <1>7, <2>1, GateFields DEF Held, Terminal, Waiting
    <3>2. g.state[r] = "queued"
      BY <1>1, <3>1 DEF Decided, Begins, Waiting
    <3>. QED
      BY <2>1, <3>2 DEF Queued
  <2>2. CASE x # r
    BY <1>1, <2>2, GateFields DEF Held, Queued, Begins, Advanced, OthersStay
  <2>. QED
    BY <2>1, <2>2
<1>11. \A i, j \in 1..Len(g.queue) :
         j <= i /\ g.queue[i] \in Held(h) \ Held(Gate) => g.queue[j] \notin Queued(h)
  BY <1>1, <1>10 DEF Advanced
<1>12. Evolves(g.queue, r)
  <2>1. \/ g.queue = queue /\ state[r] # "new"
        \/ g.queue = Append(queue, r) /\ state[r] = "new" /\ task[r] = "idle"
    BY DEF Begins
  <2>. QED
    BY <1>5, <1>8, <1>9, <1>11, <2>1 DEF Evolves
<1>. QED
  BY <1>2, <1>4, <1>12 DEF Progress

\* Expiring what is due leaves every task where it fits.
LEMMA ExpiredFits ==
  ASSUME IInv
  PROVE  LET g == ExpireQueued(Gate)
         IN  /\ Sound(g) /\ g.queue = queue /\ g.inflight = inflight
             /\ \A x \in Request : Fits(g, task, due, x)
             /\ \A x \in Request : g.state[x] = IF state[x] = "queued" /\ x \in due
                                                THEN "expired" ELSE state[x]
<1> DEFINE g == ExpireQueued(Gate)
<1>1. /\ Sound(g) /\ g.queue = queue /\ g.inflight = inflight
      /\ \A x \in Request : g.state[x] = IF state[x] = "queued" /\ x \in due
                                         THEN "expired" ELSE state[x]
  BY ExpireSound, GateFields DEF IInv
<1> HIDE DEF g
<1>2. \A x \in Request : Fits(g, task, due, x)
  <2> SUFFICES ASSUME NEW x \in Request
               PROVE  Fits(g, task, due, x)
    OBVIOUS
  <2>1. Fits(Gate, task, due, x)
    BY DEF IInv
  <2>2. /\ g.state[x] = IF Gate.state[x] = "queued" /\ x \in due
                        THEN "expired" ELSE Gate.state[x]
        /\ g.queue = Gate.queue /\ g.inflight = Gate.inflight
    BY <1>1, GateFields
  <2>. QED
    BY <2>1, <2>2 DEF Fits
<1>. QED
  BY <1>1, <1>2 DEF g

LEMMA EnterKeeps ==
  ASSUME IInv, NEW r \in Request, Enter(r)
  PROVE  IInv' /\ StartInTime /\ Progress
<1> DEFINE e == ExpireQueued(Gate)
           g == Submitted(e, r)
<1>1. /\ Sound(e) /\ e.queue = queue /\ e.inflight = inflight
      /\ \A x \in Request : Fits(e, task, due, x)
      /\ \A x \in Request : e.state[x] = IF state[x] = "queued" /\ x \in due
                                         THEN "expired" ELSE state[x]
  BY ExpiredFits
<1>2. task[r] = "idle" /\ UNCHANGED due /\ \E h \in {Acquire(g, r)} : Settle(g, h, r)
  BY DEF Enter
<1> HIDE DEF e
<1>3. e.state[r] = "new" /\ \A i \in 1..Len(e.queue) : e.queue[i] # r
  BY <1>1, <1>2 DEF Fits
<1>4. /\ Sound(g) /\ g.inflight = e.inflight /\ g.state = [e.state EXCEPT ![r] = "queued"]
      /\ g.queue = Append(e.queue, r)
  BY <1>1, <1>3, SubmitSound
<1> HIDE DEF g
<1>5. /\ g.state[r] = "queued" /\ \A x \in Request \ {r} : g.state[x] = e.state[x]
      /\ \A i \in 1..Len(g.queue) : g.queue[i] = r \/ \E j \in 1..Len(e.queue) : g.queue[i] = e.queue[j]
  <2>1. e.queue \in Seq(Request) /\ e.state \in [Request -> States]
    BY <1>1 DEF Sound
  <2> DEFINE s == e.queue
  <2>2. /\ Len(s) \in Nat /\ Len(Append(s, r)) = Len(s) + 1
        /\ Append(s, r)[Len(s) + 1] = r /\ \A i \in 1..Len(s) : Append(s, r)[i] = s[i]
    BY <2>1
  <2>3. \A i \in 1..(Len(s) + 1) : i \in 1..Len(s) \/ i = Len(s) + 1
    BY <2>2
  <2> HIDE DEF s
  <2>4. \A i \in 1..Len(g.queue) : g.queue[i] = r \/ \E j \in 1..Len(s) : g.queue[i] = s[j]
    BY <1>4, <2>2, <2>3 DEF s
  <2>. QED
    BY <1>4, <2>1, <2>4 DEF s
<1>6. \A x \in Request \ {r} : Fits(g, task, due, x)
  <2> SUFFICES ASSUME NEW x \in Request \ {r}
               PROVE  Fits(g, task, due, x)
    OBVIOUS
  <2>1. Fits(e, task, due, x)
    BY <1>1
  <2>. QED
    BY <1>4, <1>5, <2>1 DEF Fits
<1>7. Begins(g, r)
  <2>1. OthersStay(g, r)
    BY <1>1, <1>5 DEF OthersStay
  <2>2. state[r] = "new"
    BY <1>1, <1>3
  <2>. QED
    BY <1>1, <1>2, <1>4, <1>5, <1>6, <2>1, <2>2 DEF Begins
<1>. QED
  BY <1>2, <1>7, SettleKeeps

LEMMA ResumeKeeps ==
  ASSUME IInv, NEW r \in Request, Resume(r)
  PROVE  IInv' /\ StartInTime /\ Progress
<1>1. task[r] = "ready" /\ UNCHANGED due /\ \E h \in {Acquire(Gate, r)} : Settle(Gate, h, r)
  BY DEF Resume
<1>2. Sound(Gate) /\ \A x \in Request : Fits(Gate, task, due, x)
  BY DEF IInv
<1>3. Gate.state[r] \notin {"new", "running"}
  BY <1>1, <1>2 DEF Fits
<1>4. Begins(Gate, r)
  <2>1. OthersStay(Gate, r)
    BY GateFields DEF OthersStay
  <2>. QED
    BY <1>2, <1>3, <2>1, GateFields DEF Begins
<1>. QED
  BY <1>1, <1>4, SettleKeeps

LEMMA TimeOutKeeps ==
  ASSUME IInv, NEW r \in Request, TimeOut(r)
  PROVE  IInv' /\ StartInTime /\ Progress
<1> DEFINE g == ExpireQueued(Gate)
<1>1. /\ task[r] \in {"ready", "asleep"} /\ UNCHANGED due
      /\ \E h \in {Acquire(g, r)} : Settle(g, h, r)
  BY DEF TimeOut
<1>2. /\ Sound(g) /\ g.queue = queue /\ \A x \in Request : Fits(g, task, due, x)
      /\ \A x \in Request : g.state[x] = IF state[x] = "queued" /\ x \in due
                                         THEN "expired" ELSE state[x]
  BY ExpiredFits
<1> HIDE DEF g
<1>3. g.state[r] \notin {"new", "running"}
  BY <1>1, <1>2 DEF Fits
<1>4. Begins(g, r)
  <2>1. OthersStay(g, r)
    BY <1>2 DEF OthersStay
  <2>2. state[r] # "new"
    BY <1>2, <1>3
  <2>. QED
    BY <1>2, <1>3, <2>1, <2>2 DEF Begins
<1>. QED
  BY <1>1, <1>4, SettleKeeps

\* A step that works on the gate for r, makes it h and leaves r's task in state a: r is
\* over, or runs as before.
Leaves(h, r, a) ==
  /\ Sound(h)
  /\ h.state[r] \in {"running"} \cup Terminal
  /\ h.state[r] = "running" => state[r] = "running"
  /\ a \in {"done", "busy", "ready"} /\ (a = "busy" <=> h.state[r] = "running")
  /\ OthersStay(h, r)
  /\ h.queue = queue \/ h.queue = Only(queue, Request \ {r})
  /\ \/ task' = [Woken EXCEPT ![r] = a]
     \/ task' = [task EXCEPT ![r] = a] /\ h.inflight = inflight

\* A step after which its request is over, or runs as before, preserves the invariant.
LEMMA LeavesKeeps ==
  ASSUME IInv, NEW r \in Request, NEW h, Becomes(h), UNCHANGED due, NEW a, Leaves(h, r, a)
  PROVE  IInv' /\ StartInTime /\ Progress
<1>1. Gate' = h /\ state' = h.state /\ queue' = h.queue
  BY BecomesGate DEF Leaves, Becomes
<1>2. /\ task \in [Request -> Tasks] /\ Woken \in [Request -> Tasks]
      /\ \A x \in Request : Woken[x] = IF task[x] = "asleep" THEN "ready" ELSE task[x]
  BY WokenTasks DEF IInv
<1>3. /\ task' \in [Request -> Tasks] /\ task'[r] = a
      /\ \A x \in Request \ {r} :
           \/ task'[x] = IF task[x] = "asleep" THEN "ready" ELSE task[x]
           \/ task'[x] = task[x] /\ h.inflight = inflight
  BY <1>2 DEF Tasks, Leaves
<1>4. Fits(h, task', due, r)
  BY <1>3 DEF Fits, Leaves, Terminal
<1>5. /\ \A x \in Request \ {r} :
           h.state[x] = state[x] \/ (state[x] = "queued" /\ h.state[x] = "expired" /\ x \in due)
      /\ \A x \in Request : h.state[x] = "running" => state[x] = "running"
  BY DEF Leaves, OthersStay
<1>6. queue \in Seq(Request) /\ Sound(Gate) /\ Sound(h)
  BY GateFields DEF IInv, Sound, Leaves
<1>7. \A i \in 1..Len(h.queue) : \E j \in 1..Len(queue) : h.queue[i] = queue[j]
  <2>1. CASE h.queue = queue
    BY <2>1
  <2>2. CASE h.queue = Only(queue, Request \ {r})
    <3> DEFINE S == Request \ {r}
               p == Only(queue, S)
    <3> HIDE DEF S
    <3>1. \A i \in 1..Len(p) : p[i] \in S /\ \E j \in 1..Len(queue) : queue[j] = p[i]
      BY <1>6, OnlyElements
    <3>2. h.queue = p
      BY <2>2 DEF S
    <3> HIDE DEF p
    <3>. QED
      BY <3>1, <3>2
  <2>. QED
    BY <2>1, <2>2 DEF Leaves
<1>8. ASSUME NEW x \in Request \ {r}
      PROVE  Fits(h, task', due, x)
  <2>1. Fits(Gate, task, due, x)
    BY DEF IInv
  <2>2. task[x] = "idle" => \A i \in 1..Len(h.queue) : h.queue[i] # x
    <3>1. task[x] = "idle" => \A j \in 1..Len(queue) : queue[j] # x
      BY <2>1, GateFields DEF Fits
    <3>. QED
      BY <1>7, <3>1
  <2>3. /\ h.state[x] = state[x] \/ (state[x] = "queued" /\ h.state[x] = "expired" /\ x \in due)
        /\ \/ task'[x] = IF task[x] = "asleep" THEN "ready" ELSE task[x]
           \/ task'[x] = task[x] /\ h.inflight = inflight
    BY <1>3, <1>5, <1>8
  <2>. QED
    BY <2>1, <2>2, <2>3, GateFields DEF Fits
<1>9. \A x \in Request : Fits(Gate', task', due', x)
  BY <1>1, <1>4, <1>8
<1>10. IInv'
  BY <1>1, <1>3, <1>6, <1>9 DEF IInv, Sound, Queued, Held, Fits
<1>11. StartInTime
  BY <1>1, <1>5 DEF StartInTime
<1>12. \A x \in Request :
         \/ Stage(state'[x]) = Stage(state[x])
         \/ <<Stage(state[x]), Stage(state'[x])>> \in Pool!Moves
  <2>1. \/ Stage(state'[r]) = Stage(state[r])
        \/ <<Stage(state[r]), Stage(state'[r])>> \in Pool!Moves
    <3>1. h.state[r] \in {"running"} \cup Terminal /\ (h.state[r] = "running" => state[r] = "running")
          /\ state[r] \in States
      BY <1>6, GateFields DEF Leaves, Sound
    <3>. QED
      BY <1>1, <3>1 DEF Stage, Pool!Moves, Terminal, States, Waiting
  <2>2. \A x \in Request \ {r} :
          state'[x] = state[x] \/ (state[x] = "queued" /\ state'[x] = "expired")
    BY <1>1, <1>5
  <2>. QED
    BY <2>1, <2>2 DEF Stage, Pool!Moves
<1>13. \A x \in Request \ {r} : Stage(state'[x]) # Stage(state[x]) => state[x] = "queued"
  BY <1>1, <1>5
<1>14. Only(queue', Queued(Gate')) = Only(queue, Queued(Gate'))
  <2>1. r \notin Queued(h)
    BY DEF Leaves, Queued, Terminal
  <2> DEFINE W == Queued(h)
  <2>2. (Request \ {r}) \cap W = W
    BY <2>1 DEF Queued
  <2> HIDE DEF W
  <2>3. Only(Only(queue, Request \ {r}), W) = Only(queue, (Request \ {r}) \cap W)
    BY <1>6, OnlyOnly
  <2>4. Only(h.queue, W) = Only(queue, W)
    <3>1. CASE h.queue = queue
      BY <3>1
    <3>2. CASE h.queue = Only(queue, Request \ {r})
      BY <2>2, <2>3, <3>2, Zenon
    <3>. QED
      BY <3>1, <3>2 DEF Leaves
  <2>. QED
    BY <1>1, <2>4 DEF W
<1>15. Held(Gate') \ Held(Gate) = {}
  BY <1>1, <1>5, GateFields DEF Held, Leaves, OthersStay, Terminal
<1>16. Stage(state'[r]) \in {"granted", "over"} /\ (state[r] = "new" => state'[r] # "running")
       /\ (state'[r] # "running" => Stage(state'[r]) = "over")
  BY <1>1 DEF Stage, Leaves, Terminal
<1>17. Evolves(queue, r)
  BY <1>12, <1>13, <1>14, <1>15, <1>16 DEF Evolves
<1>. QED
  BY <1>10, <1>11, <1>17 DEF Progress

LEMMA RejectKeeps ==
  ASSUME IInv, NEW r \in Request, Reject(r)
  PROVE  IInv' /\ StartInTime /\ Progress
<1> DEFINE g == ExpireQueued(Gate)
           h == [g EXCEPT !.state[r] = "rejected"]
<1>1. /\ task[r] = "idle" /\ Becomes(h) /\ task' = [task EXCEPT ![r] = "done"]
      /\ UNCHANGED due
  BY DEF Reject
<1>2. /\ Sound(g) /\ g.queue = queue /\ g.inflight = inflight
      /\ \A x \in Request : Fits(g, task, due, x)
      /\ \A x \in Request : g.state[x] = IF state[x] = "queued" /\ x \in due
                                         THEN "expired" ELSE state[x]
  BY ExpiredFits
<1> HIDE DEF g
<1>3. g.state[r] = "new" /\ r \notin Held(g)
      /\ "rejected" \in States \ {"admitted", "running", "queued"}
  BY <1>1, <1>2 DEF Fits, Held, States, Terminal
<1>4. /\ Sound(h) /\ h.queue = g.queue /\ h.inflight = g.inflight
      /\ h.state = [g.state EXCEPT ![r] = "rejected"]
  BY <1>2, <1>3, Marked
<1> HIDE DEF h
<1>5. h.state[r] = "rejected" /\ \A x \in Request \ {r} : h.state[x] = g.state[x]
  BY <1>2, <1>4 DEF Sound
<1>6. Leaves(h, r, "done")
  BY <1>1, <1>2, <1>4, <1>5 DEF Leaves, OthersStay, Terminal
<1>. QED
  BY <1>1, <1>6, LeavesKeeps

LEMMA DisconnectKeeps ==
  ASSUME IInv, NEW r \in Request, Disconnect(r)
  PROVE  IInv' /\ StartInTime /\ Progress
<1> DEFINE g == Cancelled(Gate, r)
           h == Forget(g, r)
<1>1. /\ task[r] \in {"ready", "asleep"} /\ Becomes(h)
      /\ task' = [Woken EXCEPT ![r] = "done"] /\ UNCHANGED due
  BY DEF Disconnect
<1>2. Sound(Gate) /\ Fits(Gate, task, due, r)
  BY DEF IInv
<1>3. /\ Sound(g) /\ g.queue = queue
      /\ IF state[r] \in Waiting THEN g.state = [state EXCEPT ![r] = "cancelled"] ELSE g = Gate
  BY <1>2, CancelSound, GateFields
<1> HIDE DEF g
<1>4. /\ g.state[r] \in Terminal /\ \A x \in Request \ {r} : g.state[x] = state[x]
  <2>1. state \in [Request -> States] /\ state[r] \notin {"new", "running"}
    BY <1>1, <1>2, GateFields DEF Sound, Fits
  <2>. QED
    BY <1>3, <2>1, GateFields DEF Waiting, Terminal, States
<1>5. Sound(h) /\ h.state = g.state /\ h.queue = Only(queue, Request \ {r})
  <2>1. g.state[r] # "queued"
    BY <1>4 DEF Terminal
  <2>2. /\ Sound(h) /\ h.state = g.state
        /\ h.queue = Only(g.queue, Request \ {r})
    BY <1>3, <2>1, ForgetSound
  <2> HIDE DEF h
  <2>. QED
    BY <1>3, <2>2
<1> HIDE DEF h
<1>6. Leaves(h, r, "done")
  BY <1>1, <1>4, <1>5 DEF Leaves, OthersStay, Terminal
<1>. QED
  BY <1>1, <1>6, LeavesKeeps

LEMMA CancelKeeps ==
  ASSUME IInv, NEW r \in Request, Cancel(r)
  PROVE  IInv' /\ StartInTime /\ Progress
<1> DEFINE h == Cancelled(Gate, r)
           a == Woken[r]
<1>1. /\ task[r] \in {"ready", "asleep", "busy"} /\ Becomes(h) /\ task' = Woken
      /\ UNCHANGED due
  BY DEF Cancel
<1>2. Sound(Gate) /\ Fits(Gate, task, due, r)
  BY DEF IInv
<1>3. /\ Sound(h) /\ h.queue = queue
      /\ IF state[r] \in Waiting THEN h.state = [state EXCEPT ![r] = "cancelled"] ELSE h = Gate
  BY <1>2, CancelSound, GateFields
<1> HIDE DEF h
<1>4. state \in [Request -> States] /\ (state[r] = "running" <=> task[r] = "busy")
      /\ state[r] # "new"
  BY <1>1, <1>2, GateFields DEF Sound, Fits
<1>5. /\ h.state[r] = "running" <=> task[r] = "busy"
      /\ h.state[r] \in {"running"} \cup Terminal
      /\ \A x \in Request \ {r} : h.state[x] = state[x]
      /\ h.state[r] = "running" => state[r] = "running"
  <2>1. CASE state[r] \in Waiting
    BY <1>3, <1>4, <2>1 DEF Waiting, Terminal
  <2>2. CASE state[r] \notin Waiting
    BY <1>3, <1>4, <2>2, GateFields DEF States
  <2>. QED
    BY <2>1, <2>2
<1>6. /\ Woken \in [Request -> Tasks]
      /\ a = IF task[r] = "asleep" THEN "ready" ELSE task[r]
  BY WokenTasks DEF IInv
<1>7. task' = [Woken EXCEPT ![r] = a]
  BY <1>1, <1>6
<1> HIDE DEF a
<1>8. Leaves(h, r, a)
  BY <1>1, <1>3, <1>5, <1>6, <1>7 DEF Leaves, OthersStay
<1>. QED
  BY <1>1, <1>8, LeavesKeeps

LEMMA ReleaseKeeps ==
  ASSUME IInv, NEW r \in Request, Release(r)
  PROVE  IInv' /\ StartInTime /\ Progress
<1> DEFINE g == ReleaseSlot([Gate EXCEPT !.state[r] = "completed"])
           h == Forget(g, r)
<1>1. /\ task[r] = "busy" /\ Becomes(h) /\ task' = [Woken EXCEPT ![r] = "done"]
      /\ UNCHANGED due
  BY DEF Release
<1>2. Sound(Gate) /\ Fits(Gate, task, due, r)
  BY DEF IInv
<1>3. r \in Held(Gate) /\ "completed" \in Terminal
  BY <1>1, <1>2 DEF Fits, Held, Terminal
<1>4. Sound(g) /\ g.queue = queue /\ g.state = [state EXCEPT ![r] = "completed"]
  BY <1>2, <1>3, LeaveSlot, GateFields
<1> HIDE DEF g
<1>5. g.state[r] = "completed" /\ \A x \in Request \ {r} : g.state[x] = state[x]
  BY <1>2, <1>4, GateFields DEF Sound
<1>6. Sound(h) /\ h.state = g.state /\ h.queue = Only(queue, Request \ {r})
  <2>1. /\ Sound(h) /\ h.state = g.state
        /\ h.queue = Only(g.queue, Request \ {r})
    BY <1>4, <1>5, ForgetSound
  <2> HIDE DEF h
  <2>. QED
    BY <1>4, <2>1
<1> HIDE DEF h
<1>7. Leaves(h, r, "done")
  BY <1>1, <1>5, <1>6 DEF Leaves, OthersStay, Terminal
<1>. QED
  BY <1>1, <1>7, LeavesKeeps

LEMMA SnapshotKeeps ==
  ASSUME IInv, Snapshot
  PROVE  IInv' /\ StartInTime /\ Progress
<1> DEFINE h == ExpireQueued(Gate)
<1>1. Becomes(h) /\ UNCHANGED <<task, due>>
  BY DEF Snapshot
<1>2. /\ Sound(h) /\ h.queue = queue /\ \A x \in Request : Fits(h, task, due, x)
      /\ \A x \in Request : h.state[x] = IF state[x] = "queued" /\ x \in due
                                         THEN "expired" ELSE state[x]
  BY ExpiredFits
<1> HIDE DEF h
<1>3. Gate' = h /\ state' = h.state /\ queue' = queue
  BY <1>1, <1>2, BecomesGate DEF Becomes
<1>4. \A x \in Request : Fits(Gate', task', due', x)
  BY <1>1, <1>2, <1>3
<1>5. IInv'
  BY <1>1, <1>2, <1>3, <1>4 DEF IInv, Sound, Queued, Held, Fits
<1>6. StartInTime
  BY <1>1, <1>2 DEF StartInTime, Becomes
<1>7. \E r : r \notin Request
  <2>1. (CHOOSE r : r \notin Request) \notin Request
    BY NoSetContainsEverything
  <2>. QED
    BY <2>1
<1>8. PICK r : r \notin Request
  BY <1>7
<1>9. Evolves(queue, r)
  <2>1. \A x \in Request :
          state'[x] = state[x] \/ (state[x] = "queued" /\ state'[x] = "expired")
    BY <1>2, <1>3
  <2>2. Held(Gate') \ Held(Gate) = {}
    BY <1>3, <2>1, GateFields DEF Held
  <2>3. \A x \in Request :
          \/ Stage(state'[x]) = Stage(state[x])
          \/ <<Stage(state[x]), Stage(state'[x])>> \in Pool!Moves
    BY <2>1 DEF Stage, Pool!Moves
  <2>. QED
    BY <1>3, <1>8, <2>1, <2>2, <2>3 DEF Evolves
<1>. QED
  BY <1>5, <1>6, <1>9 DEF Progress

\* A step that leaves the gate as it is.
LEMMA StandingStill ==
  ASSUME UNCHANGED gate
  PROVE  StartInTime /\ UNCHANGED <<[r \in Request |-> Phase(r)], [c \in {"runtime"} |-> Line]>>
<1>1. state' = state /\ Gate' = Gate /\ queue' = queue
  BY DEF gate, Gate
<1>. QED
  BY <1>1 DEF StartInTime, Phase, Line, Queued

LEMMA LapseKeeps ==
  ASSUME IInv, NEW r \in Request, Lapse(r)
  PROVE  IInv' /\ UNCHANGED gate
<1>1. due' = due \cup {r} /\ r \in Timed /\ UNCHANGED <<gate, task>>
  BY DEF Lapse
<1>2. Gate' = Gate
  BY <1>1 DEF Gate, gate
<1>3. \A x \in Request : Fits(Gate, task, due, x) => Fits(Gate, task, due', x)
  BY <1>1 DEF Fits
<1>4. \A x \in Request : Fits(Gate', task', due', x)
  BY <1>1, <1>2, <1>3 DEF IInv
<1>. QED
  BY <1>1, <1>2, <1>4 DEF IInv, Sound, Queued, Held, Fits

\* Initially the gate is empty.
LEMMA InitHolds ==
  ASSUME Init
  PROVE  IInv
<1>1. /\ Gate = [state |-> [r \in Request |-> "new"], queue |-> << >>, inflight |-> 0]
  BY DEF Init, Gate
<1>2. Held(Gate) = {} /\ Queued(Gate) = {}
  BY <1>1 DEF Held, Queued
<1>3. /\ Gate \in [state : [Request -> States], queue : Seq(Request), inflight : Nat]
      /\ Len(Gate.queue) = 0
  BY <1>1 DEF States
<1>4. Sound(Gate)
  <2>1. Gate.inflight = Cardinality(Held(Gate)) /\ Gate.inflight <= MaxRunning
    BY <1>1, <1>2, FS_EmptySet, GateAssumption
  <2>. QED
    BY <1>2, <1>3, <2>1 DEF Sound
<1>5. \A x \in Request : Fits(Gate, task, due, x)
  BY <1>1, <1>3 DEF Fits, Init
<1>. QED
  BY <1>4, <1>5 DEF IInv, Init, Tasks

\* Every step preserves the invariant, starts nobody late, and moves the gate in order.
LEMMA NextKeeps ==
  ASSUME IInv, [Next]_vars
  PROVE  IInv' /\ StartInTime /\ (Progress \/ UNCHANGED gate)
<1>1. CASE Next
  BY <1>1, RejectKeeps, EnterKeeps, ResumeKeeps, TimeOutKeeps, DisconnectKeeps, CancelKeeps,
     ReleaseKeeps, LapseKeeps, StandingStill, SnapshotKeeps DEF Next
<1>2. CASE UNCHANGED vars
  <2>1. Gate' = Gate /\ UNCHANGED <<gate, task, due>>
    BY <1>2 DEF vars, gate, Gate
  <2>2. \A x \in Request : Fits(Gate', task', due', x)
    BY <2>1 DEF IInv
  <2>. QED
    BY <2>1, <2>2, StandingStill DEF IInv, Sound, Queued, Held, Fits
<1>. QED
  BY <1>1, <1>2

\* The inductive invariant: the scheduler's state is sound, and that of every task agrees
\* with its place in the coroutine (async_scheduler.py over scheduler.py).
THEOREM InvariantHolds == Spec => []IInv
<1>1. Init => IInv
  BY InitHolds
<1>2. IInv /\ [Next]_vars => IInv'
  BY NextKeeps
<1>. QED
  BY <1>1, <1>2, PTL DEF Spec

\* Every variable has the type the source declares for it.
THEOREM TypeCorrect == Spec => []TypeOK
<1>1. IInv => TypeOK
  BY InvGivesAccounts
<1>. QED
  BY <1>1, InvariantHolds, PTL

\* AsyncRuntimeGate counts every slot once, never more than max_running, and leaves
\* nobody asleep whom a step of its own concerns.
THEOREM AccountsAreRight == Spec => []SlotsAreAccounted
<1>1. IInv => SlotsAreAccounted
  BY InvGivesAccounts
<1>. QED
  BY <1>1, InvariantHolds, PTL

\* No request starts after its deadline, whatever happened between its admission and
\* its start.
THEOREM StartsAreInTime == Spec => StartedInTime
<1>1. IInv /\ [Next]_vars =>
        [\A r \in Request : state[r] # "running" /\ state'[r] = "running" => r \notin due]_vars
  BY NextKeeps DEF StartInTime
<1>. QED
  BY <1>1, InvariantHolds, PTL DEF Spec, StartedInTime

-----------------------------------------------------------------------------
(* The gate is an admission pool.                                           *)

\* The abstract pool selects as this module does.
LEMMA SameSelection ==
  ASSUME NEW s, NEW S
  PROVE  Pool!Only(s, S) = Only(s, S)
BY DEF Pool!Only, Only

\* The abstract pool counts as this module does.
LEMMA SameCount ==
  ASSUME NEW S
  PROVE  Pool!Cardinality(S) = Cardinality(S)
BY DEF Pool!Cardinality, Cardinality

\* The phase of a request in the abstract pool is that of its state.
LEMMA StagesArePhases ==
  ASSUME NEW r \in Request
  PROVE  /\ Phase(r) = Stage(state[r]) /\ Phase(r)' = Stage(state'[r])
         /\ (Phase(r) = "waiting") = (state[r] = "queued")
         /\ (Phase(r) = "granted") = (state[r] \in {"admitted", "running"})
         /\ Phase(r) \in Pool!Phases /\ Phase(r)' \in Pool!Phases
         /\ (Phase(r) = "idle") = (state[r] = "new")
BY DEF Phase, Stage, Pool!Phases

\* The line of those who wait is selected from it step by step.
LEMMA LineFollows ==
  ASSUME IInv, NEW q, NEW r, Evolves(q, r)
  PROVE  /\ q = queue => Line' = Only(Line, Queued(Gate'))
         /\ q = Append(queue, r) =>
              Line' = IF r \in Queued(Gate') THEN Append(Only(Line, Queued(Gate')), r)
                      ELSE Only(Line, Queued(Gate'))
<1> DEFINE W == Queued(Gate')
           O == Queued(Gate)
<1>1. /\ queue \in Seq(Request) /\ Line = Only(queue, O) /\ Line' = Only(queue', W)
      /\ Only(queue', W) = Only(q, W)
  BY GateFields DEF IInv, Sound, Line, Evolves
<1>2. \A i \in 1..Len(queue) : queue[i] \in O \cap W <=> queue[i] \in W
  <2> SUFFICES ASSUME NEW i \in 1..Len(queue), queue[i] \in W
               PROVE  queue[i] \in O
    OBVIOUS
  <2> DEFINE x == queue[i]
  <2>1. x \in Request /\ state'[x] = "queued"
    BY <1>1, GateFields DEF Queued
  <2>2. CASE x # r
    <3>1. Stage(state'[x]) # Stage(state[x]) => state[x] = "queued"
      BY <2>1, <2>2 DEF Evolves
    <3>2. Stage(state'[x]) = "waiting"
      BY <2>1 DEF Stage
    <3>3. Stage(state[x]) = "waiting" => state[x] = "queued"
      BY DEF Stage
    <3>4. state[x] = "queued"
      BY <3>1, <3>2, <3>3
    <3>. QED
      BY <2>1, <3>4, GateFields DEF Queued
  <2>3. CASE x = r
    <3>1. \/ Stage(state'[x]) = Stage(state[x])
          \/ <<Stage(state[x]), Stage(state'[x])>> \in Pool!Moves
      BY <2>1 DEF Evolves
    <3>2. Stage(state[x]) \in {"waiting", "idle"}
      BY <2>1, <3>1 DEF Stage, Pool!Moves
    <3>3. Stage(state[x]) # "idle"
      <4>1. Fits(Gate, task, due, x)
        BY <2>1 DEF IInv
      <4>2. state[x] # "new"
        BY <4>1, GateFields DEF Fits
      <4>. QED
        BY <4>2 DEF Stage
    <3>4. state[x] = "queued"
      BY <3>2, <3>3 DEF Stage
    <3>. QED
      BY <2>1, <3>4, GateFields DEF Queued
  <2>. QED
    BY <2>2, <2>3
<1>3. W \subseteq Request /\ r \in W => r \in Request
  BY DEF Queued
<1> HIDE DEF W, O
<1>4. Only(queue, W) = Only(Line, W)
  <2>1. Only(Only(queue, O), W) = Only(queue, O \cap W)
    BY <1>1, OnlyOnly
  <2>2. Only(queue, O \cap W) = Only(queue, W)
    BY <1>1, <1>2, OnlySame
  <2>. QED
    BY <1>1, <2>1, <2>2, Zenon
<1>5. ASSUME q = Append(queue, r)
      PROVE  Line' = IF r \in W THEN Append(Only(Line, W), r) ELSE Only(Line, W)
  <2>1. r \in Request
    <3>1. CASE r \in Request
      BY <3>1
    <3>2. CASE q = queue
      <4>1. Len(Append(queue, r)) = Len(queue) + 1 /\ Len(queue) \in Nat
        BY <1>1
      <4>2. Append(queue, r) = queue
        BY <1>5, <3>2
      <4>3. Len(Append(queue, r)) = Len(queue)
        BY <4>2, Zenon
      <4>. QED
        BY <4>1, <4>3
    <3>. QED
      BY <3>1, <3>2 DEF Evolves
  <2>2. Only(Append(queue, r), W) = IF r \in W THEN Append(Only(queue, W), r) ELSE Only(queue, W)
    BY <1>1, <2>1, OnlyAppend
  <2>3. Line' = Only(Append(queue, r), W)
    BY <1>1, <1>5, Zenon
  <2>. QED
    BY <1>4, <2>2, <2>3
<1>6. ASSUME q = queue
      PROVE  Line' = Only(Line, W)
  BY <1>1, <1>4, <1>6, Zenon
<1>. QED
  BY <1>5, <1>6 DEF W

\* Nobody who waits has been overtaken by one who is granted a slot.
LEMMA GrantsInTurn ==
  ASSUME IInv, NEW q, NEW r, Evolves(q, r), NEW x \in Held(Gate') \ Held(Gate),
         NEW i \in 1..Len(Line), Line[i] \in Queued(Gate')
  PROVE  \E j \in 1..(i - 1) : Line[j] = x
<1> DEFINE W == Queued(Gate')
           O == Queued(Gate)
<1>1. queue \in Seq(Request) /\ Line = Only(queue, O)
  BY GateFields DEF IInv, Sound, Line
<1>2. PICK f : SelectedAt(f, Line, queue, O)
  BY <1>1, OnlyPlaces
<1>3. Line \in Seq(Request) /\ Len(Line) \in Nat
  <2>1. Line \in Seq(Request)
    BY <1>1, OnlyType
  <2>. QED
    BY <2>1
<1>4. /\ \A j \in 1..Len(Line) : f[j] \in 1..Len(queue) /\ Line[j] = queue[f[j]]
      /\ \A j, k \in 1..Len(Line) : j < k => f[j] < f[k]
      /\ \A p \in 1..Len(queue) : queue[p] \in O => \E j \in 1..Len(Line) : f[j] = p
  BY <1>2 DEF SelectedAt
<1>5. \A k, p \in 1..Len(q) : p <= k /\ q[k] = x => q[p] \notin W
  BY DEF Evolves
<1>6. x \in Request /\ Stage(state'[x]) = "granted" /\ Stage(state[x]) # "granted"
  BY GateFields DEF Held, Stage
<1>7. \/ Stage(state'[x]) = Stage(state[x])
      \/ <<Stage(state[x]), Stage(state'[x])>> \in Pool!Moves
  BY <1>6 DEF Evolves
<1>8. state[x] \in {"new", "queued"}
  BY <1>6, <1>7 DEF Stage, Pool!Moves
<1>9. /\ Len(queue) \in Nat
      /\ Len(Append(queue, r)) = Len(queue) + 1 /\ Append(queue, r)[Len(queue) + 1] = r
      /\ \A p \in 1..Len(queue) : Append(queue, r)[p] = queue[p]
  BY <1>1
<1> HIDE DEF W
<1>10. /\ q = queue \/ q = Append(queue, r)
       /\ q = queue => ~(r \in Request /\ state[r] = "new" /\ Stage(state'[r]) = "granted")
  <2>1. q = queue \/ q = Append(queue, r)
    BY DEF Evolves
  <2>2. Append(queue, r) # queue
    <3>1. Len(Append(queue, r)) # Len(queue)
      BY <1>9
    <3>. QED
      BY <3>1, Zenon
  <2>3. q = queue => ~(r \in Request /\ state[r] = "new" /\ Stage(state'[r]) = "granted")
    BY <2>2 DEF Evolves
  <2>. QED
    BY <2>1, <2>3
<1>11. \A p \in 1..Len(queue) : p \in 1..Len(q) /\ q[p] = queue[p]
  <2>1. CASE q = queue
    BY <2>1
  <2>2. CASE q = Append(queue, r)
    <3> DEFINE u == Append(queue, r)
    <3> HIDE DEF u
    <3>1. q = u /\ Len(u) = Len(queue) + 1 /\ \A p \in 1..Len(queue) : u[p] = queue[p]
      BY <1>9, <2>2 DEF u
    <3>. QED
      BY <1>9, <3>1
  <2>. QED
    BY <1>10, <2>1, <2>2
<1>12. CASE state[x] = "queued"
  <2>1. x \in O
    BY <1>6, <1>12, GateFields DEF Queued
  <2>2. PICK p \in 1..Len(queue) : queue[p] = x
    BY <2>1, GateFields DEF IInv, Sound
  <2>3. PICK j \in 1..Len(Line) : f[j] = p
    BY <1>4, <2>1, <2>2
  <2>4. ~(f[i] <= p)
    <3> SUFFICES ASSUME f[i] <= p
                 PROVE  FALSE
      OBVIOUS
    <3>1. f[i] \in 1..Len(queue) /\ queue[f[i]] \in W
      BY <1>4 DEF W
    <3>2. f[i] \in 1..Len(q) /\ p \in 1..Len(q) /\ q[f[i]] \in W /\ q[p] = x
      BY <1>11, <2>2, <3>1
    <3>. QED
      BY <1>5, <3>2
  <2>5. j < i
    <3>1. f[i] \in Int /\ f[j] \in Int /\ ~(f[i] <= f[j])
      BY <1>4, <2>3, <2>4
    <3>2. ~(i < j) /\ i # j
      BY <1>4, <3>1
    <3>. QED
      BY <1>3, <3>2
  <2>6. j \in 1..(i - 1) /\ Line[j] = x
    BY <1>3, <1>4, <2>2, <2>3, <2>5
  <2>. QED
    BY <2>6
<1>13. CASE state[x] = "new"
  <2>1. x = r
    BY <1>6, <1>13 DEF Evolves
  <2>2. q = Append(queue, r)
    BY <1>6, <1>10, <1>13, <2>1
  <2>3. Len(q) = Len(queue) + 1 /\ q[Len(queue) + 1] = x
    <3> DEFINE u == Append(queue, r)
    <3> HIDE DEF u
    <3>1. q = u /\ Len(u) = Len(queue) + 1 /\ u[Len(queue) + 1] = r
      BY <1>9, <2>2 DEF u
    <3>. QED
      BY <2>1, <3>1
  <2>4. f[i] \in 1..Len(queue) /\ queue[f[i]] \in W
    BY <1>4 DEF W
  <2>5. /\ f[i] \in 1..Len(q) /\ Len(queue) + 1 \in 1..Len(q) /\ f[i] <= Len(queue) + 1
        /\ q[f[i]] \in W
    BY <1>9, <1>11, <2>3, <2>4
  <2>. QED
    BY <1>5, <2>3, <2>5
<1>. QED
  BY <1>8, <1>12, <1>13

\* The state of the pool the gate is.
phases == [r \in Request |-> Phase(r)]
lines == [c \in {"runtime"} |-> Line]

\* Initial states are those of the abstract pool.
LEMMA StartsAsPool ==
  ASSUME Init
  PROVE  Pool!Init
<1>1. phases = [r \in Request |-> "idle"]
  BY DEF Init, Phase, phases
<1>2. Line = << >>
  BY OnlyEmpty DEF Init, Line
<1>. QED
  BY <1>1, <1>2 DEF Pool!Init, phases

\* What evolves in order is a step of the abstract pool.
LEMMA StepIsPoolStep ==
  ASSUME IInv, IInv', NEW q, NEW r, Evolves(q, r)
  PROVE  Pool!Step
<1>1. /\ phases \in [Request -> Pool!Phases] /\ phases' \in [Request -> Pool!Phases]
      /\ \A x \in Request : phases[x] = Stage(state[x]) /\ phases'[x] = Stage(state'[x])
      /\ \A x \in Request : (phases'[x] = "waiting") = (state'[x] = "queued")
      /\ \A x \in Request : (phases[x] = "waiting") = (state[x] = "queued")
      /\ \A x \in Request : (phases'[x] = "idle") = (state'[x] = "new")
      /\ \A x \in Request : (phases[x] = "idle") = (state[x] = "new")
  <2>1. \A x \in Request : phases[x] = Phase(x) /\ phases'[x] = Phase(x)'
    BY DEF phases
  <2>2. phases \in [Request -> Pool!Phases] /\ phases' \in [Request -> Pool!Phases]
    <3>1. \A x \in Request : Phase(x) \in Pool!Phases /\ Phase(x)' \in Pool!Phases
      BY StagesArePhases
    <3>. QED
      BY <3>1 DEF phases
  <2>3. \A x \in Request :
          /\ (Stage(state'[x]) = "waiting") = (state'[x] = "queued")
          /\ (Stage(state[x]) = "waiting") = (state[x] = "queued")
          /\ (Stage(state'[x]) = "idle") = (state'[x] = "new")
          /\ (Stage(state[x]) = "idle") = (state[x] = "new")
    BY DEF Stage
  <2>. QED
    BY <2>1, <2>2, <2>3, StagesArePhases
<1>2. /\ Pool!Moved = {x \in Request : phases'[x] # phases[x]}
      /\ Pool!Holders = Held(Gate) /\ Pool!Holders' = Held(Gate')
  <2>1. Pool!Holders = {x \in Request : Stage(state[x]) = "granted"}
        /\ Pool!Holders' = {x \in Request : Stage(state'[x]) = "granted"}
    BY StagesArePhases DEF Pool!Holders
  <2>2. \A s : (Stage(s) = "granted") = (s \in {"admitted", "running"})
    BY DEF Stage
  <2>. QED
    BY <2>1, <2>2, GateFields DEF Pool!Moved, phases, Held
<1>3. \A x \in Pool!Moved : <<phases[x], phases'[x]>> \in Pool!Moves
  BY <1>1, <1>2 DEF Evolves
<1>4. \A x, y \in Pool!Moved : phases[x] # "waiting" /\ phases[y] # "waiting" => x = y
  BY <1>1, <1>2 DEF Evolves
<1>5. Pool!Cardinality(Pool!Holders') <= MaxRunning
  BY <1>2, SameCount DEF IInv, Sound
<1>6. \A x \in Pool!Holders' \ Pool!Holders : Pool!InTurn(x)
  <2> SUFFICES ASSUME NEW x \in Held(Gate') \ Held(Gate)
               PROVE  Pool!InTurn(x)
    BY <1>2
  <2>1. x \in Request /\ lines["runtime"] = Line
    BY DEF Held, lines
  <2>2. ASSUME NEW i \in 1..Len(Line), phases'[Line[i]] = "waiting"
        PROVE  \E j \in 1..(i - 1) : Line[j] = x
    <3>1. Line[i] \in Request
      <4>1. Line \in Seq(Request)
        BY OnlyType, GateFields DEF Line, IInv, Sound
      <4>. QED
        BY <4>1
    <3>2. Line[i] \in Queued(Gate')
      BY <1>1, <2>2, <3>1, GateFields DEF Queued
    <3>. QED
      BY <3>2, GrantsInTurn
  <2>. QED
    BY <2>1, <2>2 DEF Pool!InTurn, phases, lines
<1>7. Pool!LineKept("runtime")
  <2> DEFINE W == {x \in Request : phases'[x] = "waiting"}
  <2>1. W = Queued(Gate')
    BY <1>1, GateFields DEF Queued
  <2>2. Pool!Arrived("runtime") =
          {x \in Request : state[x] = "new" /\ state'[x] = "queued"}
    BY <1>1, <1>2 DEF Pool!Arrived, phases
  <2> DEFINE A == Pool!Arrived("runtime")
  <2>3. A \subseteq {r}
    <3>1. \A x \in Request \ {r} : state[x] = "new" => Stage(state'[x]) = Stage(state[x])
      BY DEF Evolves
    <3>. QED
      BY <2>2, <3>1 DEF Stage
  <2>4. CASE q = queue /\ A = {}
    <3>1. Line' = Only(Line, W)
      BY <2>1, <2>4, LineFollows, Zenon
    <3>. QED
      BY <2>4, <3>1, SameSelection DEF Pool!LineKept, phases
  <2>5. CASE q = Append(queue, r) /\ r \in A
    <3>1. r \in W
      BY <2>1, <2>2, <2>5, GateFields DEF Queued
    <3>2. Line' = Append(Only(Line, W), r)
      BY <2>1, <2>5, <3>1, LineFollows, Zenon
    <3>. QED
      BY <2>5, <3>2, SameSelection DEF Pool!LineKept, phases
  <2>6. CASE q = Append(queue, r) /\ A = {} /\ r \notin W
    <3>1. Line' = Only(Line, W)
      BY <2>1, <2>6, LineFollows, Zenon
    <3>. QED
      BY <2>6, <3>1, SameSelection DEF Pool!LineKept, phases
  <2>7. q = Append(queue, r) /\ r \in W => r \in A
    <3> SUFFICES ASSUME q = Append(queue, r), r \in W
                 PROVE  r \in A
      OBVIOUS
    <3>1. queue \in Seq(Request) /\ r \in Request
      BY GateFields DEF IInv, Sound
    <3>2. q # queue
      <4>1. Len(Append(queue, r)) = Len(queue) + 1 /\ Len(queue) \in Nat
        BY <3>1
      <4>2. Len(Append(queue, r)) # Len(queue)
        BY <4>1
      <4>. QED
        BY <4>2, Zenon
    <3>3. state[r] = "new" /\ state'[r] = "queued"
      BY <1>1, <3>2 DEF Evolves
    <3>. QED
      BY <2>2, <3>1, <3>3
  <2>8. q = queue => A = {}
    <3> SUFFICES ASSUME q = queue, r \in A
                 PROVE  FALSE
      BY <2>3
    <3>1. r \in Request /\ state[r] = "new" /\ Stage(state'[r]) = "waiting"
      BY <2>2 DEF Stage
    <3>2. queue \in Seq(Request)
      BY GateFields DEF IInv, Sound
    <3>3. Append(queue, r) # queue
      <4>1. Len(Append(queue, r)) = Len(queue) + 1 /\ Len(queue) \in Nat
        BY <3>1, <3>2
      <4>2. Len(Append(queue, r)) # Len(queue)
        BY <4>1
      <4>. QED
        BY <4>2, Zenon
    <3>. QED
      BY <3>1, <3>3 DEF Evolves
  <2>9. q = queue \/ q = Append(queue, r)
    BY DEF Evolves
  <2> HIDE DEF A, W
  <2>. QED
    BY <2>3, <2>4, <2>5, <2>6, <2>7, <2>8, <2>9
<1>8. DOMAIN lines' = {"runtime"}
  BY DEF lines
<1>. QED
  BY <1>1, <1>3, <1>4, <1>5, <1>6, <1>7, <1>8 DEF Pool!Step, phases, lines

\* The gate lends at most max_running slots, serves the requests in the order of their
\* submission and takes no slot from a request that holds one.
THEOREM ImplementsPool == Spec => ImplementsAdmissionPool
<1>1. Init => Pool!Init
  BY StartsAsPool
<1>2. IInv /\ IInv' /\ [Next]_vars => [Pool!Step]_<<phases, lines>>
  <2> SUFFICES ASSUME IInv, IInv', [Next]_vars
               PROVE  Pool!Step \/ UNCHANGED <<phases, lines>>
    OBVIOUS
  <2>1. Progress => Pool!Step
    BY StepIsPoolStep DEF Progress
  <2>2. UNCHANGED gate => UNCHANGED <<phases, lines>>
    BY StandingStill DEF phases, lines
  <2>. QED
    BY <2>1, <2>2, NextKeeps
<1>. QED
  BY <1>1, <1>2, InvariantHolds, PTL DEF Spec, ImplementsAdmissionPool, Pool!Spec, phases, lines

=============================================================================
