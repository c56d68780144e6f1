------------------- MODULE GlobalExecutionGovernor_proofs -------------------
(***************************************************************************)
(* The governor, proved for any set of waiters, runtimes and limits: every *)
(* private method preserves PoolInv, hence every action preserves Inv; and *)
(* every private method lets the lines of the runtimes advance in order,   *)
(* hence every action is a step of an AdmissionPool.                       *)
(***************************************************************************)
EXTENDS GlobalExecutionGovernor, CollectionLemmas

-----------------------------------------------------------------------------
(* Selection of a waiter from the queue of a runtime.                       *)

\* The entries _next_queued_locked skips are a prefix of the queue that holds
\* none to select, and the one after them, if any, can be selected.
LEMMA SkippedPrefix ==
  ASSUME NEW p \in PoolType, NEW rt \in Runtime, NEW now \in Nat
  PROVE  /\ Skipped(p, rt, now) \in 0..Len(p.queues[rt])
         /\ \A i \in 1..Skipped(p, rt, now) : ~Selectable(p, p.queues[rt][i], now)
         /\ Skipped(p, rt, now) < Len(p.queues[rt]) =>
              Selectable(p, p.queues[rt][Skipped(p, rt, now) + 1], now)
<1> DEFINE q == p.queues[rt]
           Good(n) == /\ \A i \in 1..n : ~Selectable(p, q[i], now)
                      /\ n < Len(q) => Selectable(p, q[n + 1], now)
           T == {i \in 1..Len(q) : Selectable(p, q[i], now)}
<1>1. q \in Seq(Id) /\ Len(q) \in Nat
  BY DEF PoolType
<1>2. \E n \in 0..Len(q) : Good(n)
  <2>1. CASE T = {}
    <3>1. Good(Len(q))
      BY <1>1, <2>1
    <3> HIDE DEF Good
    <3>. QED
      BY <1>1, <3>1
  <2>2. CASE T # {}
    <3>1. T \in SUBSET Nat
      BY <1>1
    <3>2. PICK m \in T : \A n \in T : m <= n
      BY <2>2, <3>1, LeastNatural
    <3>3. m - 1 \in 0..Len(q) /\ Good(m - 1)
      BY <1>1, <3>2
    <3> HIDE DEF Good
    <3>. QED
      BY <3>3
  <2>. QED
    BY <2>1, <2>2
<1>3. Skipped(p, rt, now) = CHOOSE n \in 0..Len(q) : Good(n)
  BY DEF Skipped
<1>4. Skipped(p, rt, now) \in 0..Len(q) /\ Good(Skipped(p, rt, now))
  <2> HIDE DEF Good
  <2>. QED
    BY <1>2, <1>3
<1>. QED
  BY <1>4

\* What remains of the queue is a suffix of it, whose head can be selected.
LEMMA NextQueuedSuffix ==
  ASSUME NEW p \in PoolType, NEW rt \in Runtime, NEW now \in Nat
  PROVE  /\ NextQueued(p, rt, now) \in Seq(Id)
         /\ \A i \in 1..Len(NextQueued(p, rt, now)) :
              \E j \in 1..Len(p.queues[rt]) :
                NextQueued(p, rt, now)[i] = p.queues[rt][j]
         /\ NextQueued(p, rt, now) # << >> =>
              Selectable(p, Head(NextQueued(p, rt, now)), now)
<1> DEFINE q == p.queues[rt]
           k == Skipped(p, rt, now)
           n == NextQueued(p, rt, now)
<1>1. q \in Seq(Id) /\ Len(q) \in Nat
  BY DEF PoolType
<1>2. k \in 0..Len(q) /\ (k < Len(q) => Selectable(p, q[k + 1], now))
  BY SkippedPrefix
<1>3. n = SubSeq(q, k + 1, Len(q))
  BY DEF NextQueued
<1>4. /\ n \in Seq(Id)
      /\ Len(n) = Len(q) - k
      /\ \A i \in 1..Len(n) : n[i] = q[k + i]
  <2> HIDE DEF k, n, q
  <2>1. CASE k = Len(q)
    BY <1>1, <1>2, <1>3, <2>1
  <2>2. CASE k < Len(q)
    BY <1>1, <1>2, <1>3, <2>2
  <2>. QED
    BY <1>2, <2>1, <2>2
<1>5. \A i \in 1..Len(n) : k + i \in 1..Len(q)
  BY <1>1, <1>2, <1>4
<1>6. ASSUME n # << >>
      PROVE  Selectable(p, Head(n), now)
  <2>1. Len(n) > 0
    BY <1>4, <1>6
  <2>2. Head(n) = q[k + 1] /\ k < Len(q)
    BY <1>1, <1>2, <1>4, <2>1
  <2>. QED
    BY <1>2, <2>2
<1>. QED
  BY <1>4, <1>5, <1>6

\* The waiter a runtime would have admitted next is queued under its id, for
\* this very runtime.
LEMMA SelectedWaiter ==
  ASSUME NEW p, PoolInv(p), NEW rt \in Runtime, NEW now \in Nat,
         NextQueued(p, rt, now) # << >>
  PROVE  LET w == Selected(p, rt, now)
         IN  w \in Waiter /\ p.state[w] = "queued" /\ RuntimeOf[w] = rt
<1> DEFINE n == NextQueued(p, rt, now)
           id == Head(n)
<1>1. p \in PoolType
  BY DEF PoolInv
<1>2. n \in Seq(Id) /\ Len(n) > 0 /\ id = n[1] /\ id \in Id
  <2>1. n \in Seq(Id) /\ n # << >>
    BY <1>1, NextQueuedSuffix
  <2> HIDE DEF n
  <2>. QED
    BY <2>1
<1>3. PICK j \in 1..Len(p.queues[rt]) : id = p.queues[rt][j]
  <2> HIDE DEF n
  <2>1. 1 \in 1..Len(n)
    BY <1>2
  <2>. QED
    BY <1>1, <1>2, <2>1, NextQueuedSuffix DEF n
<1>4. p.waiters[id] \in Waiter /\ p.state[p.waiters[id]] = "queued"
  <2>1. p.waiters[id] \in Waiter \cup {None}
    BY <1>1, <1>2 DEF PoolType
  <2>2. StillQueued(p, id)
    BY <1>1, NextQueuedSuffix DEF Selectable
  <2>. QED
    BY <2>1, <2>2 DEF StillQueued
<1>5. IdOf[p.waiters[id]] = id
  BY <1>2, <1>4, GovernorAssumption DEF PoolInv, PoolRegistry
<1>6. RuntimeOf[p.waiters[id]] = rt
  BY <1>3, <1>4, <1>5 DEF PoolInv, PoolRegistry
<1>. QED
  BY <1>4, <1>6 DEF Selected

\* Looking at the first runtimes of the order leaves an order of runtimes, and
\* none leaves it with something in its queue.
LEMMA RotatedRuntimes ==
  ASSUME NEW ord \in Seq(Runtime), NEW n \in 0..Len(ord), NEW left
  PROVE  /\ Rotated(ord, n, left) \in Seq(Runtime)
         /\ \A i \in 1..Len(ord) : (i > n \/ left[ord[i]] # << >>) =>
              \E j \in 1..Len(Rotated(ord, n, left)) : Rotated(ord, n, left)[j] = ord[i]
<1> DEFINE rest == SubSeq(ord, n + 1, Len(ord))
           next(i, acc) == IF left[ord[i]] = << >> THEN acc ELSE Append(acc, ord[i])
           step == [x \in (1..n) \X Seq(Runtime) |-> next(x[1], x[2])]
           body(f) == [i \in 0..n |-> IF i = 0 THEN rest
                                      ELSE IF left[ord[i]] = << >> THEN f[i - 1]
                                      ELSE Append(f[i - 1], ord[i])]
           requeued == CHOOSE f : f = body(f)
<1>1. n \in Nat /\ Len(ord) \in Nat
  OBVIOUS
<1>2. rest \in Seq(Runtime)
  <2>1. CASE n = Len(ord)
    BY <1>1, <2>1
  <2>2. CASE n < Len(ord)
    BY <1>1, <2>2
  <2>. QED
    BY <1>1, <2>1, <2>2
<1>3. step \in [(1..n) \X Seq(Runtime) -> Seq(Runtime)]
  <2>1. ASSUME NEW i \in 1..n, NEW acc \in Seq(Runtime)
        PROVE  next(i, acc) \in Seq(Runtime)
    <3>1. ord[i] \in Runtime
      BY <1>1
    <3>. QED
      BY <3>1
  <2> HIDE DEF next
  <2>. QED
    BY <2>1
<1>4. \E f : f = body(f)
  <2>1. PICK f \in [0..n -> Seq(Runtime)] :
          f[0] = rest /\ \A i \in 1..n : f[i] = step[<<i, f[i - 1]>>]
    <3> HIDE DEF step, rest
    <3>1. Iterates(n, Seq(Runtime), rest, step)
      BY <1>1, <1>2, <1>3, BoundedRecursion
    <3>. QED
      BY <3>1 DEF Iterates
  <2>2. ASSUME NEW i \in 1..n
        PROVE  step[<<i, f[i - 1]>>] = next(i, f[i - 1])
    <3>1. f[i - 1] \in Seq(Runtime)
      BY <1>1
    <3> HIDE DEF next
    <3>2. \A x \in (1..n) \X Seq(Runtime) : step[x] = next(x[1], x[2])
      OBVIOUS
    <3> HIDE DEF step
    <3>3. <<i, f[i - 1]>> \in (1..n) \X Seq(Runtime)
      BY <3>1
    <3>. QED
      BY <3>2, <3>3
  <2>3. f = body(f)
    <3> HIDE DEF step, rest
    <3>1. ASSUME NEW i \in 0..n
          PROVE  f[i] = body(f)[i]
      <4>1. CASE i = 0
        BY <2>1, <4>1
      <4>2. CASE i # 0
        <5>1. i \in 1..n
          BY <1>1, <4>2
        <5>2. f[i] = step[<<i, f[i - 1]>>]
          BY <2>1, <4>2
        <5>. QED
          BY <2>2, <4>2, <5>1, <5>2
      <4>. QED
        BY <4>1, <4>2
    <3>. QED
      BY <2>1, <3>1
  <2>. QED
    BY <2>3
<1>5. requeued = body(requeued)
  <2> HIDE DEF body
  <2>. QED
    BY <1>4
<1>6. requeued[0] = rest /\ \A i \in 1..n : requeued[i] = next(i, requeued[i - 1])
  <2> HIDE DEF requeued, rest
  <2>1. requeued = [i \in 0..n |-> IF i = 0 THEN rest
                                  ELSE IF left[ord[i]] = << >> THEN requeued[i - 1]
                                  ELSE Append(requeued[i - 1], ord[i])]
    BY <1>5
  <2> HIDE DEF body
  <2>2. ASSUME NEW i \in 0..n
        PROVE  requeued[i] = IF i = 0 THEN rest
                             ELSE IF left[ord[i]] = << >> THEN requeued[i - 1]
                             ELSE Append(requeued[i - 1], ord[i])
    BY <2>1, Zenon
  <2>3. 0 \in 0..n /\ \A i \in 1..n : i \in 0..n /\ i # 0
    BY <1>1
  <2>. QED
    BY <2>2, <2>3
<1> DEFINE Keeps(k, i) == (i > n \/ (i <= k /\ left[ord[i]] # << >>)) =>
                            \E j \in 1..Len(requeued[k]) : requeued[k][j] = ord[i]
           Kept(k) == requeued[k] \in Seq(Runtime) /\ \A i \in 1..Len(ord) : Keeps(k, i)
<1>7. Kept(0)
  <2> HIDE DEF requeued
  <2>1. ASSUME NEW i \in 1..Len(ord), i > n
        PROVE  \E j \in 1..Len(rest) : rest[j] = ord[i]
    <3>1. i - n \in 1..Len(rest) /\ rest[i - n] = ord[i]
      BY <1>1, <2>1
    <3>. QED
      BY <3>1
  <2> HIDE DEF rest
  <2>2. ASSUME NEW i \in 1..Len(ord), i > n \/ (i <= 0 /\ left[ord[i]] # << >>)
        PROVE  \E j \in 1..Len(requeued[0]) : requeued[0][j] = ord[i]
    <3>1. i > n
      BY <1>1, <2>2
    <3>. QED
      BY <1>6, <2>1, <3>1
  <2>. QED
    BY <1>2, <1>6, <2>2
<1>8. ASSUME NEW k \in 1..n, Kept(k - 1)
      PROVE  Kept(k)
  <2> HIDE DEF requeued, rest
  <2> DEFINE old == requeued[k - 1]
             new == requeued[k]
  <2>1. ord[k] \in Runtime /\ k \in Nat /\ old \in Seq(Runtime)
    BY <1>1, <1>8
  <2>2. new = next(k, old)
    BY <1>6
  <2> HIDE DEF old, new
  <2>3. new \in Seq(Runtime)
    BY <2>1, <2>2
  <2>4. ASSUME NEW j \in 1..Len(old)
        PROVE  j \in 1..Len(new) /\ new[j] = old[j]
    BY <2>1, <2>2
  <2>5. ASSUME left[ord[k]] # << >>
        PROVE  Len(new) \in 1..Len(new) /\ new[Len(new)] = ord[k]
    BY <2>1, <2>2, <2>5
  <2>6. ASSUME NEW i \in 1..Len(ord), i > n \/ (i <= k /\ left[ord[i]] # << >>)
        PROVE  \E j \in 1..Len(new) : new[j] = ord[i]
    <3>1. CASE i > n \/ (i <= k - 1 /\ left[ord[i]] # << >>)
      <4>1. \E j \in 1..Len(old) : old[j] = ord[i]
        BY <1>8, <3>1 DEF old
      <4>. QED
        BY <2>4, <4>1
    <3>2. CASE i = k /\ left[ord[i]] # << >>
      BY <2>5, <3>2
    <3>. QED
      BY <1>1, <2>1, <2>6, <3>1, <3>2
  <2>. QED
    BY <2>3, <2>6 DEF new
<1>9. Kept(n)
  <2> HIDE DEF Kept
  <2> DEFINE S == {k \in 0..n : Kept(k)}
  <2>1. 0 \in S
    BY <1>1, <1>7
  <2>2. ASSUME NEW k \in 1..n, k - 1 \in S
        PROVE  k \in S
    BY <1>1, <1>8, <2>2
  <2>3. 0..n \subseteq S
    <3> HIDE DEF S
    <3>. QED
      BY <1>1, <2>1, <2>2, IntervalInduction
  <2>. QED
    BY <1>1, <2>3
<1>10. Rotated(ord, n, left) = requeued[n]
  BY DEF Rotated
<1>11. ASSUME NEW i \in 1..Len(ord), i > n \/ left[ord[i]] # << >>
       PROVE  i > n \/ (i <= n /\ left[ord[i]] # << >>)
  BY <1>1, <1>11
<1>. QED
  <2> HIDE DEF requeued
  <2>. QED
    BY <1>9, <1>10, <1>11

-----------------------------------------------------------------------------
(* How the counters follow the waiters that hold a slot.                    *)

\* The holders of slots, on a runtime or altogether, are finitely many.
LEMMA HoldersFinite ==
  ASSUME NEW p
  PROVE  /\ IsFiniteSet(Holding(p)) /\ Cardinality(Holding(p)) \in Nat
         /\ \A rt \in Runtime : /\ IsFiniteSet(HoldingOn(p, rt))
                                /\ Cardinality(HoldingOn(p, rt)) \in Nat
<1>1. IsFiniteSet(Waiter)
  BY GovernorAssumption
<1>2. IsFiniteSet(Holding(p))
  BY <1>1, FS_Subset DEF Holding
<1>3. \A rt \in Runtime : IsFiniteSet(HoldingOn(p, rt))
  BY <1>2, FS_Subset DEF HoldingOn
<1>. QED
  BY <1>2, <1>3, FS_CardinalityType

\* Granting a slot to a queued waiter of a runtime below its limit.
LEMMA GrantCounts ==
  ASSUME NEW p, PoolInv(p), NEW r, NEW w \in Waiter,
         w \notin Holding(p), SlotFree(p),
         p.runtimeInflight[RuntimeOf[w]] < CapOf[w],
         Holding(r) = Holding(p) \cup {w},
         r.inflight = p.inflight + 1,
         \A rt \in Runtime : r.runtimeInflight[rt] =
           p.runtimeInflight[rt] + (IF rt = RuntimeOf[w] THEN 1 ELSE 0)
  PROVE  PoolCounts(r)
<1>1. /\ p.inflight \in Nat /\ p.inflight = Cardinality(Holding(p))
      /\ \A rt \in Runtime : /\ p.runtimeInflight[rt] \in Nat
                             /\ p.runtimeInflight[rt] = Cardinality(HoldingOn(p, rt))
      /\ \A rt \in Runtime : \A S \in SUBSET HoldingOn(p, rt) :
           S # {} => \E v \in S : Cardinality(S) <= CapOf[v]
  BY DEF PoolInv, PoolType, PoolCounts
<1>2. MaxRunning \in Nat /\ CapOf[w] \in Nat /\ RuntimeOf[w] \in Runtime
  BY GovernorAssumption
<1>3. r.inflight = Cardinality(Holding(r)) /\ r.inflight <= MaxRunning
  <2>1. Cardinality(Holding(r)) = Cardinality(Holding(p)) + 1
    BY HoldersFinite, FS_AddElement
  <2>. QED
    BY <1>1, <1>2, <2>1 DEF SlotFree
<1>4. \A rt \in Runtime :
        HoldingOn(r, rt) = IF rt = RuntimeOf[w] THEN HoldingOn(p, rt) \cup {w}
                           ELSE HoldingOn(p, rt)
  BY DEF HoldingOn
<1>5. \A rt \in Runtime : w \notin HoldingOn(p, rt)
  BY DEF HoldingOn
<1>6. ASSUME NEW rt \in Runtime
      PROVE  r.runtimeInflight[rt] = Cardinality(HoldingOn(r, rt))
  <2>1. CASE rt = RuntimeOf[w]
    <3>1. Cardinality(HoldingOn(r, rt)) = Cardinality(HoldingOn(p, rt)) + 1
      BY <1>4, <1>5, <2>1, HoldersFinite, FS_AddElement
    <3>. QED
      BY <1>1, <2>1, <3>1
  <2>2. CASE rt # RuntimeOf[w]
    BY <1>1, <1>4, <2>2
  <2>. QED
    BY <2>1, <2>2
<1>7. ASSUME NEW rt \in Runtime, NEW S \in SUBSET HoldingOn(r, rt), S # {}
      PROVE  \E v \in S : Cardinality(S) <= CapOf[v]
  <2>1. CASE w \in S
    <3>1. rt = RuntimeOf[w]
      BY <2>1 DEF HoldingOn
    <3>2. Cardinality(S) <= Cardinality(HoldingOn(r, rt)) /\ Cardinality(S) \in Nat
      BY HoldersFinite, FS_Subset, FS_CardinalityType
    <3>3. Cardinality(HoldingOn(r, rt)) <= CapOf[w]
      BY <1>1, <1>2, <1>6, <3>1
    <3>. QED
      BY <1>1, <1>2, <1>6, <2>1, <3>1, <3>2, <3>3
  <2>2. CASE w \notin S
    <3>1. S \in SUBSET HoldingOn(p, rt)
      BY <1>4, <2>2
    <3>. QED
      BY <1>1, <1>7, <3>1
  <2>. QED
    BY <2>1, <2>2
<1>. QED
  BY <1>3, <1>6, <1>7 DEF PoolCounts

\* Taking back the slot of a waiter that holds one.
LEMMA ReturnCounts ==
  ASSUME NEW p, PoolInv(p), NEW r, NEW w \in Waiter,
         w \in Holding(p),
         Holding(r) = Holding(p) \ {w},
         r.inflight = p.inflight - 1,
         \A rt \in Runtime : r.runtimeInflight[rt] =
           p.runtimeInflight[rt] - (IF rt = RuntimeOf[w] THEN 1 ELSE 0)
  PROVE  PoolCounts(r)
<1>1. /\ p.inflight \in Nat /\ p.inflight = Cardinality(Holding(p))
      /\ p.inflight <= MaxRunning
      /\ \A rt \in Runtime : /\ p.runtimeInflight[rt] \in Nat
                             /\ p.runtimeInflight[rt] = Cardinality(HoldingOn(p, rt))
      /\ \A rt \in Runtime : \A S \in SUBSET HoldingOn(p, rt) :
           S # {} => \E v \in S : Cardinality(S) <= CapOf[v]
  BY DEF PoolInv, PoolType, PoolCounts
<1>2. MaxRunning \in Nat
  BY GovernorAssumption
<1>3. r.inflight = Cardinality(Holding(r)) /\ r.inflight <= MaxRunning
  <2>1. Cardinality(Holding(r)) = Cardinality(Holding(p)) - 1
    BY HoldersFinite, FS_RemoveElement
  <2>. QED
    BY <1>1, <1>2, <2>1
<1>4. \A rt \in Runtime :
        HoldingOn(r, rt) = IF rt = RuntimeOf[w] THEN HoldingOn(p, rt) \ {w}
                           ELSE HoldingOn(p, rt)
  BY DEF HoldingOn
<1>5. w \in HoldingOn(p, RuntimeOf[w])
  BY DEF HoldingOn
<1>6. ASSUME NEW rt \in Runtime
      PROVE  r.runtimeInflight[rt] = Cardinality(HoldingOn(r, rt))
  <2>1. CASE rt = RuntimeOf[w]
    <3>1. Cardinality(HoldingOn(r, rt)) = Cardinality(HoldingOn(p, rt)) - 1
      BY <1>4, <1>5, <2>1, HoldersFinite, FS_RemoveElement
    <3>. QED
      BY <1>1, <2>1, <3>1
  <2>2. CASE rt # RuntimeOf[w]
    BY <1>1, <1>4, <2>2
  <2>. QED
    BY <2>1, <2>2
<1>7. \A rt \in Runtime : HoldingOn(r, rt) \subseteq HoldingOn(p, rt)
  BY <1>4
<1>. QED
  BY <1>1, <1>3, <1>6, <1>7 DEF PoolCounts

-----------------------------------------------------------------------------
(* The private methods that every critical section ends with.               *)

\* What expiring and admitting do besides keeping the invariant: nobody's
\* registration or deadline changes, and only waiters in the queue move, to a slot
\* or out of the pool.
Follows(p, r) ==
  /\ PoolInv(r)
  /\ r.waiters = p.waiters
  /\ r.deadline = p.deadline
  /\ \A w \in Waiter : \/ r.state[w] = p.state[w]
                       \/ p.state[w] = "queued" /\ r.state[w] \in {"running", "expired"}

\* A critical section that does nothing keeps the invariant.
LEMMA FollowsItself ==
  ASSUME NEW p, PoolInv(p)
  PROVE  Follows(p, p)
BY DEF Follows

\* Private methods called one after the other keep it as each of them does.
LEMMA FollowsOn ==
  ASSUME NEW p, NEW q, NEW r, Follows(p, q), Follows(q, r)
  PROVE  Follows(p, r)
BY DEF Follows

\* _expire_queued_locked takes slots from nobody.
LEMMA ExpireQueuedFollows ==
  ASSUME NEW p, PoolInv(p), NEW now \in Nat
  PROVE  Follows(p, ExpireQueued(p, now))
<1> DEFINE r == ExpireQueued(p, now)
           expiring(w) == w \in Queued(p) /\ Lapsed(p, w, now)
<1>1. p \in PoolType /\ PoolCounts(p) /\ PoolRegistry(p) /\ PoolScheduled(p)
  BY DEF PoolInv
<1>2. r = [p EXCEPT !.state = [w \in Waiter |-> IF expiring(w) THEN "expired"
                                                ELSE p.state[w]]]
  BY DEF ExpireQueued
<1>3. \A w \in Waiter : expiring(w) => p.state[w] = "queued"
  BY DEF Queued
<1>4. /\ r \in PoolType
      /\ r.waiters = p.waiters /\ r.queues = p.queues
      /\ r.deadline = p.deadline /\ r.order = p.order
      /\ r.inflight = p.inflight /\ r.runtimeInflight = p.runtimeInflight
      /\ \A w \in Waiter : r.state[w] = p.state[w]
                             \/ (p.state[w] = "queued" /\ r.state[w] = "expired")
  <2> HIDE DEF expiring, r
  <2>1. \A w \in Waiter : p.state[w] \in States /\ "expired" \in States
    BY <1>1 DEF PoolType, States
  <2>. QED
    BY <1>1, <1>2, <1>3, <2>1 DEF PoolType
<1>5. Holding(r) = Holding(p)
  BY <1>4 DEF Holding
<1>6. PoolCounts(r)
  BY <1>1, <1>4, <1>5 DEF PoolCounts, HoldingOn
<1>7. PoolRegistry(r) /\ PoolScheduled(r)
  BY <1>1, <1>4 DEF PoolRegistry, PoolScheduled
<1>. QED
  BY <1>4, <1>6, <1>7 DEF Follows, PoolInv

\* One round of _admit_available_locked: a slot is granted within the limits,
\* or nothing but stale entries and lapsed waiters goes.
LEMMA AdmitOneFollows ==
  ASSUME NEW p, PoolInv(p), NEW now \in Nat
  PROVE  Follows(p, AdmitOne(p, now))
<1> DEFINE ready == {i \in 1..Len(p.order) : Eligible(p, p.order[i], now)}
           last == IF ready = {} THEN Len(p.order)
                   ELSE CHOOSE i \in ready : \A j \in ready : i <= j
           chosen == IF ready = {} THEN {} ELSE {p.order[last]}
           scanned == {p.order[i] : i \in 1..last}
           admitted == {Selected(p, rt, now) : rt \in chosen}
           lapsed == UNION {LapsedInQueue(p, rt, now) : rt \in scanned}
           left == [rt \in Runtime |->
                     IF rt \in chosen THEN Tail(NextQueued(p, rt, now))
                     ELSE IF rt \in scanned THEN NextQueued(p, rt, now)
                     ELSE p.queues[rt]]
           r == AdmitOne(p, now)
           states == [w \in Waiter |-> IF w \in admitted THEN "running"
                                       ELSE IF w \in lapsed THEN "expired"
                                       ELSE p.state[w]]
<1>1. p \in PoolType /\ PoolCounts(p) /\ PoolRegistry(p) /\ PoolScheduled(p)
  BY DEF PoolInv
<1>2. CASE ~SlotFree(p) \/ p.order = << >>
  <2>1. r = p
    BY <1>2 DEF AdmitOne
  <2>. QED
    BY <2>1, FollowsItself
<1>3. CASE SlotFree(p) /\ p.order # << >>
  <2>1. r = [p EXCEPT
               !.state = states,
               !.queues = left,
               !.order = Rotated(p.order, last, left),
               !.runtimeInflight = [rt \in Runtime |->
                                      p.runtimeInflight[rt] + (IF rt \in chosen THEN 1 ELSE 0)],
               !.inflight = p.inflight + Cardinality(chosen)]
    BY <1>3 DEF AdmitOne
  <2>2. p.order \in Seq(Runtime) /\ Len(p.order) \in Nat
    BY <1>1 DEF PoolType
  <2>3. last \in 0..Len(p.order) /\ (ready # {} => last \in ready)
    <3>1. CASE ready = {}
      BY <2>2, <3>1
    <3>2. CASE ready # {}
      <4>1. ready \in SUBSET Nat
        BY <2>2
      <4>2. \E i \in ready : \A j \in ready : i <= j
        <5> HIDE DEF ready
        <5>. QED
          BY <3>2, <4>1, LeastNatural
      <4>3. last \in ready
        <5> HIDE DEF ready
        <5>. QED
          BY <3>2, <4>2
      <4>. QED
        BY <2>2, <4>3
    <3>. QED
      BY <3>1, <3>2
  <2>4. chosen \subseteq scanned /\ scanned \subseteq Runtime
    <3>1. ready # {} => last \in 1..Len(p.order)
      BY <2>3
    <3>2. \A i \in 1..Len(p.order) : p.order[i] \in Runtime
      BY <2>2
    <3> HIDE DEF ready, last
    <3>. QED
      BY <2>2, <2>3, <3>1, <3>2
  <2>5. \A rt \in chosen : Eligible(p, rt, now)
    BY <2>3
  <2>6. \A rt \in chosen : /\ Selected(p, rt, now) \in Waiter
                           /\ p.state[Selected(p, rt, now)] = "queued"
                           /\ RuntimeOf[Selected(p, rt, now)] = rt
    <3> HIDE DEF chosen
    <3>. QED
      BY <2>4, <2>5, SelectedWaiter DEF Eligible
  <2>7. \A w \in lapsed : p.state[w] = "queued"
    BY DEF LapsedInQueue
  <2>8. \A w \in admitted : p.state[w] = "queued"
    <3> HIDE DEF chosen
    <3>. QED
      BY <2>6
  <2>9. left \in [Runtime -> Seq(Id)]
    <3> HIDE DEF chosen, scanned
    <3>1. \A rt \in chosen : NextQueued(p, rt, now) # << >>
      BY <2>5 DEF Eligible
    <3>2. \A rt \in Runtime : NextQueued(p, rt, now) \in Seq(Id) /\ p.queues[rt] \in Seq(Id)
      BY <1>1, NextQueuedSuffix DEF PoolType
    <3>3. \A s \in Seq(Id) : s # << >> => Tail(s) \in Seq(Id)
      OBVIOUS
    <3>4. \A rt \in Runtime : left[rt] \in Seq(Id)
      BY <2>4, <3>1, <3>2, <3>3
    <3>. QED
      BY <3>4
  <2>10. \A rt \in Runtime : \A i \in 1..Len(left[rt]) :
            \E j \in 1..Len(p.queues[rt]) : left[rt][i] = p.queues[rt][j]
    <3> HIDE DEF chosen, scanned
    <3>1. ASSUME NEW rt \in Runtime, NEW i \in 1..Len(left[rt])
          PROVE  \E j \in 1..Len(p.queues[rt]) : left[rt][i] = p.queues[rt][j]
      <4> DEFINE n == NextQueued(p, rt, now)
      <4>1. /\ n \in Seq(Id)
            /\ \A k \in 1..Len(n) : \E j \in 1..Len(p.queues[rt]) : n[k] = p.queues[rt][j]
        BY <1>1, NextQueuedSuffix
      <4>2. CASE rt \in chosen
        <5>1. n # << >> /\ left[rt] = Tail(n)
          BY <2>5, <4>2 DEF Eligible
        <5> HIDE DEF n, left
        <5>2. i + 1 \in 1..Len(n) /\ left[rt][i] = n[i + 1]
          BY <4>1, <5>1
        <5>. QED
          BY <4>1, <5>2
      <4>3. CASE rt \notin chosen /\ rt \in scanned
        <5>1. left[rt] = n
          BY <4>3
        <5> HIDE DEF n, left
        <5>. QED
          BY <4>1, <5>1
      <4>4. CASE rt \notin chosen /\ rt \notin scanned
        BY <4>4
      <4>. QED
        BY <4>2, <4>3, <4>4
    <3>. QED
      BY <3>1
  <2>11. Cardinality(chosen) = IF ready = {} THEN 0 ELSE 1
    BY FS_EmptySet, FS_Singleton
  <2>12. /\ r.waiters = p.waiters /\ r.deadline = p.deadline
         /\ r.order = Rotated(p.order, last, left)
         /\ r.state = states
         /\ r.queues = left
         /\ r.inflight = p.inflight + (IF ready = {} THEN 0 ELSE 1)
         /\ \A rt \in Runtime : r.runtimeInflight[rt] =
              p.runtimeInflight[rt] + (IF rt \in chosen THEN 1 ELSE 0)
    <3> HIDE DEF ready, last, chosen, states, left, r
    <3>. QED
      BY <1>1, <2>1, <2>11 DEF PoolType
  <2>13. r \in PoolType
    <3>1. states \in [Waiter -> States]
      <4> HIDE DEF admitted, lapsed
      <4>. QED
        BY <1>1 DEF PoolType, States
    <3>2. Rotated(p.order, last, left) \in Seq(Runtime)
      <4> HIDE DEF last, left
      <4>. QED
        BY <2>2, <2>3, RotatedRuntimes
    <3>3. p.inflight + Cardinality(chosen) \in Nat
      <4> HIDE DEF chosen, ready
      <4>. QED
        BY <1>1, <2>11 DEF PoolType
    <3>4. [rt \in Runtime |-> p.runtimeInflight[rt] + (IF rt \in chosen THEN 1 ELSE 0)]
             \in [Runtime -> Nat]
      <4> HIDE DEF chosen
      <4>. QED
        BY <1>1 DEF PoolType
    <3> HIDE DEF ready, last, chosen, states, left, r
    <3>. QED
      BY <1>1, <2>1, <2>9, <3>1, <3>2, <3>3, <3>4 DEF PoolType
  <2>14. PoolRegistry(r)
    <3>1. \A w \in Waiter : r.state[w] \in {"queued", "running"} =>
                              p.state[w] \in {"queued", "running"}
      <4> HIDE DEF admitted, lapsed, r
      <4>. QED
        BY <2>8, <2>12
    <3> HIDE DEF states, left, r
    <3>. QED
      BY <1>1, <2>10, <2>12, <3>1 DEF PoolRegistry
  <2>15. \A w \in Waiter :
           \/ r.state[w] = p.state[w]
           \/ p.state[w] = "queued" /\ r.state[w] \in {"running", "expired"}
    <3> HIDE DEF admitted, lapsed, r
    <3>. QED
      BY <2>7, <2>8, <2>12
  <2>16. PoolCounts(r)
    <3>1. CASE ready = {}
      <4>1. chosen = {} /\ admitted = {}
        BY <3>1
      <4>2. Holding(r) = Holding(p)
        <5> HIDE DEF admitted, lapsed, r
        <5>. QED
          BY <2>7, <2>12, <4>1 DEF Holding
      <4>3. /\ r.inflight = p.inflight
            /\ \A rt \in Runtime : r.runtimeInflight[rt] = p.runtimeInflight[rt]
        <5> HIDE DEF chosen, ready, r
        <5>. QED
          BY <1>1, <2>12, <3>1, <4>1 DEF PoolType
      <4> HIDE DEF r
      <4>. QED
        BY <1>1, <4>2, <4>3 DEF PoolCounts, HoldingOn
    <3>2. CASE ready # {}
      <4> DEFINE rt0 == p.order[last]
                 w0 == Selected(p, rt0, now)
      <4>1. chosen = {rt0} /\ admitted = {w0}
        BY <3>2
      <4>2. w0 \in Waiter /\ p.state[w0] = "queued" /\ RuntimeOf[w0] = rt0
        <5> HIDE DEF w0, rt0, chosen
        <5>. QED
          BY <2>6, <4>1 DEF w0
      <4>3. p.runtimeInflight[RuntimeOf[w0]] < CapOf[w0]
        <5> HIDE DEF rt0, chosen
        <5>1. Eligible(p, rt0, now)
          BY <2>5, <4>1
        <5>. QED
          BY <4>2, <5>1 DEF Eligible
      <4>4. Holding(r) = Holding(p) \cup {w0} /\ w0 \notin Holding(p)
        <5> HIDE DEF admitted, lapsed, r, w0
        <5>. QED
          BY <2>7, <2>12, <4>1, <4>2 DEF Holding
      <4>5. /\ r.inflight = p.inflight + 1
            /\ \A rt \in Runtime : r.runtimeInflight[rt] =
                 p.runtimeInflight[rt] + (IF rt = RuntimeOf[w0] THEN 1 ELSE 0)
        <5> HIDE DEF rt0, chosen, ready, r, w0
        <5>. QED
          BY <2>12, <3>2, <4>1, <4>2
      <4> HIDE DEF r, w0
      <4>. QED
        BY <1>3, <4>2, <4>3, <4>4, <4>5, GrantCounts
    <3>. QED
      BY <3>1, <3>2
  <2>17. PoolScheduled(r)
    <3>1. ASSUME NEW rt \in Runtime, left[rt] # << >>
          PROVE  \E j \in 1..Len(r.order) : r.order[j] = rt
      <4>1. p.queues[rt] # << >>
        <5>1. left[rt] \in Seq(Id) /\ p.queues[rt] \in Seq(Id)
          BY <1>1, <2>9 DEF PoolType
        <5> HIDE DEF left
        <5>2. 1 \in 1..Len(left[rt])
          BY <3>1, <5>1
        <5>. QED
          BY <2>10, <5>1, <5>2
      <4>2. PICK i \in 1..Len(p.order) : p.order[i] = rt
        BY <1>1, <4>1 DEF PoolScheduled
      <4> HIDE DEF last, left, r
      <4>. QED
        BY <2>2, <2>3, <2>12, <3>1, <4>2, RotatedRuntimes
    <3> HIDE DEF left, r
    <3>. QED
      BY <2>12, <3>1 DEF PoolScheduled
  <2>. QED
    BY <2>12, <2>13, <2>14, <2>15, <2>16, <2>17 DEF Follows, PoolInv
<1>. QED
  BY <1>2, <1>3

\* What each round of _admit_available_locked establishes, given what the round
\* before it did, the last one does.
LEMMA AdmitRounds ==
  ASSUME NEW p, PoolInv(p), NEW now \in Nat, NEW S,
         p \in S[0],
         \A n \in 1..MaxRunning : \A r \in S[n - 1] :
           PoolInv(r) => AdmitOne(r, now) \in S[n]
  PROVE  Admit(p, now) \in S[MaxRunning] /\ PoolInv(Admit(p, now))
<1> DEFINE P == {r \in PoolType : PoolInv(r)}
           step == [x \in (1..MaxRunning) \X P |-> AdmitOne(x[2], now)]
           body(f) == [n \in 0..MaxRunning |-> IF n = 0 THEN p
                                               ELSE AdmitOne(f[n - 1], now)]
           round == CHOOSE f : f = body(f)
<1>1. MaxRunning \in Nat
  BY GovernorAssumption
<1>2. p \in P
  BY DEF PoolInv
<1>3. \A r \in P : AdmitOne(r, now) \in P
  <2>1. ASSUME NEW r \in P
        PROVE  AdmitOne(r, now) \in P
    <3>1. Follows(r, AdmitOne(r, now))
      BY AdmitOneFollows
    <3>. QED
      BY <3>1 DEF Follows, PoolInv
  <2>. QED
    BY <2>1
<1>4. \E f : f = body(f)
  <2>1. PICK f \in [0..MaxRunning -> P] :
          f[0] = p /\ \A n \in 1..MaxRunning : f[n] = step[<<n, f[n - 1]>>]
    <3> HIDE DEF P
    <3>1. step \in [(1..MaxRunning) \X P -> P]
      BY <1>3
    <3> HIDE DEF step
    <3>2. Iterates(MaxRunning, P, p, step)
      BY <1>1, <1>2, <3>1, BoundedRecursion
    <3>. QED
      BY <3>2 DEF Iterates
  <2> HIDE DEF P
  <2>2. ASSUME NEW n \in 1..MaxRunning
        PROVE  f[n] = AdmitOne(f[n - 1], now)
    <3>1. <<n, f[n - 1]>> \in (1..MaxRunning) \X P
      BY <1>1
    <3>2. \A x \in (1..MaxRunning) \X P : step[x] = AdmitOne(x[2], now)
      OBVIOUS
    <3> HIDE DEF step
    <3>. QED
      BY <2>1, <3>1, <3>2
  <2>3. ASSUME NEW n \in 0..MaxRunning
        PROVE  f[n] = body(f)[n]
    <3>1. CASE n = 0
      BY <2>1, <3>1
    <3>2. CASE n # 0
      <4>1. n \in 1..MaxRunning
        BY <1>1, <3>2
      <4>. QED
        BY <2>2, <3>2, <4>1
    <3>. QED
      BY <3>1, <3>2
  <2>. QED
    BY <2>1, <2>3
<1>5. round = body(round)
  <2> HIDE DEF body
  <2>. QED
    BY <1>4
<1>6. round[0] = p /\ \A n \in 1..MaxRunning : round[n] = AdmitOne(round[n - 1], now)
  <2> HIDE DEF round
  <2>1. round = [n \in 0..MaxRunning |-> IF n = 0 THEN p
                                         ELSE AdmitOne(round[n - 1], now)]
    BY <1>5
  <2> HIDE DEF body
  <2>2. ASSUME NEW n \in 0..MaxRunning
        PROVE  round[n] = IF n = 0 THEN p ELSE AdmitOne(round[n - 1], now)
    BY <2>1, Zenon
  <2>3. 0 \in 0..MaxRunning /\ \A n \in 1..MaxRunning : n \in 0..MaxRunning /\ n # 0
    BY <1>1
  <2>. QED
    BY <2>2, <2>3
<1>7. round[MaxRunning] \in S[MaxRunning] /\ round[MaxRunning] \in P
  <2> HIDE DEF round, P
  <2> DEFINE T == {n \in 0..MaxRunning : round[n] \in S[n] /\ round[n] \in P}
  <2>1. 0 \in T
    BY <1>1, <1>2, <1>6
  <2>2. ASSUME NEW n \in 1..MaxRunning, n - 1 \in T
        PROVE  n \in T
    <3>1. round[n] = AdmitOne(round[n - 1], now) /\ round[n - 1] \in P
      BY <1>6, <2>2
    <3>. QED
      BY <1>1, <1>3, <2>2, <3>1 DEF P
  <2>3. 0..MaxRunning \subseteq T
    <3> HIDE DEF T
    <3>. QED
      BY <1>1, <2>1, <2>2, IntervalInduction
  <2>. QED
    BY <1>1, <2>3
<1>8. Admit(p, now) = round[MaxRunning]
  BY DEF Admit
<1>. QED
  <2> HIDE DEF round
  <2>. QED
    BY <1>7, <1>8

\* _admit_available_locked.
LEMMA AdmitFollows ==
  ASSUME NEW p, PoolInv(p), NEW now \in Nat
  PROVE  Follows(p, Admit(p, now))
<1> DEFINE F == {r \in PoolType : Follows(p, r)}
           S == [n \in 0..MaxRunning |-> F]
<1>1. MaxRunning \in Nat
  BY GovernorAssumption
<1>2. p \in F
  BY FollowsItself DEF Follows, PoolInv
<1>3. ASSUME NEW r \in F, PoolInv(r)
      PROVE  AdmitOne(r, now) \in F
  <2>1. Follows(p, AdmitOne(r, now))
    BY <1>3, AdmitOneFollows, FollowsOn
  <2>. QED
    BY <2>1 DEF Follows, PoolInv
<1> HIDE DEF F
<1>4. \A n \in 0..MaxRunning : S[n] = F
  OBVIOUS
<1>5. 0 \in 0..MaxRunning /\ MaxRunning \in 0..MaxRunning
      /\ \A n \in 1..MaxRunning : n \in 0..MaxRunning /\ n - 1 \in 0..MaxRunning
  BY <1>1
<1> HIDE DEF S
<1>6. Admit(p, now) \in S[MaxRunning]
  BY <1>2, <1>3, <1>4, <1>5, AdmitRounds
<1>. QED
  BY <1>4, <1>5, <1>6 DEF F

-----------------------------------------------------------------------------
(* What _admit_available_locked leaves behind: no slot is idle beside a waiter *)
(* that could use it.                                                          *)

\* There is nothing for a round to grant or to drop: no slot is free, or every
\* queue is empty or begins with a waiter its runtime's limit holds back.
Settled(p, now) ==
  SlotFree(p) => \A rt \in Runtime :
    NextQueued(p, rt, now) = p.queues[rt] /\ ~Eligible(p, rt, now)

\* Nothing is selected from an empty queue, and nothing is skipped in a queue
\* whose head can be selected.
LEMMA NextQueuedKeeps ==
  ASSUME NEW p \in PoolType, NEW rt \in Runtime, NEW now \in Nat,
         p.queues[rt] # << >> => Selectable(p, Head(p.queues[rt]), now)
  PROVE  NextQueued(p, rt, now) = p.queues[rt]
<1> DEFINE q == p.queues[rt]
           k == Skipped(p, rt, now)
<1>1. q \in Seq(Id) /\ Len(q) \in Nat
  BY DEF PoolType
<1>2. k \in 0..Len(q) /\ \A i \in 1..k : ~Selectable(p, q[i], now)
  BY SkippedPrefix
<1>3. NextQueued(p, rt, now) = SubSeq(q, k + 1, Len(q))
  BY DEF NextQueued
<1> HIDE DEF k
<1>4. k = 0
  <2>1. CASE q = << >>
    BY <1>1, <1>2, <2>1
  <2>2. CASE q # << >>
    <3>1. Selectable(p, q[1], now)
      BY <1>1, <2>2
    <3>. QED
      BY <1>1, <1>2, <3>1
  <2>. QED
    BY <2>1, <2>2
<1> HIDE DEF q
<1>5. SubSeq(q, 1, Len(q)) = q
  BY <1>1
<1>. QED
  BY <1>3, <1>4, <1>5 DEF q

\* A round that finds a runtime eligible takes a slot.
LEMMA AdmitOneGrants ==
  ASSUME NEW p, PoolInv(p), NEW now \in Nat, SlotFree(p), NEW rt \in Runtime,
         Eligible(p, rt, now)
  PROVE  AdmitOne(p, now).inflight = p.inflight + 1
<1> DEFINE ready == {i \in 1..Len(p.order) : Eligible(p, p.order[i], now)}
           last == IF ready = {} THEN Len(p.order)
                   ELSE CHOOSE i \in ready : \A j \in ready : i <= j
           chosen == IF ready = {} THEN {} ELSE {p.order[last]}
<1>1. p \in PoolType /\ PoolScheduled(p)
  BY DEF PoolInv
<1>2. p.queues[rt] # << >>
  <2>1. p.queues[rt] \in Seq(Id) /\ NextQueued(p, rt, now) # << >>
    BY <1>1 DEF PoolType, Eligible
  <2>2. NextQueued(p, rt, now) \in Seq(Id)
    BY <1>1, NextQueuedSuffix
  <2>3. 1 \in 1..Len(NextQueued(p, rt, now))
    BY <2>1, <2>2
  <2>. QED
    BY <1>1, <2>1, <2>3, NextQueuedSuffix
<1>3. PICK i \in 1..Len(p.order) : p.order[i] = rt
  BY <1>1, <1>2 DEF PoolScheduled
<1>4. ready # {} /\ p.order # << >>
  <2>1. p.order \in Seq(Runtime)
    BY <1>1 DEF PoolType
  <2>. QED
    BY <1>3, <2>1
<1>5. Cardinality(chosen) = 1
  <2> HIDE DEF ready
  <2>. QED
    BY <1>4, FS_Singleton
<1>6. AdmitOne(p, now).inflight = p.inflight + Cardinality(chosen)
  BY <1>1, <1>4 DEF AdmitOne, PoolType
<1>. QED
  BY <1>5, <1>6

\* A round that finds no runtime eligible drops the stale heads of the queues and
\* expires lapsed waiters; after it there is nothing left to do.
LEMMA AdmitOneSettles ==
  ASSUME NEW p, PoolInv(p), NEW now \in Nat,
         SlotFree(p) => \A rt \in Runtime : ~Eligible(p, rt, now)
  PROVE  LET r == AdmitOne(p, now)
         IN  /\ Settled(r, now)
             /\ \A w \in Waiter :
                  r.state[w] = p.state[w] \/ (w \in Queued(p) /\ Lapsed(p, w, now))
<1> DEFINE ready == {i \in 1..Len(p.order) : Eligible(p, p.order[i], now)}
           last == IF ready = {} THEN Len(p.order)
                   ELSE CHOOSE i \in ready : \A j \in ready : i <= j
           chosen == IF ready = {} THEN {} ELSE {p.order[last]}
           scanned == {p.order[i] : i \in 1..last}
           admitted == {Selected(p, rt, now) : rt \in chosen}
           lapsed == UNION {LapsedInQueue(p, rt, now) : rt \in scanned}
           left == [rt \in Runtime |->
                     IF rt \in chosen THEN Tail(NextQueued(p, rt, now))
                     ELSE IF rt \in scanned THEN NextQueued(p, rt, now)
                     ELSE p.queues[rt]]
           r == AdmitOne(p, now)
<1>1. p \in PoolType /\ PoolScheduled(p) /\ PoolRegistry(p)
  BY DEF PoolInv
<1>2. CASE ~SlotFree(p)
  <2>1. r = p
    BY <1>2 DEF AdmitOne
  <2> HIDE DEF r
  <2>. QED
    BY <1>2, <2>1 DEF Settled, r
<1>3. CASE SlotFree(p) /\ p.order = << >>
  <2>1. r = p
    BY <1>3 DEF AdmitOne
  <2>2. ASSUME NEW rt \in Runtime
        PROVE  NextQueued(p, rt, now) = p.queues[rt]
    <3>1. p.queues[rt] = << >>
      BY <1>1, <1>3 DEF PoolScheduled
    <3>. QED
      BY <1>1, <3>1, NextQueuedKeeps
  <2> HIDE DEF r
  <2>. QED
    BY <1>3, <2>1, <2>2 DEF Settled, r
<1>4. CASE SlotFree(p) /\ p.order # << >>
  <2>1. p.order \in Seq(Runtime) /\ \A i \in 1..Len(p.order) : p.order[i] \in Runtime
    BY <1>1 DEF PoolType
  <2>2. ready = {} /\ chosen = {} /\ admitted = {} /\ last = Len(p.order)
    BY <1>4, <2>1
  <2>3. /\ r.waiters = p.waiters /\ r.deadline = p.deadline
        /\ r.inflight = p.inflight + Cardinality(chosen)
        /\ r.state = [w \in Waiter |-> IF w \in admitted THEN "running"
                                        ELSE IF w \in lapsed THEN "expired"
                                        ELSE p.state[w]]
        /\ r.queues = left
        /\ r.runtimeInflight = [rt \in Runtime |->
             p.runtimeInflight[rt] + (IF rt \in chosen THEN 1 ELSE 0)]
    BY <1>1, <1>4 DEF AdmitOne, PoolType
  <2>4. r \in PoolType
    BY AdmitOneFollows DEF Follows, PoolInv
  <2> DEFINE next(rt) == NextQueued(p, rt, now)
  <2>5. ASSUME NEW rt \in Runtime
        PROVE  r.queues[rt] = next(rt)
    <3>1. CASE p.queues[rt] = << >>
      <4>1. next(rt) = p.queues[rt]
        BY <1>1, <3>1, NextQueuedKeeps
      <4> HIDE DEF chosen, scanned, next
      <4>. QED
        BY <2>2, <2>3, <4>1 DEF next
    <3>2. CASE p.queues[rt] # << >>
      <4>1. rt \in scanned
        <5>1. PICK i \in 1..Len(p.order) : p.order[i] = rt
          BY <1>1, <3>2 DEF PoolScheduled
        <5> HIDE DEF last
        <5>. QED
          BY <2>2, <5>1
      <4> HIDE DEF chosen, scanned
      <4>. QED
        BY <2>2, <2>3, <4>1
    <3>. QED
      BY <3>1, <3>2
  <2>6. ASSUME NEW w \in lapsed
        PROVE  w \in Queued(p) /\ Lapsed(p, w, now)
    <3>1. PICK rt \in scanned : w \in LapsedInQueue(p, rt, now)
      BY <2>6
    <3>2. rt \in Runtime
      BY <2>1, <2>2
    <3>3. PICK i \in 1..Skipped(p, rt, now) : /\ p.waiters[p.queues[rt][i]] = w
                                              /\ p.state[w] = "queued"
      BY <3>1 DEF LapsedInQueue
    <3>4. ~Selectable(p, p.queues[rt][i], now)
      BY <1>1, <3>2, SkippedPrefix
    <3>5. w \in Waiter
      BY <3>1 DEF LapsedInQueue
    <3>6. StillQueued(p, p.queues[rt][i])
      BY <3>3, <3>5, GovernorAssumption DEF StillQueued
    <3>. QED
      BY <1>1, <3>3, <3>4, <3>5, <3>6 DEF Selectable, Queued, PoolRegistry
  <2>7. \A w \in Waiter : r.state[w] = p.state[w] \/ (w \in Queued(p) /\ Lapsed(p, w, now))
    <3> HIDE DEF admitted, lapsed, r
    <3>. QED
      BY <2>2, <2>3, <2>6
  <2>8. /\ r.inflight = p.inflight
        /\ \A rt \in Runtime : r.runtimeInflight[rt] = p.runtimeInflight[rt]
    <3> HIDE DEF chosen, r
    <3>. QED
      BY <1>1, <2>2, <2>3, FS_EmptySet DEF PoolType
  <2>9. ASSUME NEW rt \in Runtime
        PROVE  NextQueued(r, rt, now) = r.queues[rt] /\ ~Eligible(r, rt, now)
    <3>1. r.queues[rt] = next(rt)
      BY <2>5
    <3>2. next(rt) \in Seq(Id) /\ (next(rt) # << >> => Selectable(p, Head(next(rt)), now))
      BY <1>1, NextQueuedSuffix
    <3>3. ASSUME next(rt) # << >>
          PROVE  Selectable(r, Head(next(rt)), now)
      <4> DEFINE v == p.waiters[Head(next(rt))]
      <4>1. v # None /\ p.state[v] = "queued" /\ ~Lapsed(p, v, now)
        BY <3>2, <3>3 DEF Selectable, StillQueued
      <4>2. Head(next(rt)) \in Id
        <5> HIDE DEF next
        <5>. QED
          BY <3>2, <3>3
      <4>3. v \in Waiter
        <5> HIDE DEF next
        <5>. QED
          BY <1>1, <4>1, <4>2 DEF PoolType
      <4> HIDE DEF next, r
      <4>4. r.waiters[Head(next(rt))] = v /\ r.state[v] = "queued" /\ ~Lapsed(r, v, now)
        BY <2>3, <2>7, <4>1, <4>3 DEF Lapsed
      <4> HIDE DEF v
      <4>. QED
        BY <4>1, <4>4 DEF Selectable, StillQueued
    <3>4. NextQueued(r, rt, now) = r.queues[rt]
      <4> HIDE DEF next, r
      <4>. QED
        BY <2>4, <3>1, <3>3, NextQueuedKeeps
    <3>5. ~Eligible(p, rt, now)
      BY <1>4
    <3>6. Selected(r, rt, now) = Selected(p, rt, now)
      <4> HIDE DEF r
      <4>. QED
        BY <2>3, <3>1, <3>4 DEF Selected
    <3> HIDE DEF r
    <3>. QED
      BY <2>8, <3>1, <3>4, <3>5, <3>6 DEF Eligible
  <2> HIDE DEF r
  <2>. QED
    BY <2>7, <2>9 DEF Settled, r
<1>. QED
  BY <1>2, <1>3, <1>4

\* No slot is free, or the oldest waiter in the queue of every runtime is held
\* back by the runtime's limit: WorkConserving, of a pool.
NoIdleSlot(p) ==
  SlotFree(p) => \A rt \in Runtime :
    LET live == {i \in 1..Len(p.queues[rt]) : StillQueued(p, p.queues[rt][i])}
    IN  live # {} =>
          \E i \in live : /\ \A j \in live : i <= j
                          /\ p.runtimeInflight[rt] >= CapOf[p.waiters[p.queues[rt][i]]]

\* Where there is nothing left for a round to do, no slot is idle.
LEMMA SettledConserves ==
  ASSUME NEW p, PoolInv(p), NEW now \in Nat, Settled(p, now)
  PROVE  NoIdleSlot(p)
<1>1. p \in PoolType
  BY DEF PoolInv
<1>2. ASSUME SlotFree(p), NEW rt \in Runtime,
             NEW i \in 1..Len(p.queues[rt]), StillQueued(p, p.queues[rt][i])
      PROVE  /\ 1 \in 1..Len(p.queues[rt])
             /\ StillQueued(p, p.queues[rt][1])
             /\ p.runtimeInflight[rt] >= CapOf[p.waiters[p.queues[rt][1]]]
  <2> DEFINE q == p.queues[rt]
  <2>1. q \in Seq(Id) /\ Len(q) \in Nat /\ q # << >>
    <3>1. q \in Seq(Id)
      BY <1>1 DEF PoolType
    <3>. QED
      BY <1>2, <3>1
  <2>2. NextQueued(p, rt, now) = q /\ ~Eligible(p, rt, now)
    BY <1>2 DEF Settled
  <2>3. Selectable(p, Head(q), now)
    BY <1>1, <2>1, <2>2, NextQueuedSuffix
  <2>4. Head(q) = q[1] /\ 1 \in 1..Len(q)
    <3> HIDE DEF q
    <3>. QED
      BY <2>1
  <2>5. Selected(p, rt, now) \in Waiter
    BY <2>1, <2>2, SelectedWaiter
  <2>6. p.runtimeInflight[rt] \in Nat /\ CapOf[Selected(p, rt, now)] \in Nat
    BY <1>1, <2>5, GovernorAssumption DEF PoolType
  <2>7. p.runtimeInflight[rt] >= CapOf[p.waiters[Head(q)]]
    BY <2>1, <2>2, <2>6 DEF Eligible, Selected
  <2>. QED
    BY <2>3, <2>4, <2>7 DEF Selectable
<1>3. ASSUME SlotFree(p), NEW rt \in Runtime,
             {i \in 1..Len(p.queues[rt]) : StillQueued(p, p.queues[rt][i])} # {}
      PROVE  \E i \in {i \in 1..Len(p.queues[rt]) : StillQueued(p, p.queues[rt][i])} :
               /\ \A j \in {j \in 1..Len(p.queues[rt]) : StillQueued(p, p.queues[rt][j])} :
                    i <= j
               /\ p.runtimeInflight[rt] >= CapOf[p.waiters[p.queues[rt][i]]]
  <2>1. /\ 1 \in 1..Len(p.queues[rt])
        /\ StillQueued(p, p.queues[rt][1])
        /\ p.runtimeInflight[rt] >= CapOf[p.waiters[p.queues[rt][1]]]
    BY <1>2, <1>3
  <2>. QED
    BY <2>1
<1>. QED
  BY <1>3 DEF NoIdleSlot

\* MaxRunning rounds are enough: each takes a slot or finds nothing to do.
LEMMA AdmitConserves ==
  ASSUME NEW p, PoolInv(p), NEW now \in Nat
  PROVE  NoIdleSlot(Admit(p, now))
<1> DEFINE Round(n) == {r \in PoolType : Settled(r, now) \/ r.inflight >= n}
           S == [n \in 0..MaxRunning |-> Round(n)]
<1>1. MaxRunning \in Nat
  BY GovernorAssumption
<1>2. p \in Round(0)
  BY DEF PoolInv, PoolType
<1>3. ASSUME NEW n \in 1..MaxRunning, NEW r \in Round(n - 1), PoolInv(r)
      PROVE  AdmitOne(r, now) \in Round(n)
  <2>1. AdmitOne(r, now) \in PoolType
    BY <1>3, AdmitOneFollows DEF Follows, PoolInv
  <2>2. CASE SlotFree(r) => \A rt \in Runtime : ~Eligible(r, rt, now)
    BY <1>3, <2>1, <2>2, AdmitOneSettles
  <2>3. CASE SlotFree(r) /\ \E rt \in Runtime : Eligible(r, rt, now)
    <3>1. r.inflight >= n - 1 /\ r.inflight \in Nat
      BY <1>3, <2>3 DEF Settled, PoolType
    <3>2. AdmitOne(r, now).inflight = r.inflight + 1
      BY <1>3, <2>3, AdmitOneGrants
    <3>3. AdmitOne(r, now).inflight >= n
      BY <1>1, <3>1, <3>2
    <3>. QED
      BY <2>1, <3>3
  <2>. QED
    BY <2>2, <2>3
<1> HIDE DEF Round
<1>4. \A n \in 0..MaxRunning : S[n] = Round(n)
  OBVIOUS
<1>5. 0 \in 0..MaxRunning /\ MaxRunning \in 0..MaxRunning
      /\ \A n \in 1..MaxRunning : n \in 0..MaxRunning /\ n - 1 \in 0..MaxRunning
  BY <1>1
<1> HIDE DEF S
<1>6. Admit(p, now) \in S[MaxRunning] /\ PoolInv(Admit(p, now))
  BY <1>2, <1>3, <1>4, <1>5, AdmitRounds
<1>7. Settled(Admit(p, now), now)
  <2>1. Admit(p, now) \in Round(MaxRunning)
    BY <1>4, <1>5, <1>6
  <2>2. Admit(p, now).inflight >= MaxRunning => ~SlotFree(Admit(p, now))
    BY <1>1, <1>6 DEF SlotFree, PoolInv, PoolType
  <2>. QED
    BY <2>1, <2>2 DEF Round, Settled
<1>. QED
  BY <1>6, <1>7, SettledConserves

\* What is selected is the entry after those skipped.
LEMMA SelectedEntry ==
  ASSUME NEW p \in PoolType, NEW rt \in Runtime, NEW now \in Nat,
         NextQueued(p, rt, now) # << >>
  PROVE  /\ Skipped(p, rt, now) + 1 \in 1..Len(p.queues[rt])
         /\ Head(NextQueued(p, rt, now)) = p.queues[rt][Skipped(p, rt, now) + 1]
<1> DEFINE q == p.queues[rt]
           k == Skipped(p, rt, now)
<1>1. q \in Seq(Id) /\ Len(q) \in Nat
  BY DEF PoolType
<1>2. k \in 0..Len(q) /\ SubSeq(q, k + 1, Len(q)) # << >>
  BY SkippedPrefix DEF NextQueued
<1>3. NextQueued(p, rt, now) = SubSeq(q, k + 1, Len(q))
  BY DEF NextQueued
<1> HIDE DEF k, q
<1>4. k < Len(q)
  BY <1>1, <1>2
<1>. QED
  BY <1>1, <1>2, <1>3, <1>4 DEF k, q

\* No waiter in the pool's queues has run out of time.
NobodyLapsed(p, now) == \A w \in Queued(p) : ~Lapsed(p, w, now)

\* Nobody can be admitted to a pool without idle slots in which nobody lapsed.
LEMMA NoneEligible ==
  ASSUME NEW p, PoolInv(p), NoIdleSlot(p), NEW now \in Nat, NobodyLapsed(p, now),
         SlotFree(p), NEW rt \in Runtime
  PROVE  ~Eligible(p, rt, now)
<1> DEFINE q == p.queues[rt]
           k == Skipped(p, rt, now)
           live == {i \in 1..Len(q) : StillQueued(p, q[i])}
<1>1. p \in PoolType /\ PoolRegistry(p) /\ q \in Seq(Id) /\ Len(q) \in Nat
  BY DEF PoolInv, PoolType
<1>2. SUFFICES ASSUME Eligible(p, rt, now)
               PROVE  FALSE
  OBVIOUS
<1>3. /\ k \in Nat /\ k + 1 \in 1..Len(q)
      /\ Head(NextQueued(p, rt, now)) = q[k + 1]
      /\ \A i \in 1..k : ~Selectable(p, q[i], now)
      /\ Selectable(p, q[k + 1], now)
  <2>1. NextQueued(p, rt, now) # << >>
    BY <1>2 DEF Eligible
  <2>2. k + 1 \in 1..Len(q) /\ Head(NextQueued(p, rt, now)) = q[k + 1]
    BY <1>1, <2>1, SelectedEntry
  <2>3. k \in Nat /\ \A i \in 1..k : ~Selectable(p, q[i], now)
    BY <1>1, SkippedPrefix
  <2>4. Selectable(p, q[k + 1], now)
    BY <1>1, <2>1, <2>2, NextQueuedSuffix
  <2>. QED
    BY <2>2, <2>3, <2>4
<1>4. ASSUME NEW i \in live
      PROVE  Selectable(p, q[i], now)
  <2> DEFINE v == p.waiters[q[i]]
  <2>1. v # None /\ p.state[v] = "queued" /\ q[i] \in Id
    BY <1>1, <1>4 DEF StillQueued
  <2>2. v \in Waiter
    BY <1>1, <2>1 DEF PoolType
  <2>3. v \in Queued(p)
    BY <1>1, <2>1, <2>2 DEF Queued, PoolRegistry
  <2>. QED
    BY <2>3, <1>4 DEF NobodyLapsed, Selectable
<1>5. k + 1 \in live
  BY <1>3 DEF Selectable
<1>6. PICK i \in live : /\ \A j \in live : i <= j
                        /\ p.runtimeInflight[rt] >= CapOf[p.waiters[q[i]]]
  BY <1>5 DEF NoIdleSlot
<1>7. i = k + 1
  <2>1. i \in 1..Len(q) /\ i <= k + 1
    BY <1>5, <1>6
  <2>2. i \notin 1..k
    BY <1>3, <1>4
  <2>. QED
    BY <1>1, <1>3, <2>1, <2>2
<1>8. p.runtimeInflight[rt] >= CapOf[Selected(p, rt, now)]
  BY <1>3, <1>6, <1>7 DEF Selected
<1>9. Selected(p, rt, now) \in Waiter
  BY <1>2, SelectedWaiter DEF Eligible
<1>10. p.runtimeInflight[rt] \in Nat /\ CapOf[Selected(p, rt, now)] \in Nat
  BY <1>1, <1>9, GovernorAssumption DEF PoolType
<1>. QED
  BY <1>2, <1>8, <1>10 DEF Eligible

\* A critical section that only expires and admits, as snapshot does, moves no
\* waiter when nobody has lapsed: there is nothing it would have to notify of.
LEMMA QuietPool ==
  ASSUME NEW p, PoolInv(p), NoIdleSlot(p), NEW now \in Nat, NobodyLapsed(p, now)
  PROVE  Admit(ExpireQueued(p, now), now).state = p.state
<1> DEFINE Quiet == {r \in PoolType :
                       /\ Follows(p, r) /\ r.state = p.state
                       /\ SlotFree(r) => \A rt \in Runtime : ~Eligible(r, rt, now)}
           S == [n \in 0..MaxRunning |-> Quiet]
<1>1. MaxRunning \in Nat /\ p \in PoolType
  BY GovernorAssumption DEF PoolInv
<1>2. ExpireQueued(p, now) = p
  <2>1. p.state = [w \in Waiter |-> IF w \in Queued(p) /\ Lapsed(p, w, now)
                                    THEN "expired" ELSE p.state[w]]
    <3>1. \A w \in Waiter : ~(w \in Queued(p) /\ Lapsed(p, w, now))
      BY DEF NobodyLapsed
    <3>2. p.state \in [Waiter -> States]
      BY <1>1 DEF PoolType
    <3>. QED
      BY <3>1, <3>2
  <2>2. ExpireQueued(p, now) = [p EXCEPT !.state = p.state]
    BY <2>1 DEF ExpireQueued
  <2>. QED
    BY <1>1, <2>2 DEF PoolType
<1>3. p \in Quiet
  BY <1>1, FollowsItself, NoneEligible
<1>4. ASSUME NEW r \in Quiet, PoolInv(r)
      PROVE  AdmitOne(r, now) \in Quiet
  <2> DEFINE t == AdmitOne(r, now)
  <2>1. Follows(r, t) /\ Follows(p, t) /\ t \in PoolType
    BY <1>4, AdmitOneFollows, FollowsOn DEF Follows, PoolInv
  <2>2. /\ Settled(t, now)
        /\ \A w \in Waiter :
             t.state[w] = r.state[w] \/ (w \in Queued(r) /\ Lapsed(r, w, now))
    BY <1>4, AdmitOneSettles
  <2>3. \A w \in Waiter : ~(w \in Queued(r) /\ Lapsed(r, w, now))
    BY <1>4 DEF Follows, Queued, Lapsed, NobodyLapsed
  <2> HIDE DEF t
  <2>4. t.state = p.state
    <3>1. \A w \in Waiter : t.state[w] = r.state[w]
      BY <2>2, <2>3
    <3>2. t.state \in [Waiter -> States] /\ r.state \in [Waiter -> States] /\ r.state = p.state
      BY <1>4, <2>1 DEF PoolType
    <3>. QED
      BY <3>1, <3>2
  <2>. QED
    BY <2>1, <2>2, <2>4 DEF Settled, t
<1> HIDE DEF Quiet
<1>5. \A n \in 0..MaxRunning : S[n] = Quiet
  OBVIOUS
<1>6. 0 \in 0..MaxRunning /\ MaxRunning \in 0..MaxRunning
      /\ \A n \in 1..MaxRunning : n \in 0..MaxRunning /\ n - 1 \in 0..MaxRunning
  BY <1>1
<1> HIDE DEF S
<1>7. Admit(p, now) \in S[MaxRunning]
  BY <1>3, <1>4, <1>5, <1>6, AdmitRounds
<1>. QED
  BY <1>2, <1>5, <1>6, <1>7 DEF Quiet

\* Expiring and then admitting, as submit, wait and snapshot do.
LEMMA ExpireThenAdmitFollows ==
  ASSUME NEW p, PoolInv(p), NEW now \in Nat
  PROVE  LET r == Admit(ExpireQueued(p, now), now)
         IN  Follows(p, r) /\ NoIdleSlot(r)
<1>1. Follows(p, ExpireQueued(p, now))
  BY ExpireQueuedFollows
<1>2. PoolInv(ExpireQueued(p, now))
  BY <1>1 DEF Follows
<1>3. Follows(ExpireQueued(p, now), Admit(ExpireQueued(p, now), now))
  BY <1>2, AdmitFollows
<1>. QED
  BY <1>1, <1>2, <1>3, FollowsOn, AdmitConserves

-----------------------------------------------------------------------------
(* How waiters come and go.                                                 *)

\* submit registers a waiter nobody has submitted, under an id not in use.
LEMMA RegisteredInv ==
  ASSUME IdsKeepRuntime, NEW p, PoolInv(p), NEW w \in Waiter,
         NEW timeout \in Timeouts, NEW now \in Nat,
         p.state[w] = "new", p.waiters[IdOf[w]] = None
  PROVE  /\ PoolInv(Registered(p, w, timeout, now))
         /\ Registered(p, w, timeout, now).state = [p.state EXCEPT ![w] = "queued"]
<1> DEFINE rt == RuntimeOf[w]
           id == IdOf[w]
           until == IF timeout = None THEN None ELSE now + timeout
           q == [p EXCEPT !.waiters[id] = w,
                          !.state[w] = "queued",
                          !.deadline[w] = until,
                          !.queues[rt] = Append(@, id)]
           r == Registered(p, w, timeout, now)
<1>1. p \in PoolType /\ PoolCounts(p) /\ PoolRegistry(p) /\ PoolScheduled(p)
  BY DEF PoolInv
<1>2. rt \in Runtime /\ id \in Id /\ until \in Nat \cup {None}
  BY GovernorAssumption
<1>3. Append(p.queues[rt], id) \in Seq(Id)
  BY <1>1, <1>2 DEF PoolType
<1>4. /\ q \in PoolType
      /\ q.waiters = [p.waiters EXCEPT ![id] = w]
      /\ q.state = [p.state EXCEPT ![w] = "queued"]
      /\ q.queues = [p.queues EXCEPT ![rt] = Append(p.queues[rt], id)]
      /\ q.order = p.order
      /\ q.inflight = p.inflight /\ q.runtimeInflight = p.runtimeInflight
  <2> HIDE DEF rt, id, until
  <2>. QED
    BY <1>1, <1>2, <1>3 DEF PoolType, States
<1>5. /\ r \in PoolType
      /\ r.waiters = q.waiters /\ r.state = q.state /\ r.queues = q.queues
      /\ r.inflight = q.inflight /\ r.runtimeInflight = q.runtimeInflight
      /\ \E i \in 1..Len(r.order) : r.order[i] = rt
      /\ \A i \in 1..Len(q.order) : i \in 1..Len(r.order) /\ r.order[i] = q.order[i]
  <2>1. r = ScheduleRuntime(q, rt)
    BY DEF Registered
  <2> HIDE DEF q, r, rt
  <2>2. \/ r = q /\ \E i \in 1..Len(q.order) : q.order[i] = rt
        \/ r = [q EXCEPT !.order = Append(q.order, rt)]
    BY <2>1 DEF ScheduleRuntime
  <2>3. q.order \in Seq(Runtime) /\ Append(q.order, rt) \in Seq(Runtime)
    BY <1>2, <1>4 DEF PoolType
  <2>4. CASE r = q /\ \E i \in 1..Len(q.order) : q.order[i] = rt
    BY <1>4, <2>4
  <2>5. CASE r = [q EXCEPT !.order = Append(q.order, rt)]
    <3>1. r.order = Append(q.order, rt)
      BY <1>4, <2>5 DEF PoolType
    <3>2. /\ Len(r.order) \in 1..Len(r.order) /\ r.order[Len(r.order)] = rt
          /\ \A i \in 1..Len(q.order) : i \in 1..Len(r.order) /\ r.order[i] = q.order[i]
      BY <1>2, <2>3, <3>1
    <3>3. /\ r \in PoolType
          /\ r.waiters = q.waiters /\ r.state = q.state /\ r.queues = q.queues
          /\ r.inflight = q.inflight /\ r.runtimeInflight = q.runtimeInflight
      BY <1>4, <2>3, <2>5 DEF PoolType
    <3>. QED
      BY <3>2, <3>3
  <2>. QED
    BY <2>2, <2>4, <2>5
<1> HIDE DEF q, r, until
<1>6. p.waiters \in [Id -> Waiter \cup {None}] /\ p.state \in [Waiter -> States]
      /\ p.queues \in [Runtime -> Seq(Id)]
  BY <1>1 DEF PoolType
<1>7. \A v \in Waiter : r.state[v] = IF v = w THEN "queued" ELSE p.state[v]
  BY <1>4, <1>5, <1>6
<1>8. Holding(r) = Holding(p)
  BY <1>7 DEF Holding
<1>9. PoolCounts(r)
  BY <1>1, <1>4, <1>5, <1>8 DEF PoolCounts, HoldingOn
<1>10. \A i \in Id : r.waiters[i] = IF i = id THEN w ELSE p.waiters[i]
  BY <1>4, <1>5, <1>6
<1>11. ASSUME NEW v \in Waiter, r.state[v] \in {"queued", "running"}
       PROVE  r.waiters[IdOf[v]] = v
  <2>1. CASE v = w
    BY <1>2, <1>10, <2>1
  <2>2. CASE v # w
    <3>1. p.waiters[IdOf[v]] = v
      BY <1>1, <1>7, <1>11, <2>2 DEF PoolRegistry
    <3>2. IdOf[v] \in Id /\ v # None
      BY GovernorAssumption
    <3>. QED
      BY <1>10, <3>1, <3>2
  <2>. QED
    BY <2>1, <2>2
<1>12. ASSUME NEW i \in Id, r.waiters[i] # None
       PROVE  IdOf[r.waiters[i]] = i
  BY <1>1, <1>10, <1>12 DEF PoolRegistry
<1>13. ASSUME NEW t \in Runtime, NEW i \in 1..Len(r.queues[t]),
              NEW v \in Waiter, IdOf[v] = r.queues[t][i]
       PROVE  RuntimeOf[v] = t
  <2>1. r.queues[t] = IF t = rt THEN Append(p.queues[rt], id) ELSE p.queues[t]
    BY <1>4, <1>5, <1>6
  <2>2. CASE r.queues[t] = p.queues[t]
    BY <1>1, <1>13, <2>2 DEF PoolRegistry
  <2>3. CASE t = rt
    <3>1. p.queues[rt] \in Seq(Id) /\ r.queues[t] = Append(p.queues[rt], id)
      BY <1>2, <1>6, <2>1, <2>3
    <3>2. CASE i = Len(p.queues[rt]) + 1
      <4>1. r.queues[t][i] = id
        BY <3>1, <3>2
      <4>. QED
        BY <1>13, <2>3, <4>1 DEF IdsKeepRuntime
    <3>3. CASE i # Len(p.queues[rt]) + 1
      <4>1. i \in 1..Len(p.queues[rt]) /\ r.queues[t][i] = p.queues[rt][i]
        BY <3>1, <3>3
      <4>. QED
        BY <1>1, <1>2, <1>13, <2>3, <4>1 DEF PoolRegistry
    <3>. QED
      BY <3>2, <3>3
  <2>. QED
    BY <2>1, <2>2, <2>3
<1>14. PoolRegistry(r)
  BY <1>11, <1>12, <1>13 DEF PoolRegistry
<1>15. PoolScheduled(r)
  <2>1. ASSUME NEW t \in Runtime, t # rt, r.queues[t] # << >>
        PROVE  \E i \in 1..Len(p.order) : p.order[i] = t
    <3>1. r.queues[t] = p.queues[t]
      BY <1>4, <1>5, <1>6, <2>1
    <3>. QED
      BY <1>1, <2>1, <3>1 DEF PoolScheduled
  <2>. QED
    BY <1>4, <1>5, <2>1 DEF PoolScheduled
<1>. QED
  BY <1>4, <1>5, <1>9, <1>14, <1>15 DEF PoolInv, r

\* A waiter that neither waits nor runs may be forgotten.
LEMMA DiscardInv ==
  ASSUME NEW p, PoolInv(p), NEW w \in Waiter, p.state[w] \notin {"queued", "running"}
  PROVE  PoolInv(Discard(p, w)) /\ Discard(p, w).state = p.state
<1> DEFINE r == Discard(p, w)
<1>1. p \in PoolType /\ PoolCounts(p) /\ PoolRegistry(p) /\ PoolScheduled(p)
  BY DEF PoolInv
<1>2. CASE p.waiters[IdOf[w]] # w
  BY <1>2 DEF Discard
<1>3. CASE p.waiters[IdOf[w]] = w
  <2>1. r = [p EXCEPT !.waiters[IdOf[w]] = None]
    BY <1>3 DEF Discard
  <2> HIDE DEF r
  <2>2. /\ r \in PoolType
        /\ r.state = p.state /\ r.queues = p.queues /\ r.order = p.order
        /\ r.inflight = p.inflight /\ r.runtimeInflight = p.runtimeInflight
        /\ \A i \in Id : r.waiters[i] = IF i = IdOf[w] THEN None ELSE p.waiters[i]
    BY <1>1, <2>1 DEF PoolType
  <2>3. PoolCounts(r)
    BY <1>1, <2>2 DEF PoolCounts, HoldingOn, Holding
  <2>4. PoolRegistry(r) /\ PoolScheduled(r)
    <3>1. \A v \in Waiter : IdOf[v] \in Id
      BY GovernorAssumption
    <3>. QED
      BY <1>1, <1>3, <2>2, <3>1 DEF PoolRegistry, PoolScheduled
  <2>. QED
    BY <2>2, <2>3, <2>4 DEF PoolInv, r
<1>. QED
  BY <1>2, <1>3

\* Forgetting a waiter that is not in the queue leaves no slot idle.
LEMMA DiscardConserves ==
  ASSUME NEW p, PoolInv(p), NEW w \in Waiter, p.state[w] # "queued", NoIdleSlot(p)
  PROVE  NoIdleSlot(Discard(p, w))
<1> DEFINE r == Discard(p, w)
<1>1. p \in PoolType
  BY DEF PoolInv
<1>2. CASE p.waiters[IdOf[w]] # w
  BY <1>2 DEF Discard
<1>3. CASE p.waiters[IdOf[w]] = w
  <2>1. r = [p EXCEPT !.waiters[IdOf[w]] = None]
    BY <1>3 DEF Discard
  <2> HIDE DEF r
  <2>2. /\ r.state = p.state /\ r.queues = p.queues
        /\ r.inflight = p.inflight /\ r.runtimeInflight = p.runtimeInflight
        /\ \A i \in Id : r.waiters[i] = IF i = IdOf[w] THEN None ELSE p.waiters[i]
    BY <1>1, <2>1 DEF PoolType
  <2>3. \A i \in Id : /\ StillQueued(r, i) <=> StillQueued(p, i)
                      /\ StillQueued(r, i) => r.waiters[i] = p.waiters[i]
    BY <1>3, <2>2 DEF StillQueued
  <2>4. ASSUME NEW rt \in Runtime
        PROVE  /\ {i \in 1..Len(r.queues[rt]) : StillQueued(r, r.queues[rt][i])}
                    = {i \in 1..Len(p.queues[rt]) : StillQueued(p, p.queues[rt][i])}
               /\ \A i \in {i \in 1..Len(p.queues[rt]) : StillQueued(p, p.queues[rt][i])} :
                    r.waiters[r.queues[rt][i]] = p.waiters[p.queues[rt][i]]
    <3>1. \A i \in 1..Len(p.queues[rt]) : p.queues[rt][i] \in Id
      <4>1. p.queues[rt] \in Seq(Id)
        BY <1>1 DEF PoolType
      <4>. QED
        BY <4>1
    <3>. QED
      BY <2>2, <2>3, <3>1
  <2>5. ASSUME SlotFree(r), NEW rt \in Runtime,
               {i \in 1..Len(r.queues[rt]) : StillQueued(r, r.queues[rt][i])} # {}
        PROVE  \E i \in {i \in 1..Len(r.queues[rt]) : StillQueued(r, r.queues[rt][i])} :
                 /\ \A j \in {j \in 1..Len(r.queues[rt]) : StillQueued(r, r.queues[rt][j])} :
                      i <= j
                 /\ r.runtimeInflight[rt] >= CapOf[r.waiters[r.queues[rt][i]]]
    <3> DEFINE live == {i \in 1..Len(p.queues[rt]) : StillQueued(p, p.queues[rt][i])}
    <3>1. live = {i \in 1..Len(r.queues[rt]) : StillQueued(r, r.queues[rt][i])}
      BY <2>4
    <3>2. PICK i \in live : /\ \A j \in live : i <= j
                            /\ p.runtimeInflight[rt] >= CapOf[p.waiters[p.queues[rt][i]]]
      BY <2>2, <2>5, <3>1 DEF NoIdleSlot, SlotFree
    <3>3. r.runtimeInflight[rt] >= CapOf[r.waiters[r.queues[rt][i]]]
      BY <2>2, <2>4, <3>2
    <3> HIDE DEF live
    <3>. QED
      BY <3>1, <3>2, <3>3
  <2>. QED
    BY <2>5 DEF NoIdleSlot, r
<1>. QED
  BY <1>2, <1>3

\* A waiter that waits is cancelled.
LEMMA CancelQueuedInv ==
  ASSUME NEW p, PoolInv(p), NEW w \in Waiter, p.state[w] = "queued"
  PROVE  PoolInv([p EXCEPT !.state[w] = "cancelled"])
<1> DEFINE r == [p EXCEPT !.state[w] = "cancelled"]
<1>1. p \in PoolType /\ PoolCounts(p) /\ PoolRegistry(p) /\ PoolScheduled(p)
  BY DEF PoolInv
<1>2. /\ r \in PoolType
      /\ r.waiters = p.waiters /\ r.queues = p.queues /\ r.order = p.order
      /\ r.inflight = p.inflight /\ r.runtimeInflight = p.runtimeInflight
      /\ \A v \in Waiter : r.state[v] = IF v = w THEN "cancelled" ELSE p.state[v]
  BY <1>1 DEF PoolType, States
<1> HIDE DEF r
<1>3. Holding(r) = Holding(p)
  BY <1>2 DEF Holding
<1>4. PoolCounts(r)
  BY <1>1, <1>2, <1>3 DEF PoolCounts, HoldingOn
<1>5. PoolRegistry(r) /\ PoolScheduled(r)
  BY <1>1, <1>2 DEF PoolRegistry, PoolScheduled
<1>. QED
  BY <1>2, <1>4, <1>5 DEF PoolInv, r

\* A waiter that runs is completed or cancelled: _release_running_locked takes
\* back the one slot it was counted for, and its clamps do not bite.
LEMMA ReleaseRunningInv ==
  ASSUME NEW p, PoolInv(p), NEW w \in Waiter, p.state[w] = "running",
         NEW s \in {"completed", "cancelled"}
  PROVE  LET r == ReleaseRunning([p EXCEPT !.state[w] = s], RuntimeOf[w])
         IN  PoolInv(r) /\ r.state = [p.state EXCEPT ![w] = s]
<1> DEFINE rt == RuntimeOf[w]
           q == [p EXCEPT !.state[w] = s]
           r == ReleaseRunning(q, rt)
<1>1. p \in PoolType /\ PoolCounts(p) /\ PoolRegistry(p) /\ PoolScheduled(p)
  BY DEF PoolInv
<1>2. rt \in Runtime
  BY GovernorAssumption
<1>3. w \in Holding(p) /\ w \in HoldingOn(p, rt)
  BY DEF Holding, HoldingOn
<1>4. /\ p.inflight \in Nat /\ p.runtimeInflight \in [Runtime -> Nat]
      /\ p.inflight > 0 /\ p.runtimeInflight[rt] > 0
  <2>1. Cardinality(Holding(p)) # 0 /\ Cardinality(HoldingOn(p, rt)) # 0
    BY <1>2, <1>3, HoldersFinite, FS_EmptySet
  <2>. QED
    BY <1>1, <1>2, <2>1 DEF PoolType, PoolCounts
<1>5. /\ q \in PoolType
      /\ q.waiters = p.waiters /\ q.queues = p.queues /\ q.order = p.order
      /\ q.state = [p.state EXCEPT ![w] = s]
      /\ q.inflight = p.inflight /\ q.runtimeInflight = p.runtimeInflight
  BY <1>1 DEF PoolType, States
<1> HIDE DEF q, rt
<1>6. r = [q EXCEPT !.inflight = p.inflight - 1,
                    !.runtimeInflight = [p.runtimeInflight EXCEPT
                                           ![rt] = p.runtimeInflight[rt] - 1]]
  <2>1. (IF q.runtimeInflight[rt] <= 1 THEN 0 ELSE q.runtimeInflight[rt] - 1)
          = p.runtimeInflight[rt] - 1
    BY <1>2, <1>4, <1>5
  <2>2. (IF q.inflight > 0 THEN q.inflight - 1 ELSE 0) = p.inflight - 1
    BY <1>4, <1>5
  <2>. QED
    BY <1>2, <1>4, <1>5, <2>1, <2>2 DEF ReleaseRunning, PoolType
<1> HIDE DEF r
<1>7. /\ r \in PoolType
      /\ r.waiters = p.waiters /\ r.queues = p.queues /\ r.order = p.order
      /\ r.state = q.state
      /\ r.inflight = p.inflight - 1
      /\ \A t \in Runtime : r.runtimeInflight[t] =
           p.runtimeInflight[t] - (IF t = rt THEN 1 ELSE 0)
  <2> DEFINE counts == [p.runtimeInflight EXCEPT ![rt] = p.runtimeInflight[rt] - 1]
  <2>1. counts \in [Runtime -> Nat] /\ p.inflight - 1 \in Nat
    BY <1>2, <1>4
  <2>2. \A t \in Runtime : counts[t] =
           p.runtimeInflight[t] - (IF t = rt THEN 1 ELSE 0)
    BY <1>2, <1>4
  <2> HIDE DEF counts
  <2>3. r = [q EXCEPT !.inflight = p.inflight - 1, !.runtimeInflight = counts]
    BY <1>6 DEF counts
  <2>4. r \in PoolType /\ r.runtimeInflight = counts /\ r.inflight = p.inflight - 1
    BY <1>5, <2>1, <2>3 DEF PoolType
  <2>5. r.waiters = q.waiters /\ r.queues = q.queues /\ r.state = q.state
        /\ r.order = q.order
    BY <1>5, <2>3 DEF PoolType
  <2>. QED
    BY <1>5, <2>2, <2>4, <2>5
<1>8. p.state \in [Waiter -> States]
  BY <1>1 DEF PoolType
<1>9. Holding(r) = Holding(p) \ {w}
  BY <1>5, <1>7, <1>8 DEF Holding
<1>10. PoolCounts(r)
  BY <1>3, <1>7, <1>9, ReturnCounts DEF rt
<1>11. PoolRegistry(r) /\ PoolScheduled(r)
  BY <1>1, <1>5, <1>7, <1>8 DEF PoolRegistry, PoolScheduled
<1>12. PoolInv(r) /\ r.state = [p.state EXCEPT ![w] = s]
  BY <1>5, <1>7, <1>10, <1>11 DEF PoolInv
<1>. QED
  BY <1>12, Zenon DEF r, q, rt

-----------------------------------------------------------------------------
(* The actions.                                                             *)

\* The invariant the theorems need together: what a critical section may rely on
\* to find is what it leaves to the next one.
Safe == Inv /\ WorkConserving /\ NoLostWakeup

\* What a step may do to a waiter and its client: nothing; admit or expire a
\* waiter in the queue; register a waiter of a client that awaits no other under
\* this id; refuse it; or take a waiter its own client gives up out of the pool.
Moves(w) ==
  \/ /\ owner'[w] = owner[w]
     /\ \/ state'[w] = state[w]
        \/ state[w] = "queued" /\ state'[w] \in {"running", "expired"}
  \/ /\ owner[w] = "idle" /\ owner'[w] = "awaiting"
     /\ state'[w] \in {"queued", "running", "expired"}
     /\ \A v \in Waiter \ {w} : IdOf[v] = IdOf[w] => owner'[v] # "awaiting"
  \/ /\ owner[w] = "idle" /\ owner'[w] = "done"
     /\ state'[w] = state[w]
  \/ /\ owner[w] = "awaiting" /\ owner'[w] = "done"
     /\ \/ state'[w] = state[w] /\ state[w] \notin {"queued", "running"}
        \/ state[w] \in {"queued", "running"} /\ state'[w] \in {"cancelled", "completed"}
        \/ state[w] = "queued" /\ state'[w] = "expired"

\* Assigning the fields of p one by one leaves the pool at p.
LEMMA BecomesPool ==
  ASSUME NEW p \in PoolType, Becomes(p)
  PROVE  Pool' = p
<1>1. Pool' = [waiters |-> p.waiters, state |-> p.state, deadline |-> p.deadline,
               queues |-> p.queues, order |-> p.order,
               runtimeInflight |-> p.runtimeInflight, inflight |-> p.inflight]
  BY DEF Becomes, Pool
<1>. QED
  BY <1>1 DEF PoolType

\* WorkConserving says that the pool has no idle slot.
LEMMA ConservingPool == WorkConserving <=> NoIdleSlot(Pool)
BY DEF WorkConserving, NoIdleSlot, SlotFree, Pool

\* A step in which every waiter and client moves as it may keeps their states
\* consistent with each other.
LEMMA MovesKeepClients ==
  ASSUME ClientType, ClientType', ClientStates, \A w \in Waiter : Moves(w)
  PROVE  ClientStates'
<1>1. ASSUME NEW w \in Waiter
      PROVE  /\ owner'[w] = "idle" => state'[w] = "new"
             /\ state'[w] \in {"queued", "running"} => owner'[w] = "awaiting"
  BY DEF Moves, ClientStates
<1>2. ASSUME NEW w \in Waiter, owner'[w] = "awaiting",
             NEW v \in Waiter \ {w}, IdOf[v] = IdOf[w], owner'[v] = "awaiting"
      PROVE  FALSE
  <2>1. Moves(v) /\ Moves(w)
    OBVIOUS
  <2>2. owner[w] = "awaiting" \/ (\A u \in Waiter \ {w} : IdOf[u] = IdOf[w] => owner'[u] # "awaiting")
    BY <1>2, <2>1 DEF Moves
  <2>3. owner[v] = "awaiting" \/ (\A u \in Waiter \ {v} : IdOf[u] = IdOf[v] => owner'[u] # "awaiting")
    BY <1>2, <2>1 DEF Moves
  <2>4. owner[w] = "awaiting" /\ owner[v] = "awaiting"
    BY <1>2, <2>2, <2>3
  <2>. QED
    BY <1>2, <2>4 DEF ClientStates
<1>. QED
  BY <1>1, <1>2 DEF ClientStates

\* A step that takes the pool to p, in which nobody moves as he may not and no
\* wakeup is lost, keeps the invariant.
LEMMA StepKeepsSafe ==
  ASSUME Safe, NEW p, PoolInv(p), NoIdleSlot(p), Becomes(p), ClientType',
         \A w \in Waiter : Moves(w), NoLostWakeup'
  PROVE  Safe'
<1>1. Pool' = p
  BY BecomesPool DEF PoolInv
<1>2. PoolInv(Pool)' /\ NoIdleSlot(Pool)'
  BY <1>1
<1>3. WorkConserving'
  BY <1>2, ConservingPool, PTL
<1>4. ClientStates'
  BY MovesKeepClients DEF Safe, Inv
<1>. QED
  BY <1>2, <1>3, <1>4 DEF Safe, Inv

\* The governor as __init__ leaves it satisfies the invariant.
LEMMA InitSafe == Init => Safe
<1> SUFFICES ASSUME Init
             PROVE  Safe
  OBVIOUS
<1>1. Pool \in PoolType
  <2>1. << >> \in Seq(Id) /\ << >> \in Seq(Runtime)
    OBVIOUS
  <2>. QED
    BY <2>1 DEF Init, Pool, PoolType, States
<1>2. /\ Pool.inflight = 0
      /\ \A rt \in Runtime : Pool.runtimeInflight[rt] = 0 /\ Pool.queues[rt] = << >>
      /\ \A w \in Waiter : Pool.state[w] = "new"
      /\ \A id \in Id : Pool.waiters[id] = None
  BY DEF Init, Pool
<1>3. Holding(Pool) = {} /\ \A rt \in Runtime : HoldingOn(Pool, rt) = {}
  BY <1>2 DEF Holding, HoldingOn
<1>4. PoolCounts(Pool)
  <2>1. Cardinality({}) = 0 /\ 0 <= MaxRunning
    BY FS_EmptySet, GovernorAssumption
  <2>2. \A rt \in Runtime : \A S \in SUBSET HoldingOn(Pool, rt) : S = {}
    BY <1>3
  <2>. QED
    BY <1>2, <1>3, <2>1, <2>2 DEF PoolCounts
<1>5. PoolRegistry(Pool) /\ PoolScheduled(Pool)
  BY <1>2 DEF PoolRegistry, PoolScheduled
<1>6. ClientType /\ ClientStates /\ NoLostWakeup
  BY DEF Init, ClientType, ClientStates, NoLostWakeup, Asleep
<1>7. WorkConserving
  <2>1. \A rt \in Runtime : queues[rt] = << >> /\ 1..Len(<< >>) = {}
    BY DEF Init
  <2>. QED
    BY <2>1 DEF WorkConserving
<1>. QED
  BY <1>1, <1>4, <1>5, <1>6, <1>7 DEF Safe, Inv, PoolInv

\* submit, when it registers the waiter.
LEMMA SubmitSafe ==
  ASSUME IdsKeepRuntime, Safe,
         NEW w \in Waiter, NEW timeout \in Timeouts, NEW now \in 0..clock,
         Submit(w, timeout, now)
  PROVE  Safe' /\ \A u \in Waiter : Moves(u)
<1> DEFINE p == BeforeSubmit(now)
           q == Registered(p, w, timeout, now)
           r == Admit(q, now)
<1>1. now \in Nat /\ PoolInv(Pool) /\ ClientType
  BY DEF Safe, Inv, ClientType
<1>2. Follows(Pool, p)
  BY <1>1, ExpireThenAdmitFollows DEF BeforeSubmit
<1>3. owner[w] = "idle" /\ state[w] = "new" /\ waiters[IdOf[w]] = None
  BY DEF Submit, MaySubmit, Safe, Inv, ClientStates
<1>4. p.state[w] = "new" /\ p.waiters[IdOf[w]] = None
  <2> HIDE DEF p
  <2>. QED
    BY <1>2, <1>3 DEF Follows, Pool
<1>5. PoolInv(q) /\ q.state = [p.state EXCEPT ![w] = "queued"]
  <2> HIDE DEF p
  <2>. QED
    BY <1>1, <1>2, <1>4, RegisteredInv DEF Follows
<1>6. Follows(q, r) /\ NoIdleSlot(r)
  <2> HIDE DEF q
  <2>. QED
    BY <1>1, <1>5, AdmitFollows, AdmitConserves
<1>7. /\ Becomes(r)
      /\ owner' = [owner EXCEPT ![w] = "awaiting"]
      /\ thread' = thread /\ clock' = clock /\ notified' = notified \cup Asleep
  BY DEF Submit, NotifyAll
<1>8. ClientType'
  BY <1>1, <1>7 DEF ClientType, Asleep
<1>9. NoLostWakeup'
  BY <1>7 DEF NoLostWakeup, Asleep
<1> HIDE DEF p, q, r
<1>10. ASSUME NEW u \in Waiter
       PROVE  Moves(u)
  <2>1. state' = r.state /\ Pool.state = state /\ p.state \in [Waiter -> States]
    BY <1>2, <1>7 DEF Becomes, Pool, Follows, PoolInv, PoolType
  <2>2. CASE u = w
    <3>1. owner'[w] = "awaiting" /\ \A v \in Waiter \ {w} : owner'[v] = owner[v]
      BY <1>1, <1>7 DEF ClientType
    <3>2. \A v \in Waiter \ {w} : IdOf[v] = IdOf[w] => owner[v] # "awaiting"
      BY DEF Submit, MaySubmit
    <3>3. state'[w] \in {"queued", "running", "expired"}
      BY <1>5, <1>6, <2>1 DEF Follows
    <3>. QED
      BY <1>3, <2>2, <3>1, <3>2, <3>3 DEF Moves
  <2>3. CASE u # w
    <3>1. owner'[u] = owner[u]
      BY <1>1, <1>7, <2>3 DEF ClientType
    <3>2. q.state[u] = p.state[u]
      BY <1>5, <2>1, <2>3
    <3>3. state'[u] = state[u] \/ (state[u] = "queued" /\ state'[u] \in {"running", "expired"})
      BY <1>2, <1>6, <2>1, <3>2 DEF Follows
    <3>. QED
      BY <3>1, <3>3 DEF Moves
  <2>. QED
    BY <2>2, <2>3
<1>. QED
  BY <1>6, <1>7, <1>8, <1>9, <1>10, StepKeepsSafe DEF Follows

\* What wait() finds of its waiter, and how it ends.
LEMMA WaitSafe ==
  ASSUME Safe, NEW w \in Waiter, Wait(w)
  PROVE  Safe' /\ \A u \in Waiter : Moves(u)
<1> DEFINE p == WaitPool(w)
<1>1. clock \in Nat /\ PoolInv(Pool) /\ ClientType /\ NoIdleSlot(Pool)
  BY ConservingPool DEF Safe, Inv, ClientType
<1>2. Follows(Pool, p) /\ NoIdleSlot(p)
  <2>1. CASE state[w] = "queued"
    BY <1>1, <2>1, ExpireThenAdmitFollows DEF WaitPool
  <2>2. CASE state[w] # "queued"
    BY <1>1, <2>2, FollowsItself DEF WaitPool
  <2>. QED
    BY <2>1, <2>2
<1>3. \/ p.state = state
      \/ state[w] = "queued" /\ ~NobodyLapsed(Pool, clock)
  <2>1. CASE state[w] = "queued" /\ NobodyLapsed(Pool, clock)
    BY <1>1, <2>1, QuietPool DEF WaitPool, Pool
  <2>2. CASE state[w] # "queued"
    BY <2>2 DEF WaitPool, Pool
  <2>. QED
    BY <2>1, <2>2
<1>4. /\ WaitSleeps(w, p) \/ WaitReturns(w, p) \/ WaitRaises(w, p)
      /\ clock' = clock /\ NotifyFromWait(w)
  BY DEF Wait
<1> HIDE DEF p
<1>5. /\ PoolInv(p) /\ Pool.state = state
      /\ \A u \in Waiter : \/ p.state[u] = state[u]
                           \/ state[u] = "queued" /\ p.state[u] \in {"running", "expired"}
  BY <1>2 DEF Follows, Pool
<1>6. /\ notified' \in SUBSET Waiter
      /\ \A u \in Asleep \ {w} : u \in notified => u \in notified'
      /\ state[w] = "queued" /\ ~NobodyLapsed(Pool, clock) => Asleep \ {w} \subseteq notified'
  BY <1>1, <1>4 DEF NotifyFromWait, Asleep, ClientType, NobodyLapsed
<1>7. ASSUME NEW u \in Asleep, u # w, p.state[u] # "queued"
      PROVE  u \in notified'
  <2>1. CASE p.state = state
    BY <1>6, <1>7, <2>1 DEF Safe, NoLostWakeup
  <2>2. CASE state[w] = "queued" /\ ~NobodyLapsed(Pool, clock)
    BY <1>6, <1>7, <2>2
  <2>. QED
    BY <1>3, <2>1, <2>2
<1>8. CASE WaitSleeps(w, p) \/ WaitReturns(w, p)
  <2>1. /\ Becomes(p) /\ owner' = owner
        /\ \/ thread' = [thread EXCEPT ![w] = "asleep"] /\ p.state[w] = "queued"
           \/ thread' = [thread EXCEPT ![w] = "done"]
    BY <1>8 DEF WaitSleeps, WaitReturns
  <2>2. ClientType' /\ state' = p.state
    BY <1>1, <1>4, <1>6, <2>1 DEF ClientType, Becomes
  <2>3. NoLostWakeup'
    BY <1>1, <1>7, <2>1, <2>2 DEF NoLostWakeup, Asleep, ClientType
  <2>4. \A u \in Waiter : Moves(u)
    BY <1>5, <2>1, <2>2 DEF Moves
  <2>. QED
    BY <1>2, <1>5, <2>1, <2>2, <2>3, <2>4, StepKeepsSafe
<1>9. CASE WaitRaises(w, p)
  <2>1. p.state[w] \in {"expired", "cancelled"}
    BY <1>9 DEF WaitRaises
  <2>2. /\ PoolInv(Discard(p, w)) /\ Discard(p, w).state = p.state
        /\ NoIdleSlot(Discard(p, w))
    BY <1>2, <1>5, <2>1, DiscardInv, DiscardConserves
  <2>3. /\ Becomes(Discard(p, w))
        /\ owner' = [owner EXCEPT ![w] = "done"]
        /\ thread' = [thread EXCEPT ![w] = "done"]
    BY <1>9 DEF WaitRaises
  <2>4. ClientType' /\ state' = p.state
    BY <1>1, <1>4, <1>6, <2>2, <2>3 DEF ClientType, Becomes
  <2>5. NoLostWakeup'
    BY <1>1, <1>7, <2>3, <2>4 DEF NoLostWakeup, Asleep, ClientType
  <2>6. ASSUME NEW u \in Waiter
        PROVE  Moves(u)
    <3>1. CASE u # w
      <4>1. owner'[u] = owner[u]
        BY <1>1, <2>3, <3>1 DEF ClientType
      <4>. QED
        BY <1>5, <2>4, <4>1 DEF Moves
    <3>2. CASE u = w
      <4>1. owner'[w] = "done" /\ owner[w] \in {"idle", "awaiting", "done"}
        BY <1>1, <2>3 DEF ClientType
      <4>2. owner[w] # "idle"
        BY <1>5, <2>1 DEF Safe, Inv, ClientStates
      <4>. QED
        BY <1>5, <2>1, <2>4, <3>2, <4>1, <4>2 DEF Moves
    <3>. QED
      BY <3>1, <3>2
  <2>. QED
    BY <2>2, <2>3, <2>4, <2>5, <2>6, StepKeepsSafe
<1>. QED
  BY <1>4, <1>8, <1>9

\* A critical section that takes a waiter out of the pool for its client, then
\* admits and notifies: how release and abandon end.
LEMMA LeaveSafe ==
  ASSUME Safe, NEW w \in Waiter, NEW now \in Nat, NEW s \in {"completed", "cancelled"},
         state[w] \in {"queued", "running"}, owner[w] = "awaiting",
         NEW q, PoolInv(q), q.state = [state EXCEPT ![w] = s],
         Becomes(Admit(Discard(q, w), now)), NotifyAll,
         owner' = [owner EXCEPT ![w] = "done"], thread' = thread, clock' = clock
  PROVE  Safe' /\ \A u \in Waiter : Moves(u)
<1> DEFINE p == Discard(q, w)
           r == Admit(p, now)
<1>1. ClientType /\ state \in [Waiter -> States]
  BY DEF Safe, Inv, PoolInv, PoolType, Pool
<1>2. PoolInv(p) /\ p.state = [state EXCEPT ![w] = s]
  <2>1. q.state[w] = s
    BY <1>1
  <2>. QED
    BY <2>1, DiscardInv
<1>3. Follows(p, r) /\ NoIdleSlot(r)
  <2> HIDE DEF p
  <2>. QED
    BY <1>2, AdmitFollows, AdmitConserves
<1> HIDE DEF p
<1>4. ClientType' /\ NoLostWakeup'
  BY <1>1 DEF ClientType, NotifyAll, Asleep, NoLostWakeup
<1>5. Becomes(r) /\ state' = r.state
  BY DEF Becomes, p
<1> HIDE DEF r
<1>6. ASSUME NEW u \in Waiter
      PROVE  Moves(u)
  <2>1. CASE u = w
    <3>1. owner'[w] = "done" /\ state'[w] = s
      BY <1>1, <1>2, <1>3, <1>5 DEF Follows, ClientType
    <3>. QED
      BY <2>1, <3>1 DEF Moves
  <2>2. CASE u # w
    <3>1. owner'[u] = owner[u] /\ p.state[u] = state[u]
      BY <1>1, <1>2, <2>2 DEF ClientType
    <3>. QED
      BY <1>3, <1>5, <3>1 DEF Follows, Moves
  <2>. QED
    BY <2>1, <2>2
<1>. QED
  BY <1>3, <1>4, <1>5, <1>6, StepKeepsSafe DEF Follows

\* abandon(): nothing to do, or the client's own waiter leaves.
LEMMA AbandonSafe ==
  ASSUME Safe, NEW w \in Waiter, NEW now \in 0..clock, Abandon(w, now)
  PROVE  Safe' /\ \A u \in Waiter : Moves(u)
<1> DEFINE v == waiters[IdOf[w]]
           gone == [Pool EXCEPT !.state[v] = "cancelled"]
           freed == IF state[v] = "running" THEN ReleaseRunning(gone, RuntimeOf[v])
                    ELSE gone
<1>1. now \in Nat /\ ClientType /\ PoolInv(Pool)
  BY DEF Safe, Inv, ClientType
<1>2. /\ owner[w] = "awaiting" /\ owner' = [owner EXCEPT ![w] = "done"]
      /\ thread' = thread /\ clock' = clock
      /\ \/ /\ v = None \/ (v # None /\ state[v] \notin {"queued", "running"})
            /\ UNCHANGED <<pool, notified>>
         \/ /\ v # None /\ state[v] \in {"queued", "running"}
            /\ Becomes(Admit(Discard(freed, v), now)) /\ NotifyAll
  BY DEF Abandon
<1>3. /\ waiters \in [Id -> Waiter \cup {None}] /\ IdOf[w] \in Id
      /\ state \in [Waiter -> States] /\ Pool.state = state
  BY <1>1, GovernorAssumption DEF PoolInv, PoolType, Pool
<1>4. CASE /\ v = None \/ (v # None /\ state[v] \notin {"queued", "running"})
           /\ UNCHANGED <<pool, notified>>
  <2>1. state[w] \notin {"queued", "running"}
    BY <1>1, <1>4, GovernorAssumption DEF PoolInv, PoolRegistry, Pool
  <2>2. /\ Pool' = Pool /\ state' = state /\ notified' = notified
        /\ WorkConserving' = WorkConserving
    BY <1>4 DEF pool, Pool, WorkConserving, StillQueued
  <2>3. ClientType'
    BY <1>1, <1>2, <2>2 DEF ClientType
  <2>4. \A u \in Waiter : Moves(u)
    BY <1>1, <1>2, <2>1, <2>2 DEF Moves, ClientType
  <2>5. NoLostWakeup'
    BY <1>2, <2>2 DEF Safe, NoLostWakeup, Asleep
  <2>6. ClientStates'
    BY <1>1, <2>3, <2>4, MovesKeepClients DEF Safe, Inv
  <2>. QED
    BY <1>1, <2>2, <2>3, <2>4, <2>5, <2>6 DEF Safe, Inv
<1>5. CASE /\ v # None /\ state[v] \in {"queued", "running"}
           /\ Becomes(Admit(Discard(freed, v), now)) /\ NotifyAll
  <2>1. v \in Waiter /\ IdOf[v] = IdOf[w]
    BY <1>1, <1>3, <1>5 DEF PoolInv, PoolRegistry, Pool
  <2>2. v = w
    BY <1>2, <1>5, <2>1 DEF Safe, Inv, ClientStates
  <2>3. PoolInv(freed) /\ freed.state = [state EXCEPT ![v] = "cancelled"]
    <3> HIDE DEF v
    <3>1. CASE state[v] = "queued"
      <4>1. PoolInv(gone) /\ gone.state = [state EXCEPT ![v] = "cancelled"]
        BY <1>1, <1>3, <2>1, <3>1, CancelQueuedInv DEF Pool
      <4>. QED
        BY <3>1, <4>1
    <3>2. CASE state[v] = "running"
      <4>1. /\ PoolInv(ReleaseRunning(gone, RuntimeOf[v]))
            /\ ReleaseRunning(gone, RuntimeOf[v]).state
                 = [Pool.state EXCEPT ![v] = "cancelled"]
        BY <1>1, <1>3, <2>1, <3>2, ReleaseRunningInv
      <4>. QED
        BY <1>3, <3>2, <4>1
    <3>. QED
      BY <1>5, <3>1, <3>2
  <2> HIDE DEF v, freed
  <2>. QED
    BY <1>1, <1>2, <1>5, <2>2, <2>3, LeaveSafe
<1>. QED
  BY <1>2, <1>4, <1>5

\* release().
LEMMA ReleaseSafe ==
  ASSUME Safe, NEW w \in Waiter, NEW now \in 0..clock, Release(w, now)
  PROVE  Safe' /\ \A u \in Waiter : Moves(u)
<1> DEFINE completed == [Pool EXCEPT !.state[w] = "completed"]
           returned == ReleaseRunning(completed, RuntimeOf[w])
<1>1. now \in Nat /\ PoolInv(Pool) /\ Pool.state = state
  BY DEF Safe, Inv, ClientType, Pool
<1>2. /\ state[w] = "running" /\ owner[w] = "awaiting"
      /\ Becomes(Admit(Discard(returned, w), now)) /\ NotifyAll
      /\ owner' = [owner EXCEPT ![w] = "done"]
      /\ thread' = thread /\ clock' = clock
  BY DEF Release
<1>3. PoolInv(returned) /\ returned.state = [state EXCEPT ![w] = "completed"]
  BY <1>1, <1>2, ReleaseRunningInv
<1> HIDE DEF returned
<1>. QED
  BY <1>1, <1>2, <1>3, LeaveSafe

\* submit when it refuses or rejects, and snapshot.
LEMMA RejectOrSnapshotSafe ==
  ASSUME Safe, NEW now \in 0..clock,
         \/ \E w \in Waiter, timeout \in Timeouts :
              SubmitRefused(w, timeout) \/ SubmitRejected(w, timeout, now)
         \/ Snapshot(now)
  PROVE  Safe' /\ \A u \in Waiter : Moves(u)
<1> DEFINE p == BeforeSubmit(now)
<1>1. now \in Nat /\ PoolInv(Pool) /\ NoIdleSlot(Pool) /\ ClientType
      /\ Pool.state = state
  BY ConservingPool DEF Safe, Inv, ClientType, Pool
<1>2. Follows(Pool, p) /\ NoIdleSlot(p)
  BY <1>1, ExpireThenAdmitFollows DEF BeforeSubmit
<1>3. NobodyLapsed(Pool, now) => p.state = state
  BY <1>1, QuietPool DEF BeforeSubmit
<1> HIDE DEF p
<1>4. ASSUME owner' = owner \/ \E w \in Waiter : owner[w] = "idle" /\ owner' = [owner EXCEPT ![w] = "done"],
             state' = state \/ state' = p.state,
             NEW u \in Waiter
      PROVE  Moves(u)
  <2>1. \/ state'[u] = state[u]
        \/ state[u] = "queued" /\ state'[u] \in {"running", "expired"}
    BY <1>1, <1>2, <1>4 DEF Follows
  <2>2. CASE owner' = owner
    BY <2>1, <2>2 DEF Moves
  <2>3. CASE \E w \in Waiter : owner[w] = "idle" /\ owner' = [owner EXCEPT ![w] = "done"]
    <3>1. PICK w \in Waiter : owner[w] = "idle" /\ owner' = [owner EXCEPT ![w] = "done"]
      BY <2>3
    <3>2. state[w] = "new"
      BY <3>1 DEF Safe, Inv, ClientStates
    <3>. QED
      BY <1>1, <2>1, <3>1, <3>2 DEF Moves, ClientType
  <2>. QED
    BY <1>4, <2>2, <2>3
<1>5. ASSUME NEW w \in Waiter, NEW timeout \in Timeouts, SubmitRefused(w, timeout)
      PROVE  Safe' /\ \A u \in Waiter : Moves(u)
  <2>1. /\ owner[w] = "idle" /\ owner' = [owner EXCEPT ![w] = "done"]
        /\ thread' = thread /\ notified' = notified /\ clock' = clock
        /\ Pool' = Pool /\ state' = state /\ WorkConserving' = WorkConserving
    BY <1>5 DEF SubmitRefused, MaySubmit, pool, Pool, WorkConserving, StillQueued
  <2>2. \A u \in Waiter : Moves(u)
    BY <1>4, <2>1
  <2>3. ClientType' /\ NoLostWakeup'
    BY <1>1, <2>1 DEF Safe, ClientType, NoLostWakeup, Asleep
  <2>4. ClientStates'
    BY <1>1, <2>2, <2>3, MovesKeepClients DEF Safe, Inv
  <2>. QED
    BY <1>1, <2>1, <2>2, <2>3, <2>4 DEF Safe, Inv
<1>6. ASSUME Becomes(p), NotifyExpired(Pool, now), thread' = thread, clock' = clock,
             owner' = owner \/ \E w \in Waiter : owner[w] = "idle" /\ owner' = [owner EXCEPT ![w] = "done"]
      PROVE  Safe' /\ \A u \in Waiter : Moves(u)
  <2>1. state' = p.state
    BY <1>6 DEF Becomes
  <2>2. \A u \in Waiter : Moves(u)
    BY <1>4, <1>6, <2>1
  <2>3. ClientType'
    BY <1>1, <1>6 DEF ClientType, NotifyExpired, Asleep
  <2>4. ASSUME NEW u \in Asleep, p.state[u] # "queued"
        PROVE  u \in notified'
    <3>1. CASE NobodyLapsed(Pool, now)
      BY <1>3, <1>6, <2>4, <3>1 DEF Safe, NoLostWakeup, NotifyExpired
    <3>2. CASE ~NobodyLapsed(Pool, now)
      BY <1>6, <2>4, <3>2 DEF NobodyLapsed, NotifyExpired
    <3>. QED
      BY <3>1, <3>2
  <2>5. NoLostWakeup'
    BY <1>6, <2>1, <2>4 DEF NoLostWakeup, Asleep
  <2>. QED
    BY <1>2, <1>6, <2>2, <2>3, <2>5, StepKeepsSafe DEF Follows
<1>7. ASSUME NEW w \in Waiter, NEW timeout \in Timeouts, SubmitRejected(w, timeout, now)
      PROVE  Safe' /\ \A u \in Waiter : Moves(u)
  BY <1>6, <1>7 DEF SubmitRejected, MaySubmit, p
<1>8. ASSUME Snapshot(now)
      PROVE  Safe' /\ \A u \in Waiter : Moves(u)
  BY <1>6, <1>8 DEF Snapshot, BeforeSubmit, p
<1>. QED
  BY <1>5, <1>7, <1>8

-----------------------------------------------------------------------------
(* The theorems.                                                            *)

\* No step of any caller, thread or clock leaves the inductive invariant, and
\* every waiter and client moves as it may.
LEMMA NextSafe ==
  ASSUME IdsKeepRuntime, Safe, [Next]_vars
  PROVE  Safe' /\ \A u \in Waiter : Moves(u)
<1>1. CASE UNCHANGED vars \/ Tick
  <2>1. /\ Pool' = Pool /\ state' = state /\ owner' = owner /\ thread' = thread
        /\ notified' = notified /\ WorkConserving' = WorkConserving
        /\ clock' = clock \/ clock' = clock + 1
    BY <1>1 DEF vars, Tick, pool, Pool, WorkConserving, StillQueued
  <2>2. ClientType' /\ ClientStates' /\ NoLostWakeup'
    BY <2>1 DEF Safe, Inv, ClientType, ClientStates, NoLostWakeup, Asleep
  <2>3. PoolInv(Pool)'
    BY <2>1 DEF Safe, Inv
  <2>. QED
    BY <2>1, <2>2, <2>3 DEF Safe, Inv, Moves
<1>2. ASSUME NEW w \in Waiter, NEW timeout \in Timeouts, NEW now \in 0..clock,
             SubmitRefused(w, timeout) \/ SubmitRejected(w, timeout, now)
               \/ Submit(w, timeout, now)
      PROVE  Safe' /\ \A u \in Waiter : Moves(u)
  BY <1>2, SubmitSafe, RejectOrSnapshotSafe
<1>3. ASSUME NEW w \in Waiter, Wait(w)
      PROVE  Safe' /\ \A u \in Waiter : Moves(u)
  BY <1>3, WaitSafe
<1>4. ASSUME NEW w \in Waiter, NEW now \in 0..clock, Abandon(w, now) \/ Release(w, now)
      PROVE  Safe' /\ \A u \in Waiter : Moves(u)
  BY <1>4, AbandonSafe, ReleaseSafe
<1>5. ASSUME NEW now \in 0..clock, Snapshot(now)
      PROVE  Safe' /\ \A u \in Waiter : Moves(u)
  BY <1>5, RejectOrSnapshotSafe
<1>. QED
  BY <1>1, <1>2, <1>3, <1>4, <1>5 DEF Next

\* The inductive invariant and what it needs beside it hold in every state.
LEMMA SafeHolds ==
  ASSUME IdsKeepRuntime
  PROVE  Spec => []Safe
<1>1. Init => Safe
  BY InitSafe
<1>2. Safe /\ [Next]_vars => Safe'
  BY NextSafe
<1>. QED
  BY <1>1, <1>2, PTL DEF Spec

\* The counters, the registry, the queues and the clients agree in every state the
\* governor reaches, when the callers use an id for one runtime only, as uuids are.
THEOREM InvariantHolds ==
  ASSUME IdsKeepRuntime
  PROVE  Spec => []Inv
<1>1. Safe => Inv
  BY DEF Safe
<1>. QED
  BY <1>1, SafeHolds, PTL

\* Every variable keeps the type the source declares for it.
THEOREM TypeCorrect ==
  ASSUME IdsKeepRuntime
  PROVE  Spec => []TypeOK
<1>1. Safe => TypeOK
  BY DEF Safe, Inv, PoolInv, PoolType, ClientType, TypeOK, Pool
<1>. QED
  BY <1>1, SafeHolds, PTL

\* _inflight and _runtime_inflight count the waiters that hold a slot: none is
\* leaked and none is returned twice.
THEOREM SlotsAreAccounted ==
  ASSUME IdsKeepRuntime
  PROVE  Spec => []SlotAccounting
<1>1. Safe => SlotAccounting
  BY DEF Safe, Inv, PoolInv, PoolCounts, Holding, HoldingOn, Pool,
         SlotAccounting, Running, RunningOn
<1>. QED
  BY <1>1, SafeHolds, PTL

\* At most max_running executions hold a slot at any time.
THEOREM LimitHolds ==
  ASSUME IdsKeepRuntime
  PROVE  Spec => []WithinLimit
<1>1. Safe => WithinLimit
  BY DEF Safe, Inv, PoolInv, PoolCounts, Holding, Pool, WithinLimit, Running
<1>. QED
  BY <1>1, SafeHolds, PTL

\* No runtime is given more slots than the runtime_max_running of one of the
\* executions that hold them.
THEOREM CapsHold ==
  ASSUME IdsKeepRuntime
  PROVE  Spec => []WithinCaps
<1>1. Safe => WithinCaps
  BY DEF Safe, Inv, PoolInv, PoolCounts, Holding, HoldingOn, Pool,
         WithinCaps, Running, RunningOn
<1>. QED
  BY <1>1, SafeHolds, PTL

\* No slot is idle beside a waiter that could use it, whatever the callers have
\* released, abandoned or let expire.
THEOREM SlotsAreUsed ==
  ASSUME IdsKeepRuntime
  PROVE  Spec => []WorkConserving
<1>1. Safe => WorkConserving
  BY DEF Safe
<1>. QED
  BY <1>1, SafeHolds, PTL

\* A thread never sleeps on in wait() after its waiter has left the queue without
\* a notification under way, although submit, wait and snapshot notify of expired
\* waiters only: without them there is nobody to admit.
THEOREM NoWakeupIsLost ==
  ASSUME IdsKeepRuntime
  PROVE  Spec => []NoLostWakeup
<1>1. Safe => NoLostWakeup
  BY DEF Safe
<1>. QED
  BY <1>1, SafeHolds, PTL

\* A waiter that left the pool stays out of it, a slot is given only from the
\* queue, and only its own client gives up a running waiter's slot.
THEOREM MovesAreLegal ==
  ASSUME IdsKeepRuntime
  PROVE  Spec => LegalMoves
<1>1. ASSUME Safe, \A u \in Waiter : Moves(u), NEW w \in Waiter
      PROVE  /\ state[w] \in {"completed", "cancelled", "expired"} => state'[w] = state[w]
             /\ state[w] # "running" /\ state'[w] = "running" =>
                  state[w] = "queued" \/ owner'[w] # owner[w]
             /\ state[w] = "running" /\ state'[w] # "running" =>
                  owner[w] = "awaiting" /\ owner'[w] = "done"
  BY <1>1 DEF Safe, Inv, ClientStates, Moves
<1> DEFINE A == \A w \in Waiter :
                 /\ state[w] \in {"completed", "cancelled", "expired"} => state'[w] = state[w]
                 /\ state[w] # "running" /\ state'[w] = "running" =>
                      state[w] = "queued" \/ owner'[w] # owner[w]
                 /\ state[w] = "running" /\ state'[w] # "running" =>
                      owner[w] = "awaiting" /\ owner'[w] = "done"
<1>2. Safe /\ [Next]_vars => [A]_vars
  <2>1. ASSUME Safe, [Next]_vars
        PROVE  A
    BY <1>1, <2>1, NextSafe
  <2>. QED
    BY <2>1
<1>. QED
  BY <1>2, SafeHolds, PTL DEF Spec, LegalMoves

-----------------------------------------------------------------------------
(* The line of a runtime.                                                    *)

\* Wherever a member of S stands in the line, w stands before it.
Ahead(l, w, S) == \A i \in 1..Len(l) : l[i] \in S => \E j \in 1..(i - 1) : l[j] = w

\* Who is ahead of some in a selection was ahead of them before it, and remains so if
\* he is selected.
LEMMA AheadInSelection ==
  ASSUME NEW X, NEW s \in Seq(X), NEW A, NEW S, S \subseteq A, NEW w
  PROVE  /\ Ahead(Only(s, A), w, S) => Ahead(s, w, S)
         /\ w \in A /\ Ahead(s, w, S) => Ahead(Only(s, A), w, S)
<1> DEFINE o == Only(s, A)
<1>1. PICK f : SelectedAt(f, o, s, A)
  BY OnlyPlaces
<1>2. o \in Seq(X)
  BY OnlyType
<1> HIDE DEF o
<1>3. /\ f \in [1..Len(o) -> 1..Len(s)] /\ Len(o) \in Nat /\ Len(s) \in Nat
      /\ \A i, j \in 1..Len(o) : i < j => f[i] < f[j]
      /\ \A i \in 1..Len(o) : o[i] = s[f[i]] /\ o[i] \in A
      /\ \A k \in 1..Len(s) : s[k] \in A => \E i \in 1..Len(o) : f[i] = k
  BY <1>1, <1>2 DEF SelectedAt
<1>4. ASSUME Ahead(o, w, S), NEW k \in 1..Len(s), s[k] \in S
      PROVE  \E j \in 1..(k - 1) : s[j] = w
  <2>1. PICK i \in 1..Len(o) : f[i] = k
    BY <1>3, <1>4
  <2>2. PICK j \in 1..(i - 1) : o[j] = w
    BY <1>3, <1>4, <2>1 DEF Ahead
  <2>3. j \in 1..Len(o) /\ j < i
    BY <1>3, <2>1, <2>2
  <2>4. f[j] \in 1..Len(s) /\ f[j] < k /\ s[f[j]] = w
    BY <1>3, <2>1, <2>2, <2>3
  <2>. QED
    BY <1>3, <2>4
<1>5. ASSUME w \in A, Ahead(s, w, S), NEW i \in 1..Len(o), o[i] \in S
      PROVE  \E j \in 1..(i - 1) : o[j] = w
  <2>1. f[i] \in 1..Len(s) /\ s[f[i]] \in S
    BY <1>3, <1>5
  <2>2. PICK k \in 1..(f[i] - 1) : s[k] = w
    BY <1>5, <2>1 DEF Ahead
  <2>3. k \in 1..Len(s) /\ k < f[i]
    BY <1>3, <2>1, <2>2
  <2>4. PICK j \in 1..Len(o) : f[j] = k
    BY <1>3, <1>5, <2>2, <2>3
  <2>5. j < i
    <3>1. ~(i < j) /\ i # j
      BY <1>3, <2>3, <2>4
    <3>. QED
      BY <1>3, <3>1
  <2>. QED
    BY <1>3, <2>2, <2>4, <2>5
<1>. QED
  BY <1>4, <1>5 DEF Ahead, o

\* The entries of a queue are waiters or stale.
LEMMA EntriesType ==
  ASSUME NEW p \in PoolType, NEW rt \in Runtime
  PROVE  /\ Entries(p, rt) \in Seq(Waiter \cup {None})
         /\ Len(Entries(p, rt)) = Len(p.queues[rt])
         /\ Line(p, rt) \in Seq(Waiter \cup {None})
         /\ \A i \in 1..Len(Line(p, rt)) : Line(p, rt)[i] \in Queued(p)
<1>1. p.queues[rt] \in Seq(Id) /\ Len(p.queues[rt]) \in Nat
      /\ p.waiters \in [Id -> Waiter \cup {None}]
  BY DEF PoolType
<1>2. \A i \in 1..Len(p.queues[rt]) : p.waiters[p.queues[rt][i]] \in Waiter \cup {None}
  <2>1. \A i \in 1..Len(p.queues[rt]) : p.queues[rt][i] \in Id
    BY <1>1
  <2>. QED
    BY <1>1, <2>1
<1>3. Entries(p, rt) \in Seq(Waiter \cup {None}) /\ Len(Entries(p, rt)) = Len(p.queues[rt])
  BY <1>1, <1>2 DEF Entries
<1>. QED
  BY <1>3, OnlyElements DEF Line

\* Nobody uses the id of another, so an entry leads to the waiter it was made for.
IdsUnique == \A v, w \in Waiter : IdOf[v] = IdOf[w] => v = w

\* Whoever has an entry in a queue has called submit.
Entered(p) ==
  \A rt \in Runtime : \A i \in 1..Len(p.queues[rt]) : \A w \in Waiter :
    IdOf[w] = p.queues[rt][i] => p.state[w] # "new"

\* Waiters leave the lines, and whoever gets a slot has been ahead of all of his
\* runtime who go on waiting.
Advances(p, r) ==
  /\ Queued(r) \subseteq Queued(p)
  /\ \A rt \in Runtime : Line(r, rt) = Only(Line(p, rt), Queued(r))
  /\ \A w \in Holding(r) \ Holding(p) : Ahead(Line(p, RuntimeOf[w]), w, Queued(r))
  /\ Entered(p) => Entered(r)

\* A pool advances to itself.
LEMMA AdvancesItself ==
  ASSUME NEW p \in PoolType
  PROVE  Advances(p, p)
<1>1. ASSUME NEW rt \in Runtime
      PROVE  Line(p, rt) = Only(Line(p, rt), Queued(p))
  <2>1. Only(Only(Entries(p, rt), Queued(p)), Queued(p))
          = Only(Entries(p, rt), Queued(p) \cap Queued(p))
    BY EntriesType, OnlyOnly
  <2>2. Queued(p) \cap Queued(p) = Queued(p)
    OBVIOUS
  <2>. QED
    BY <2>1, <2>2 DEF Line
<1>. QED
  BY <1>1 DEF Advances

\* Advances compose.
LEMMA AdvancesOn ==
  ASSUME NEW p \in PoolType, NEW q \in PoolType, NEW r, Advances(p, q), Advances(q, r),
         \A w \in Waiter : RuntimeOf[w] \in Runtime
  PROVE  Advances(p, r)
<1>1. Queued(r) \subseteq Queued(q) /\ Queued(q) \subseteq Queued(p)
  BY DEF Advances
<1>2. Queued(q) \cap Queued(r) = Queued(r)
  BY <1>1
<1>3. ASSUME NEW rt \in Runtime
      PROVE  Line(r, rt) = Only(Line(p, rt), Queued(r))
  <2>1. Line(q, rt) = Only(Line(p, rt), Queued(q)) /\ Line(r, rt) = Only(Line(q, rt), Queued(r))
    BY DEF Advances
  <2>2. Only(Only(Line(p, rt), Queued(q)), Queued(r))
          = Only(Line(p, rt), Queued(q) \cap Queued(r))
    BY EntriesType, OnlyOnly
  <2>. QED
    BY <1>2, <2>1, <2>2
<1>4. ASSUME NEW w \in Holding(r) \ Holding(p)
      PROVE  Ahead(Line(p, RuntimeOf[w]), w, Queued(r))
  <2>1. w \in Waiter /\ RuntimeOf[w] \in Runtime
    BY DEF Holding
  <2>2. CASE w \in Holding(q)
    <3>1. Ahead(Line(p, RuntimeOf[w]), w, Queued(q))
      BY <1>4, <2>2 DEF Advances
    <3>. QED
      BY <1>1, <3>1 DEF Ahead
  <2>3. CASE w \notin Holding(q)
    <3>1. /\ Ahead(Line(q, RuntimeOf[w]), w, Queued(r))
          /\ Line(q, RuntimeOf[w]) = Only(Line(p, RuntimeOf[w]), Queued(q))
      BY <1>4, <2>1, <2>3 DEF Advances
    <3>. QED
      BY <1>1, <2>1, <3>1, EntriesType, AheadInSelection
  <2>. QED
    BY <2>2, <2>3
<1>. QED
  BY <1>1, <1>3, <1>4 DEF Advances

\* What drops from each queue a prefix in which nobody goes on waiting.
LEMMA DropsPrefix ==
  ASSUME NEW p \in PoolType, NEW r, r.waiters = p.waiters, Queued(r) \subseteq Queued(p),
         NEW rt \in Runtime, NEW m \in 0..Len(p.queues[rt]),
         r.queues[rt] = SubSeq(p.queues[rt], m + 1, Len(p.queues[rt])),
         \A i \in 1..m : Entries(p, rt)[i] \notin Queued(r)
  PROVE  Line(r, rt) = Only(Line(p, rt), Queued(r))
<1> DEFINE e == Entries(p, rt)
           q == p.queues[rt]
<1>1. e \in Seq(Waiter \cup {None}) /\ Len(e) = Len(q)
  BY EntriesType
<1>2. q \in Seq(Id) /\ Len(q) \in Nat /\ \A i \in 1..Len(q) : e[i] = p.waiters[q[i]]
  BY DEF PoolType, Entries
<1>3. Entries(r, rt) = SubSeq(e, m + 1, Len(e))
  <2>1. /\ r.queues[rt] \in Seq(Id) /\ Len(r.queues[rt]) = Len(q) - m
        /\ \A i \in 1..(Len(q) - m) : r.queues[rt][i] = q[m + i]
    BY <1>2, Suffix
  <2>2. /\ SubSeq(e, m + 1, Len(e)) \in Seq(Waiter \cup {None})
        /\ Len(SubSeq(e, m + 1, Len(e))) = Len(q) - m
        /\ \A i \in 1..(Len(q) - m) : SubSeq(e, m + 1, Len(e))[i] = e[m + i]
    <3> HIDE DEF e
    <3>. QED
      BY <1>1, Suffix
  <2> DEFINE t == SubSeq(e, m + 1, Len(e))
             u == r.queues[rt]
  <2>3. Entries(r, rt) = [i \in 1..Len(u) |-> p.waiters[u[i]]]
    BY DEF Entries
  <2> HIDE DEF e, q, t, u
  <2>4. \A i \in 1..(Len(q) - m) : m + i \in 1..Len(q)
    BY <1>2
  <2>5. \A i \in 1..Len(u) : p.waiters[u[i]] = t[i]
    BY <1>2, <2>1, <2>2, <2>4 DEF u, t
  <2>6. t = [i \in 1..Len(u) |-> t[i]]
    <3>1. t \in Seq(Waiter \cup {None}) /\ Len(t) = Len(u)
      BY <2>1, <2>2 DEF t, u
    <3>2. t = [i \in 1..Len(t) |-> t[i]]
      BY <3>1
    <3>. QED
      BY <3>1, <3>2
  <2>. QED
    BY <2>3, <2>5, <2>6 DEF t
<1>4. Only(Entries(r, rt), Queued(r)) = Only(e, Queued(r))
  <2> HIDE DEF e
  <2>. QED
    BY <1>1, <1>3, OnlySuffix DEF e
<1>5. Only(Only(e, Queued(p)), Queued(r)) = Only(e, Queued(p) \cap Queued(r))
  <2> HIDE DEF e
  <2>. QED
    BY <1>1, OnlyOnly
<1>6. Queued(p) \cap Queued(r) = Queued(r)
  OBVIOUS
<1>. QED
  BY <1>4, <1>5, <1>6 DEF Line

\* The queue of rt loses a prefix in which nobody goes on waiting.
LosesPrefix(p, r, rt) ==
  \E m \in 0..Len(p.queues[rt]) :
    /\ r.queues[rt] = SubSeq(p.queues[rt], m + 1, Len(p.queues[rt]))
    /\ \A i \in 1..m : Entries(p, rt)[i] \notin Queued(r)

\* A critical section that does not more than that to the queues advances the lines.
LEMMA LosingAdvances ==
  ASSUME NEW p, PoolInv(p), NEW r, Follows(p, r),
         \A rt \in Runtime : LosesPrefix(p, r, rt),
         \A w \in Holding(r) \ Holding(p) : Ahead(Line(p, RuntimeOf[w]), w, Queued(r))
  PROVE  Advances(p, r)
<1>1. p \in PoolType /\ r.waiters = p.waiters
      /\ \A w \in Waiter : \/ r.state[w] = p.state[w]
                           \/ p.state[w] = "queued" /\ r.state[w] \in {"running", "expired"}
  BY DEF PoolInv, Follows
<1>2. Queued(r) \subseteq Queued(p)
  BY <1>1 DEF Queued
<1>3. ASSUME NEW rt \in Runtime
      PROVE  /\ Line(r, rt) = Only(Line(p, rt), Queued(r))
             /\ \A i \in 1..Len(r.queues[rt]) :
                  \E j \in 1..Len(p.queues[rt]) : r.queues[rt][i] = p.queues[rt][j]
  <2>1. PICK m \in 0..Len(p.queues[rt]) :
          /\ r.queues[rt] = SubSeq(p.queues[rt], m + 1, Len(p.queues[rt]))
          /\ \A i \in 1..m : Entries(p, rt)[i] \notin Queued(r)
    BY DEF LosesPrefix
  <2>2. Line(r, rt) = Only(Line(p, rt), Queued(r))
    BY <1>1, <1>2, <2>1, DropsPrefix
  <2>3. p.queues[rt] \in Seq(Id)
    BY <1>1 DEF PoolType
  <2>4. /\ Len(r.queues[rt]) = Len(p.queues[rt]) - m
        /\ \A i \in 1..(Len(p.queues[rt]) - m) : r.queues[rt][i] = p.queues[rt][m + i]
    BY <2>1, <2>3, Suffix
  <2>5. \A i \in 1..Len(r.queues[rt]) : m + i \in 1..Len(p.queues[rt])
    BY <2>3, <2>4
  <2>. QED
    BY <2>2, <2>4, <2>5
<1>4. Entered(p) => Entered(r)
  <2> SUFFICES ASSUME Entered(p), NEW rt \in Runtime, NEW i \in 1..Len(r.queues[rt]),
                      NEW w \in Waiter, IdOf[w] = r.queues[rt][i]
               PROVE  r.state[w] # "new"
    BY DEF Entered
  <2>1. p.state[w] # "new"
    BY <1>3 DEF Entered
  <2>. QED
    BY <1>1, <2>1
<1>. QED
  BY <1>2, <1>3, <1>4 DEF Advances

\* A critical section that leaves the queues alone and admits nobody.
LEMMA KeepingAdvances ==
  ASSUME NEW p, PoolInv(p), NEW r, Follows(p, r), r.queues = p.queues,
         Holding(r) \subseteq Holding(p)
  PROVE  Advances(p, r)
<1>1. ASSUME NEW rt \in Runtime
      PROVE  LosesPrefix(p, r, rt)
  <2>1. p.queues[rt] \in Seq(Id) /\ Len(p.queues[rt]) \in Nat
    BY DEF PoolInv, PoolType
  <2>2. SubSeq(p.queues[rt], 0 + 1, Len(p.queues[rt])) = p.queues[rt]
    BY <2>1
  <2>3. 0 \in 0..Len(p.queues[rt]) /\ 1..0 = {}
    BY <2>1
  <2>. QED
    BY <2>2, <2>3 DEF LosesPrefix
<1>. QED
  BY <1>1, LosingAdvances

\* Expiry takes waiters out of the lines and gives nobody a slot.
LEMMA ExpireAdvances ==
  ASSUME NEW p, PoolInv(p), NEW now \in Nat
  PROVE  Advances(p, ExpireQueued(p, now))
<1> DEFINE r == ExpireQueued(p, now)
<1>1. Follows(p, r)
  BY ExpireQueuedFollows
<1>2. /\ r.queues = p.queues
      /\ r.state = [w \in Waiter |-> IF w \in Queued(p) /\ Lapsed(p, w, now)
                                     THEN "expired" ELSE p.state[w]]
  BY DEF ExpireQueued, PoolInv, PoolType
<1> HIDE DEF r
<1>3. Holding(r) \subseteq Holding(p)
  BY <1>2 DEF Holding
<1>. QED
  BY <1>1, <1>2, <1>3, KeepingAdvances DEF r

\* A round of _admit_available_locked takes the waiter it admits from the head of
\* what it leaves of the queue.
LEMMA AdmitOneAdvances ==
  ASSUME NEW p, PoolInv(p), NEW now \in Nat
  PROVE  Advances(p, AdmitOne(p, now))
<1> DEFINE ready == {i \in 1..Len(p.order) : Eligible(p, p.order[i], now)}
           last == IF ready = {} THEN Len(p.order)
                   ELSE CHOOSE i \in ready : \A j \in ready : i <= j
           chosen == IF ready = {} THEN {} ELSE {p.order[last]}
           scanned == {p.order[i] : i \in 1..last}
           admitted == {Selected(p, rt, now) : rt \in chosen}
           lapsed == UNION {LapsedInQueue(p, rt, now) : rt \in scanned}
           left == [rt \in Runtime |->
                     IF rt \in chosen THEN Tail(NextQueued(p, rt, now))
                     ELSE IF rt \in scanned THEN NextQueued(p, rt, now)
                     ELSE p.queues[rt]]
           r == AdmitOne(p, now)
<1>1. p \in PoolType /\ PoolRegistry(p) /\ Follows(p, r)
  BY AdmitOneFollows DEF PoolInv
<1>2. CASE ~SlotFree(p) \/ p.order = << >>
  <2>1. r = p
    BY <1>2 DEF AdmitOne
  <2>. QED
    BY <1>1, <2>1, AdvancesItself
<1>3. CASE SlotFree(p) /\ p.order # << >>
  <2>1. /\ r.waiters = p.waiters /\ r.queues = left
        /\ r.state = [w \in Waiter |-> IF w \in admitted THEN "running"
                                       ELSE IF w \in lapsed THEN "expired"
                                       ELSE p.state[w]]
    BY <1>1, <1>3 DEF AdmitOne, PoolType
  <2>2. /\ chosen \subseteq scanned /\ scanned \subseteq Runtime
        /\ \A rt \in chosen : Eligible(p, rt, now)
    <3>1. p.order \in Seq(Runtime) /\ Len(p.order) \in Nat
      BY <1>1 DEF PoolType
    <3>2. CASE ready = {}
      BY <3>1, <3>2
    <3>3. CASE ready # {}
      <4>1. ready \in SUBSET Nat
        BY <3>1
      <4>2. \E i \in ready : \A j \in ready : i <= j
        <5> HIDE DEF ready
        <5>. QED
          BY <3>3, <4>1, LeastNatural
      <4>3. last \in ready
        <5> HIDE DEF ready
        <5>. QED
          BY <3>3, <4>2
      <4>4. last \in 1..Len(p.order) /\ Eligible(p, p.order[last], now)
        BY <4>3
      <4>5. chosen = {p.order[last]}
        BY <3>3
      <4> HIDE DEF ready, last, chosen
      <4>. QED
        BY <3>1, <4>4, <4>5
    <3>. QED
      BY <3>2, <3>3
  <2>3. ASSUME NEW rt \in chosen
        PROVE  /\ NextQueued(p, rt, now) # << >> /\ rt \in Runtime
               /\ Selected(p, rt, now) \in Queued(p) /\ RuntimeOf[Selected(p, rt, now)] = rt
    <3> HIDE DEF chosen
    <3>1. NextQueued(p, rt, now) # << >> /\ rt \in Runtime
      BY <2>2 DEF Eligible
    <3>2. /\ Selected(p, rt, now) \in Waiter /\ p.state[Selected(p, rt, now)] = "queued"
          /\ RuntimeOf[Selected(p, rt, now)] = rt
      BY <3>1, SelectedWaiter
    <3>. QED
      BY <1>1, <3>1, <3>2 DEF Queued, PoolRegistry
  <2> HIDE DEF chosen, r
  \* What is dropped from the queue of a runtime that has been looked at.
  <2>4. ASSUME NEW rt \in scanned, NEW i \in 1..Skipped(p, rt, now)
        PROVE  Entries(p, rt)[i] \notin Queued(r)
    <3> DEFINE q == p.queues[rt]
    <3>1. rt \in Runtime /\ q \in Seq(Id) /\ Skipped(p, rt, now) \in 0..Len(q)
      BY <1>1, <2>2, SkippedPrefix DEF PoolType
    <3>2. i \in 1..Len(q)
      BY <3>1
    <3>3. Entries(p, rt)[i] = p.waiters[q[i]]
      BY <3>2 DEF Entries
    <3> HIDE DEF scanned
    <3> SUFFICES ASSUME NEW w \in Queued(r), p.waiters[q[i]] = w
                 PROVE  FALSE
      BY <3>3
    <3>4. w \in Waiter /\ r.state[w] = "queued"
      BY DEF Queued
    <3>5. p.state[w] = "queued"
      BY <1>1, <3>4 DEF Follows
    <3>6. w \in LapsedInQueue(p, rt, now)
      BY <3>4, <3>5 DEF LapsedInQueue
    <3>7. w \in lapsed
      BY <3>6
    <3> HIDE DEF admitted, lapsed
    <3>. QED
      BY <2>1, <3>4, <3>7
  <2>5. ASSUME NEW w \in admitted
        PROVE  w \notin Queued(r)
    <3> HIDE DEF admitted, lapsed
    <3>. QED
      BY <2>1 DEF Queued
  \* The place of the waiter that is admitted.
  <2>6. ASSUME NEW rt \in chosen
        PROVE  /\ Skipped(p, rt, now) + 1 \in 1..Len(p.queues[rt])
               /\ Entries(p, rt)[Skipped(p, rt, now) + 1] = Selected(p, rt, now)
               /\ Tail(NextQueued(p, rt, now))
                    = SubSeq(p.queues[rt], (Skipped(p, rt, now) + 1) + 1, Len(p.queues[rt]))
    <3> DEFINE q == p.queues[rt]
               k == Skipped(p, rt, now)
    <3>1. rt \in Runtime /\ q \in Seq(Id) /\ k \in 0..Len(q) /\ Len(q) \in Nat
      <4> HIDE DEF scanned, admitted, lapsed, left
      <4>1. rt \in Runtime
        BY <2>3
      <4>2. k \in 0..Len(q)
        BY <1>1, <4>1, SkippedPrefix
      <4>3. q \in Seq(Id)
        BY <1>1, <4>1 DEF PoolType
      <4>. QED
        BY <4>1, <4>2, <4>3
    <3>2. NextQueued(p, rt, now) = SubSeq(q, k + 1, Len(q)) /\ NextQueued(p, rt, now) # << >>
      BY <2>3 DEF NextQueued
    <3> DEFINE n == NextQueued(p, rt, now)
    <3> HIDE DEF q, k, n, scanned
    <3>3. n \in Seq(Id) /\ Len(n) = Len(q) - k /\ \A i \in 1..(Len(q) - k) : n[i] = q[k + i]
      BY <3>1, <3>2, Suffix DEF n
    <3>4. Len(n) > 0
      BY <3>2, <3>3 DEF n
    <3>5. k + 1 \in 1..Len(q) /\ Head(n) = q[k + 1]
      BY <3>1, <3>3, <3>4
    <3>6. Tail(n) = SubSeq(q, (k + 1) + 1, Len(q))
      <4> DEFINE t == SubSeq(q, (k + 1) + 1, Len(q))
      <4>1. t \in Seq(Id) /\ Len(t) = Len(q) - (k + 1)
            /\ \A i \in 1..(Len(q) - (k + 1)) : t[i] = q[(k + 1) + i]
        BY <3>1, <3>5, Suffix
      <4>2. /\ Tail(n) \in Seq(Id) /\ Len(Tail(n)) = Len(n) - 1
            /\ \A i \in 1..(Len(n) - 1) : Tail(n)[i] = n[i + 1]
        BY <3>3, <3>4
      <4>3. \A i \in 1..(Len(n) - 1) : n[i + 1] = q[(k + 1) + i]
        BY <3>1, <3>3, <3>4
      <4> DEFINE u == Tail(n)
      <4> HIDE DEF t, u
      <4>4. /\ u \in Seq(Id) /\ t \in Seq(Id) /\ Len(u) = Len(t)
            /\ \A i \in 1..Len(t) : u[i] = t[i]
        <5>1. Len(n) - 1 = Len(q) - (k + 1) /\ Len(q) - (k + 1) \in Nat
          BY <3>1, <3>3, <3>5
        <5>2. u \in Seq(Id) /\ Len(u) = Len(n) - 1 /\ \A i \in 1..(Len(n) - 1) : u[i] = n[i + 1]
          BY <4>2 DEF u
        <5>. QED
          BY <4>1, <4>3, <5>1, <5>2
      <4>5. u = t
        BY <4>4
      <4>. QED
        BY <4>5 DEF t, u
    <3>7. Entries(p, rt)[k + 1] = p.waiters[q[k + 1]]
      BY <3>5 DEF Entries, q
    <3>8. Selected(p, rt, now) = p.waiters[Head(n)]
      BY DEF Selected, n
    <3>. QED
      BY <3>5, <3>6, <3>7, <3>8 DEF q, k, n
  <2>7. ASSUME NEW rt \in Runtime
        PROVE  LosesPrefix(p, r, rt)
    <3> DEFINE q == p.queues[rt]
               k == Skipped(p, rt, now)
    <3>1. q \in Seq(Id) /\ Len(q) \in Nat /\ k \in 0..Len(q)
      <4> HIDE DEF scanned, admitted, lapsed, left
      <4>1. k \in 0..Len(q)
        BY <1>1, SkippedPrefix
      <4>2. q \in Seq(Id)
        BY <1>1 DEF PoolType
      <4>. QED
        BY <4>1, <4>2
    <3>2. r.queues[rt] = IF rt \in chosen THEN Tail(NextQueued(p, rt, now))
                         ELSE IF rt \in scanned THEN NextQueued(p, rt, now) ELSE q
      <4> HIDE DEF scanned
      <4>. QED
        BY <2>1
    <3>3. CASE rt \in chosen
      <4>1. rt \in scanned /\ Selected(p, rt, now) \in admitted
        BY <2>2, <3>3
      <4> HIDE DEF scanned, admitted
      <4>2. \A i \in 1..k : Entries(p, rt)[i] \notin Queued(r)
        BY <2>4, <4>1
      <4>3. k + 1 \in 0..Len(q) /\ r.queues[rt] = SubSeq(q, (k + 1) + 1, Len(q))
            /\ Entries(p, rt)[k + 1] \notin Queued(r)
        BY <2>5, <2>6, <3>1, <3>2, <3>3, <4>1
      <4>4. \A i \in 1..(k + 1) : i \in 1..k \/ i = k + 1
        BY <3>1
      <4> HIDE DEF k, q
      <4>5. \A i \in 1..(k + 1) : Entries(p, rt)[i] \notin Queued(r)
        BY <4>2, <4>3, <4>4
      <4>. QED
        BY <4>3, <4>5 DEF LosesPrefix, q
    <3>4. CASE rt \notin chosen /\ rt \in scanned
      <4> HIDE DEF scanned
      <4>1. r.queues[rt] = SubSeq(q, k + 1, Len(q))
        BY <3>2, <3>4 DEF NextQueued
      <4>2. \A i \in 1..k : Entries(p, rt)[i] \notin Queued(r)
        BY <2>4, <3>4
      <4>. QED
        BY <3>1, <4>1, <4>2 DEF LosesPrefix
    <3>5. CASE rt \notin chosen /\ rt \notin scanned
      <4> HIDE DEF scanned
      <4>1. r.queues[rt] = SubSeq(q, 0 + 1, Len(q))
        BY <3>1, <3>2, <3>5
      <4>2. 0 \in 0..Len(q) /\ 1..0 = {}
        BY <3>1
      <4>. QED
        BY <4>1, <4>2 DEF LosesPrefix
    <3>. QED
      BY <3>3, <3>4, <3>5
  <2>8. ASSUME NEW w \in Holding(r) \ Holding(p)
        PROVE  Ahead(Line(p, RuntimeOf[w]), w, Queued(r))
    <3>1. w \in Waiter /\ r.state[w] = "running" /\ p.state[w] # "running"
      BY <2>8 DEF Holding
    <3>2. w \in admitted
      <4> HIDE DEF admitted, lapsed
      <4>. QED
        BY <2>1, <3>1
    <3>3. PICK rt \in chosen : w = Selected(p, rt, now)
      BY <3>2
    <3>4. w \in Queued(p) /\ RuntimeOf[w] = rt /\ rt \in Runtime /\ rt \in scanned
      BY <2>2, <2>3, <3>3
    <3> DEFINE k == Skipped(p, rt, now)
               e == Entries(p, rt)
    <3> HIDE DEF admitted, lapsed, scanned, left, e
    <3>5. k \in 0..Len(p.queues[rt]) /\ e[k + 1] = w /\ \A i \in 1..k : e[i] \notin Queued(r)
      BY <1>1, <2>4, <2>6, <3>3, <3>4, SkippedPrefix DEF e
    <3>6. w \notin Queued(r)
      BY <2>5, <3>2
    <3>7. e \in Seq(Waiter \cup {None})
      BY <1>1, <3>4, EntriesType DEF e
    <3>8. Ahead(e, w, Queued(r))
      <4> SUFFICES ASSUME NEW i \in 1..Len(e), e[i] \in Queued(r)
                   PROVE  \E j \in 1..(i - 1) : e[j] = w
        BY DEF Ahead
      <4>1. i \notin 1..k /\ i # k + 1
        BY <3>5, <3>6
      <4>2. k + 1 \in 1..(i - 1)
        BY <3>5, <3>7, <4>1
      <4>. QED
        BY <3>5, <4>2
    <3>9. Queued(r) \subseteq Queued(p)
      BY <1>1 DEF Follows, Queued
    <3>10. Ahead(Only(e, Queued(p)), w, Queued(r))
      BY <3>4, <3>7, <3>8, <3>9, AheadInSelection
    <3>. QED
      BY <3>4, <3>10 DEF Line, e
  <2> HIDE DEF scanned, admitted, lapsed, left
  <2>. QED
    BY <1>1, <2>7, <2>8, LosingAdvances DEF r
<1>. QED
  BY <1>2, <1>3

\* Admission serves each runtime in the order of its queue.
LEMMA AdmitAdvances ==
  ASSUME NEW p, PoolInv(p), NEW now \in Nat, \A w \in Waiter : RuntimeOf[w] \in Runtime
  PROVE  Advances(p, Admit(p, now))
<1> DEFINE F == {r \in PoolType : Advances(p, r)}
           S == [n \in 0..MaxRunning |-> F]
<1>1. MaxRunning \in Nat /\ p \in PoolType
  BY GovernorAssumption DEF PoolInv
<1>2. p \in F
  BY <1>1, AdvancesItself
<1>3. ASSUME NEW r \in F, PoolInv(r)
      PROVE  AdmitOne(r, now) \in F
  <2>1. AdmitOne(r, now) \in PoolType
    BY <1>3, AdmitOneFollows DEF Follows, PoolInv
  <2>2. Advances(r, AdmitOne(r, now))
    BY <1>3, AdmitOneAdvances
  <2>. QED
    BY <1>1, <2>1, <2>2, AdvancesOn
<1> HIDE DEF F
<1>4. \A n \in 0..MaxRunning : S[n] = F
  OBVIOUS
<1>5. 0 \in 0..MaxRunning /\ MaxRunning \in 0..MaxRunning
      /\ \A n \in 1..MaxRunning : n \in 0..MaxRunning /\ n - 1 \in 0..MaxRunning
  BY <1>1
<1> HIDE DEF S
<1>6. Admit(p, now) \in S[MaxRunning]
  BY <1>2, <1>3, <1>4, <1>5, AdmitRounds
<1>. QED
  BY <1>4, <1>5, <1>6 DEF F

\* What every public method does before it answers: expire, then admit.
LEMMA ExpireThenAdmitAdvances ==
  ASSUME NEW p, PoolInv(p), NEW now \in Nat
  PROVE  Advances(p, Admit(ExpireQueued(p, now), now))
<1> DEFINE q == ExpireQueued(p, now)
<1>1. PoolInv(q) /\ Advances(p, q) /\ \A w \in Waiter : RuntimeOf[w] \in Runtime
  BY ExpireQueuedFollows, ExpireAdvances, GovernorAssumption DEF Follows
<1> HIDE DEF q
<1>2. Advances(q, Admit(q, now))
  BY <1>1, AdmitAdvances
<1>. QED
  BY <1>1, <1>2, AdvancesOn DEF PoolInv, q

-----------------------------------------------------------------------------
(* Steps of the governor as steps of the pool.                               *)

\* A waiter whose submission is registered joins the end of its runtime's line.
LEMMA RegisteredJoins ==
  ASSUME IdsUnique, NEW p, PoolInv(p), Entered(p), NEW w \in Waiter,
         NEW timeout \in Timeouts, NEW now \in Nat,
         p.state[w] = "new", p.waiters[IdOf[w]] = None
  PROVE  LET r == Registered(p, w, timeout, now)
         IN  /\ Queued(r) = Queued(p) \cup {w} /\ Holding(r) = Holding(p)
             /\ \A rt \in Runtime :
                  Line(r, rt) = IF rt = RuntimeOf[w] THEN Append(Line(p, rt), w)
                                ELSE Line(p, rt)
             /\ Entered(r)
<1> DEFINE r == Registered(p, w, timeout, now)
           id == IdOf[w]
<1>1. /\ p \in PoolType /\ PoolRegistry(p) /\ id \in Id /\ RuntimeOf[w] \in Runtime
      /\ p.waiters \in [Id -> Waiter \cup {None}] /\ p.state \in [Waiter -> States]
      /\ p.queues \in [Runtime -> Seq(Id)]
  BY GovernorAssumption DEF PoolInv, PoolType
<1>2. /\ r.waiters = [p.waiters EXCEPT ![id] = w]
      /\ r.state = [p.state EXCEPT ![w] = "queued"]
      /\ r.queues = [p.queues EXCEPT ![RuntimeOf[w]] = Append(p.queues[RuntimeOf[w]], id)]
  BY <1>1 DEF Registered, ScheduleRuntime, PoolType
<1> HIDE DEF r
<1>3. \A rt \in Runtime : \A i \in 1..Len(p.queues[rt]) :
        p.queues[rt][i] \in Id /\ p.queues[rt][i] # id
  <2>1. ASSUME NEW rt \in Runtime, NEW i \in 1..Len(p.queues[rt])
        PROVE  p.queues[rt][i] \in Id
    <3>1. p.queues[rt] \in Seq(Id)
      BY <1>1
    <3>. QED
      BY <3>1
  <2>. QED
    BY <2>1 DEF Entered
<1>4. \A x \in Id : p.waiters[x] # w
  BY <1>1, GovernorAssumption DEF PoolRegistry
<1>5. Queued(r) = Queued(p) \cup {w} /\ Holding(r) = Holding(p)
  <2>1. \A v \in Waiter : r.state[v] = IF v = w THEN "queued" ELSE p.state[v]
    BY <1>1, <1>2
  <2>2. \A v \in Waiter : r.waiters[IdOf[v]] = IF v = w THEN w ELSE p.waiters[IdOf[v]]
    BY <1>1, <1>2, GovernorAssumption DEF IdsUnique
  <2>3. ASSUME NEW v \in Waiter
        PROVE  /\ v \in Queued(r) <=> v \in Queued(p) \cup {w}
               /\ v \in Holding(r) <=> v \in Holding(p)
    BY <2>1, <2>2 DEF Queued, Holding
  <2>4. /\ Queued(r) \subseteq Waiter /\ Queued(p) \subseteq Waiter
        /\ Holding(r) \subseteq Waiter /\ Holding(p) \subseteq Waiter
    BY DEF Queued, Holding
  <2>5. \A v : v \in Queued(r) <=> v \in Queued(p) \cup {w}
    BY <2>3, <2>4
  <2>6. \A v : v \in Holding(r) <=> v \in Holding(p)
    BY <2>3, <2>4
  <2>. QED
    BY <2>5, <2>6
<1>6. ASSUME NEW rt \in Runtime
      PROVE  Only(Entries(p, rt), Queued(r)) = Line(p, rt)
  <2>1. \A i \in 1..Len(Entries(p, rt)) : Entries(p, rt)[i] # w
    <3>1. \A i \in 1..Len(p.queues[rt]) : Entries(p, rt)[i] = p.waiters[p.queues[rt][i]]
      BY DEF Entries
    <3>. QED
      BY <1>1, <1>3, <1>4, <3>1, EntriesType
  <2>2. \A i \in 1..Len(Entries(p, rt)) :
          Entries(p, rt)[i] \in Queued(r) <=> Entries(p, rt)[i] \in Queued(p)
    BY <1>5, <2>1
  <2>. QED
    BY <1>1, <2>2, EntriesType, OnlySame DEF Line
<1>7. ASSUME NEW rt \in Runtime, rt # RuntimeOf[w]
      PROVE  Line(r, rt) = Line(p, rt)
  <2>1. r.queues[rt] = p.queues[rt]
    BY <1>1, <1>2, <1>7
  <2>2. \A i \in 1..Len(p.queues[rt]) : r.waiters[p.queues[rt][i]] = p.waiters[p.queues[rt][i]]
    BY <1>1, <1>2, <1>3
  <2>3. Entries(r, rt) = Entries(p, rt)
    BY <2>1, <2>2 DEF Entries
  <2>. QED
    BY <1>6, <2>3 DEF Line
<1>8. Line(r, RuntimeOf[w]) = Append(Line(p, RuntimeOf[w]), w)
  <2> DEFINE rt == RuntimeOf[w]
             q == p.queues[rt]
             e == Entries(p, rt)
             u == r.queues[rt]
  <2>1. q \in Seq(Id) /\ Len(q) \in Nat /\ u = Append(q, id)
    BY <1>1, <1>2
  <2>2. /\ Len(u) = Len(q) + 1 /\ u[Len(q) + 1] = id
        /\ \A i \in 1..Len(q) : u[i] = q[i]
    BY <1>1, <2>1
  <2>3. e \in Seq(Waiter \cup {None}) /\ Len(e) = Len(q)
        /\ \A i \in 1..Len(q) : e[i] = p.waiters[q[i]]
    BY <1>1, EntriesType DEF Entries
  <2>4. \A i \in 1..Len(q) : r.waiters[u[i]] = e[i]
    BY <1>1, <1>2, <1>3, <2>2, <2>3
  <2>5. r.waiters[u[Len(q) + 1]] = w
    BY <1>1, <1>2, <2>2
  <2>6. Entries(r, rt) = [i \in 1..Len(u) |-> r.waiters[u[i]]]
    BY DEF Entries
  <2> HIDE DEF q, e, u
  <2>7. \A i \in 1..Len(u) : r.waiters[u[i]] = Append(e, w)[i]
    <3>1. ASSUME NEW i \in 1..Len(u)
          PROVE  r.waiters[u[i]] = Append(e, w)[i]
      <4>1. CASE i = Len(q) + 1
        BY <2>3, <2>5, <4>1
      <4>2. CASE i # Len(q) + 1
        <5>1. i \in 1..Len(q)
          BY <2>1, <2>2, <4>2
        <5>. QED
          BY <2>3, <2>4, <5>1
      <4>. QED
        BY <4>1, <4>2
    <3>. QED
      BY <3>1
  <2>8. Append(e, w) = [i \in 1..Len(u) |-> Append(e, w)[i]]
    <3> DEFINE a == Append(e, w)
    <3>1. a \in Seq(Waiter \cup {None}) /\ Len(a) = Len(u)
      BY <2>1, <2>2, <2>3
    <3> HIDE DEF a
    <3>2. a = [i \in 1..Len(u) |-> a[i]]
      BY <3>1
    <3>. QED
      BY <3>2 DEF a
  <2>9. Entries(r, rt) = Append(e, w)
    BY <2>6, <2>7, <2>8
  <2>10. Only(Append(e, w), Queued(r)) = Append(Only(e, Queued(r)), w)
    <3>1. w \in Queued(r) /\ w \in Waiter \cup {None}
      BY <1>5
    <3>. QED
      BY <2>3, <3>1, OnlyAppend
  <2>. QED
    BY <1>1, <1>6, <2>9, <2>10 DEF Line, e
<1>9. Entered(r)
  <2> SUFFICES ASSUME NEW rt \in Runtime, NEW i \in 1..Len(r.queues[rt]),
                      NEW v \in Waiter, IdOf[v] = r.queues[rt][i]
               PROVE  r.state[v] # "new"
    BY DEF Entered
  <2>1. \A x \in Waiter : r.state[x] = IF x = w THEN "queued" ELSE p.state[x]
    BY <1>1, <1>2
  <2>2. CASE i \in 1..Len(p.queues[rt]) /\ r.queues[rt][i] = p.queues[rt][i]
    BY <2>1, <2>2 DEF Entered
  <2>3. CASE r.queues[rt][i] = id
    BY <2>1, <2>3 DEF IdsUnique
  <2>4. \/ i \in 1..Len(p.queues[rt]) /\ r.queues[rt][i] = p.queues[rt][i]
        \/ r.queues[rt][i] = id
    <3>1. r.queues[rt] = p.queues[rt] \/ r.queues[rt] = Append(p.queues[rt], id)
      BY <1>1, <1>2
    <3>2. p.queues[rt] \in Seq(Id)
      BY <1>1
    <3>3. CASE r.queues[rt] = p.queues[rt]
      BY <3>3
    <3>4. CASE r.queues[rt] = Append(p.queues[rt], id)
      <4>1. Len(r.queues[rt]) = Len(p.queues[rt]) + 1 /\ Len(p.queues[rt]) \in Nat
        BY <1>1, <3>2, <3>4
      <4>2. CASE i = Len(p.queues[rt]) + 1
        BY <1>1, <3>2, <3>4, <4>2
      <4>3. CASE i # Len(p.queues[rt]) + 1
        <5>1. i \in 1..Len(p.queues[rt])
          BY <4>1, <4>3
        <5>. QED
          BY <1>1, <3>2, <3>4, <5>1
      <4>. QED
        BY <4>2, <4>3
    <3>. QED
      BY <3>1, <3>3, <3>4
  <2>. QED
    BY <2>2, <2>3, <2>4
<1>. QED
  BY <1>5, <1>7, <1>8, <1>9 DEF r

\* A waiter that is taken out of the pool leaves its place in the line.
LEMMA DiscardAdvances ==
  ASSUME NEW p, PoolInv(p), NEW q, NEW w \in Waiter,
         NEW s \in {"completed", "cancelled", "expired"},
         q.waiters = p.waiters, q.queues = p.queues, q \in PoolType,
         q.state = [p.state EXCEPT ![w] = s]
  PROVE  Advances(p, Discard(q, w))
<1> DEFINE r == Discard(q, w)
           id == IdOf[w]
<1>1. /\ p \in PoolType /\ id \in Id
      /\ p.waiters \in [Id -> Waiter \cup {None}] /\ p.state \in [Waiter -> States]
  BY GovernorAssumption DEF PoolInv, PoolType
<1>2. /\ r.state = q.state /\ r.queues = p.queues /\ r \in PoolType
      /\ \A x \in Id : r.waiters[x] = p.waiters[x] \/ (p.waiters[x] = w /\ r.waiters[x] = None)
  BY <1>1 DEF Discard, PoolType
<1> HIDE DEF r
<1>3. \A v \in Waiter : r.state[v] = IF v = w THEN s ELSE p.state[v]
  BY <1>1, <1>2
<1>4. Queued(r) \subseteq Queued(p) /\ w \notin Queued(r) /\ None \notin Queued(r)
      /\ Holding(r) \subseteq Holding(p)
  BY <1>2, <1>3, GovernorAssumption DEF Queued, Holding
<1>5. ASSUME NEW rt \in Runtime
      PROVE  Line(r, rt) = Only(Line(p, rt), Queued(r))
  <2> DEFINE e == Entries(p, rt)
             f == Entries(r, rt)
  <2>1. /\ e \in Seq(Waiter \cup {None}) /\ f \in Seq(Waiter \cup {None}) /\ Len(f) = Len(e)
    BY <1>1, <1>2, EntriesType
  <2>2. \A i \in 1..Len(e) : e[i] = f[i] \/ (e[i] \notin Queued(r) /\ f[i] \notin Queued(r))
    <3>1. /\ Len(e) = Len(p.queues[rt])
          /\ \A i \in 1..Len(p.queues[rt]) :
               e[i] = p.waiters[p.queues[rt][i]] /\ f[i] = r.waiters[p.queues[rt][i]]
      BY <1>1, <1>2, EntriesType DEF Entries
    <3>2. \A i \in 1..Len(p.queues[rt]) : p.queues[rt][i] \in Id
      <4>1. p.queues[rt] \in Seq(Id)
        BY <1>1 DEF PoolType
      <4>. QED
        BY <4>1
    <3> HIDE DEF e, f
    <3>. QED
      BY <1>2, <1>4, <3>1, <3>2
  <2> HIDE DEF e, f
  <2>3. Only(f, Queued(r)) = Only(e, Queued(r))
    BY <2>1, <2>2, OnlyAgree
  <2>4. Only(Only(e, Queued(p)), Queued(r)) = Only(e, Queued(p) \cap Queued(r))
    BY <2>1, OnlyOnly
  <2>5. Queued(p) \cap Queued(r) = Queued(r)
    BY <1>4
  <2>. QED
    BY <2>3, <2>4, <2>5 DEF Line, e, f
<1>6. Entered(p) => Entered(r)
  BY <1>2, <1>3 DEF Entered
<1>. QED
  BY <1>4, <1>5, <1>6 DEF Advances, r

\* From p to r the lines are served in order, and w may join one of them.
Serves(p, r, w) ==
  /\ \A rt \in Runtime :
       LET kept == Only(Line(p, rt), Queued(r))
       IN  Line(r, rt) = IF w \in Queued(r) \ Queued(p) /\ rt = RuntimeOf[w]
                         THEN Append(kept, w) ELSE kept
  /\ \A h \in Holding(r) \ Holding(p) : Ahead(Line(p, RuntimeOf[h]), h, Queued(r))
  /\ Entered(p) => Entered(r)

\* Where nobody joins, advancing is all there is to serve.
LEMMA AdvancingServes ==
  ASSUME NEW p, NEW r, Advances(p, r), NEW w
  PROVE  Serves(p, r, w)
BY DEF Advances, Serves

\* submit: the lines advance, w joins, and they advance again.
LEMMA JoiningServes ==
  ASSUME NEW p \in PoolType, NEW a \in PoolType, NEW b, NEW r, NEW w \in Waiter,
         Advances(p, a), Advances(b, r), w \notin Queued(p), Entered(p) => Entered(b),
         Queued(b) = Queued(a) \cup {w}, Holding(b) = Holding(a),
         \A rt \in Runtime : Line(b, rt) = IF rt = RuntimeOf[w] THEN Append(Line(a, rt), w)
                                           ELSE Line(a, rt)
  PROVE  Serves(p, r, w)
<1>1. /\ Queued(a) \subseteq Queued(p) /\ Queued(r) \subseteq Queued(a) \cup {w}
      /\ \A rt \in Runtime : /\ Line(a, rt) = Only(Line(p, rt), Queued(a))
                             /\ Line(r, rt) = Only(Line(b, rt), Queued(r))
      /\ \A v \in Waiter : RuntimeOf[v] \in Runtime
  BY GovernorAssumption DEF Advances
<1>2. ASSUME NEW rt \in Runtime
      PROVE  /\ Line(p, rt) \in Seq(Waiter \cup {None}) /\ Line(a, rt) \in Seq(Waiter \cup {None})
             /\ \A i \in 1..Len(Line(p, rt)) : Line(p, rt)[i] \in Queued(p)
  BY EntriesType
<1>3. ASSUME NEW rt \in Runtime
      PROVE  Only(Line(a, rt), Queued(r)) = Only(Line(p, rt), Queued(r))
  <2>1. Only(Only(Line(p, rt), Queued(a)), Queued(r))
          = Only(Line(p, rt), Queued(a) \cap Queued(r))
    BY <1>2, OnlyOnly
  <2>2. \A i \in 1..Len(Line(p, rt)) :
          Line(p, rt)[i] \in Queued(a) \cap Queued(r) <=> Line(p, rt)[i] \in Queued(r)
    BY <1>1, <1>2
  <2>3. Only(Line(p, rt), Queued(a) \cap Queued(r)) = Only(Line(p, rt), Queued(r))
    BY <1>2, <2>2, OnlySame
  <2>. QED
    BY <1>1, <2>1, <2>3
<1>4. ASSUME NEW rt \in Runtime
      PROVE  LET kept == Only(Line(p, rt), Queued(r))
             IN  Line(r, rt) = IF w \in Queued(r) \ Queued(p) /\ rt = RuntimeOf[w]
                               THEN Append(kept, w) ELSE kept
  <2>1. CASE rt = RuntimeOf[w]
    <3>1. Line(r, rt) = Only(Append(Line(a, rt), w), Queued(r))
      BY <1>1, <2>1
    <3>2. Only(Append(Line(a, rt), w), Queued(r))
            = IF w \in Queued(r) THEN Append(Only(Line(a, rt), Queued(r)), w)
              ELSE Only(Line(a, rt), Queued(r))
      BY <1>2, OnlyAppend
    <3>. QED
      BY <1>3, <2>1, <3>1, <3>2
  <2>2. CASE rt # RuntimeOf[w]
    BY <1>1, <1>3, <2>2
  <2>. QED
    BY <2>1, <2>2
<1>5. ASSUME NEW h \in Holding(r) \ Holding(p)
      PROVE  Ahead(Line(p, RuntimeOf[h]), h, Queued(r))
  <2> DEFINE rt == RuntimeOf[h]
             l == Line(p, rt)
  <2>1. h \in Waiter /\ rt \in Runtime
    BY <1>1 DEF Holding
  <2>2. \A k \in 1..Len(l) : l[k] \in Queued(r) => l[k] \in Queued(a)
    BY <1>1, <1>2, <2>1
  <2>3. CASE h \in Holding(a)
    <3>1. Ahead(l, h, Queued(a))
      BY <1>5, <2>3 DEF Advances
    <3> HIDE DEF l
    <3>. QED
      BY <2>2, <3>1 DEF Ahead, l
  <2>4. CASE h \notin Holding(a)
    <3>1. Ahead(Line(b, rt), h, Queued(r))
      BY <1>5, <2>4 DEF Advances
    <3> DEFINE m == Line(a, rt)
    <3>2. /\ m \in Seq(Waiter \cup {None}) /\ l \in Seq(Waiter \cup {None})
          /\ m = Only(l, Queued(a)) /\ Line(b, rt) \in {m, Append(m, w)}
      BY <1>1, <1>2, <2>1
    <3> HIDE DEF l, m
    <3>3. \A i \in 1..Len(m) : i \in 1..Len(Line(b, rt)) /\ Line(b, rt)[i] = m[i]
      BY <3>2
    <3>4. Ahead(m, h, Queued(r) \cap Queued(a))
      <4> SUFFICES ASSUME NEW i \in 1..Len(m), m[i] \in Queued(r)
                   PROVE  \E j \in 1..(i - 1) : m[j] = h
        BY DEF Ahead
      <4>1. PICK j \in 1..(i - 1) : Line(b, rt)[j] = h
        BY <3>1, <3>3 DEF Ahead
      <4>2. j \in 1..Len(m)
        BY <3>2, <4>1
      <4>. QED
        BY <3>3, <4>1, <4>2
    <3>5. Ahead(l, h, Queued(r) \cap Queued(a))
      BY <3>2, <3>4, AheadInSelection
    <3>. QED
      BY <2>2, <3>5 DEF Ahead, l
  <2>. QED
    BY <2>3, <2>4
<1>6. Entered(p) => Entered(r)
  BY DEF Advances
<1>. QED
  BY <1>4, <1>5, <1>6 DEF Serves

\* Every action serves the lines, for at most one client.
Served == \E w : /\ \A u \in Waiter \ {w} : owner'[u] = owner[u]
                 /\ Serves(Pool, Pool', w)

\* A new waiter joins the line of its runtime at the end.
LEMMA SubmitServes ==
  ASSUME IdsUnique, Safe, Entered(Pool), NEW w \in Waiter, NEW timeout \in Timeouts,
         NEW now \in 0..clock, Submit(w, timeout, now)
  PROVE  Served
<1> DEFINE a == BeforeSubmit(now)
           b == Registered(a, w, timeout, now)
           r == Admit(b, now)
<1>1. now \in Nat /\ PoolInv(Pool) /\ ClientType /\ IdsKeepRuntime
      /\ \A v \in Waiter : RuntimeOf[v] \in Runtime
  BY GovernorAssumption DEF Safe, Inv, ClientType, IdsUnique, IdsKeepRuntime
<1>2. Follows(Pool, a) /\ Advances(Pool, a)
  BY <1>1, ExpireThenAdmitFollows, ExpireThenAdmitAdvances DEF BeforeSubmit
<1>3. state[w] = "new" /\ waiters[IdOf[w]] = None
  BY DEF Submit, MaySubmit, Safe, Inv, ClientStates
<1> HIDE DEF a
<1>4. PoolInv(a) /\ Entered(a) /\ a.state[w] = "new" /\ a.waiters[IdOf[w]] = None
  BY <1>2, <1>3 DEF Follows, Advances, Pool
<1>5. PoolInv(b)
  BY <1>1, <1>4, RegisteredInv
<1>12. /\ Queued(b) = Queued(a) \cup {w} /\ Holding(b) = Holding(a) /\ Entered(b)
       /\ \A rt \in Runtime : Line(b, rt) = IF rt = RuntimeOf[w] THEN Append(Line(a, rt), w)
                                            ELSE Line(a, rt)
  BY <1>1, <1>4, RegisteredJoins
<1> HIDE DEF b
<1>6. Advances(b, r) /\ PoolInv(r)
  BY <1>1, <1>5, AdmitAdvances, AdmitFollows DEF Follows
<1>7. Becomes(r) /\ owner' = [owner EXCEPT ![w] = "awaiting"]
  BY DEF Submit, a, b
<1> HIDE DEF r
<1>8. Pool' = r
  BY <1>6, <1>7, BecomesPool DEF PoolInv
<1>9. w \notin Queued(Pool)
  BY <1>3 DEF Queued, Pool
<1>10. Serves(Pool, r, w)
  BY <1>1, <1>2, <1>4, <1>6, <1>9, <1>12, JoiningServes DEF PoolInv
<1>11. \A u \in Waiter \ {w} : owner'[u] = owner[u]
  BY <1>1, <1>7 DEF ClientType
<1>. QED
  BY <1>8, <1>10, <1>11 DEF Served

\* A call that only expires and admits serves who was there.
LEMMA RejectOrSnapshotServes ==
  ASSUME Safe, NEW w \in Waiter \cup {None}, NEW now \in 0..clock,
         Becomes(BeforeSubmit(now)), \A u \in Waiter \ {w} : owner'[u] = owner[u]
  PROVE  Served
<1>1. now \in Nat /\ PoolInv(Pool)
  BY DEF Safe, Inv, ClientType
<1>2. Follows(Pool, BeforeSubmit(now)) /\ Advances(Pool, BeforeSubmit(now))
  BY <1>1, ExpireThenAdmitFollows, ExpireThenAdmitAdvances DEF BeforeSubmit
<1>3. Pool' = BeforeSubmit(now)
  BY <1>2, BecomesPool DEF Follows, PoolInv
<1>. QED
  BY <1>2, <1>3, AdvancingServes DEF Served

\* Lines to which nothing happens are served in order.
LEMMA StandingServes ==
  ASSUME Safe, NEW w \in Waiter \cup {None}, Pool' = Pool,
         \A u \in Waiter \ {w} : owner'[u] = owner[u]
  PROVE  Served
<1>1. Advances(Pool, Pool')
  BY AdvancesItself DEF Safe, Inv, PoolInv
<1>. QED
  BY <1>1, AdvancingServes DEF Served

\* A thread that sleeps, raises or takes its permit serves in order.
LEMMA WaitServes ==
  ASSUME Safe, NEW w \in Waiter, Wait(w)
  PROVE  Served
<1> DEFINE p == WaitPool(w)
<1>1. clock \in Nat /\ PoolInv(Pool) /\ ClientType
      /\ \A v \in Waiter : RuntimeOf[v] \in Runtime
  BY GovernorAssumption DEF Safe, Inv, ClientType
<1>2. Follows(Pool, p) /\ Advances(Pool, p)
  <2>1. CASE state[w] = "queued"
    BY <1>1, <2>1, ExpireThenAdmitFollows, ExpireThenAdmitAdvances DEF WaitPool
  <2>2. CASE state[w] # "queued"
    BY <1>1, <2>2, FollowsItself, AdvancesItself DEF WaitPool, PoolInv
  <2>. QED
    BY <2>1, <2>2
<1>3. WaitSleeps(w, p) \/ WaitReturns(w, p) \/ WaitRaises(w, p)
  BY DEF Wait
<1> HIDE DEF p
<1>4. \A u \in Waiter \ {w} : owner'[u] = owner[u]
  BY <1>1, <1>3 DEF WaitSleeps, WaitReturns, WaitRaises, ClientType
<1>5. CASE WaitSleeps(w, p) \/ WaitReturns(w, p)
  <2>1. Pool' = p
    BY <1>2, <1>5, BecomesPool DEF WaitSleeps, WaitReturns, Follows, PoolInv
  <2>. QED
    BY <1>2, <1>4, <2>1, AdvancingServes DEF Served
<1>6. CASE WaitRaises(w, p)
  <2>1. p.state[w] \in {"expired", "cancelled"} /\ Becomes(Discard(p, w))
    BY <1>6 DEF WaitRaises
  <2>2. PoolInv(p) /\ PoolInv(Discard(p, w))
    BY <1>2, <2>1, DiscardInv DEF Follows
  <2>3. Pool' = Discard(p, w)
    BY <2>1, <2>2, BecomesPool DEF PoolInv
  <2>4. Advances(p, Discard(p, w))
    <3>1. p \in PoolType /\ p.state = [p.state EXCEPT ![w] = p.state[w]]
      BY <2>2 DEF PoolInv, PoolType
    <3>. QED
      BY <2>1, <2>2, <3>1, DiscardAdvances
  <2>5. Advances(Pool, Discard(p, w))
    BY <1>1, <1>2, <2>2, <2>4, AdvancesOn DEF PoolInv
  <2>. QED
    BY <1>4, <2>3, <2>5, AdvancingServes DEF Served
<1>. QED
  BY <1>3, <1>5, <1>6

\* Who gives up a place or a slot lets the others advance.
LEMMA LeaveServes ==
  ASSUME Safe, NEW w \in Waiter, NEW now \in Nat, NEW s \in {"completed", "cancelled"},
         NEW q, PoolInv(q), q.waiters = waiters, q.queues = queues,
         q.state = [state EXCEPT ![w] = s],
         Becomes(Admit(Discard(q, w), now)), owner' = [owner EXCEPT ![w] = "done"]
  PROVE  Served
<1> DEFINE p == Discard(q, w)
           r == Admit(p, now)
<1>1. PoolInv(Pool) /\ ClientType /\ \A v \in Waiter : RuntimeOf[v] \in Runtime
      /\ state \in [Waiter -> States]
  BY GovernorAssumption DEF Safe, Inv, PoolInv, PoolType, Pool
<1>2. PoolInv(p)
  <2>1. q.state[w] = s
    BY <1>1
  <2>. QED
    BY <2>1, DiscardInv
<1>3. Advances(Pool, p)
  <2>1. q.waiters = Pool.waiters /\ q.queues = Pool.queues /\ q.state = [Pool.state EXCEPT ![w] = s]
    BY DEF Pool
  <2>. QED
    BY <1>1, <2>1, DiscardAdvances DEF PoolInv
<1> HIDE DEF p
<1>4. Advances(p, r) /\ PoolInv(r)
  BY <1>1, <1>2, AdmitAdvances, AdmitFollows DEF Follows
<1>5. Becomes(r)
  BY DEF p
<1> HIDE DEF r
<1>6. Pool' = r
  BY <1>4, <1>5, BecomesPool DEF PoolInv
<1>7. Advances(Pool, r)
  BY <1>1, <1>2, <1>3, <1>4, AdvancesOn DEF PoolInv
<1>8. \A u \in Waiter \ {w} : owner'[u] = owner[u]
  BY <1>1 DEF ClientType
<1>. QED
  BY <1>6, <1>7, <1>8, AdvancingServes DEF Served

\* An abandoned waiter leaves its line or gives its slot back.
LEMMA AbandonServes ==
  ASSUME Safe, NEW w \in Waiter, NEW now \in 0..clock, Abandon(w, now)
  PROVE  Served
<1> DEFINE v == waiters[IdOf[w]]
           gone == [Pool EXCEPT !.state[v] = "cancelled"]
           freed == IF state[v] = "running" THEN ReleaseRunning(gone, RuntimeOf[v])
                    ELSE gone
<1>1. now \in Nat /\ ClientType /\ PoolInv(Pool)
  BY DEF Safe, Inv, ClientType
<1>2. /\ owner[w] = "awaiting" /\ owner' = [owner EXCEPT ![w] = "done"]
      /\ \/ UNCHANGED pool
         \/ /\ v # None /\ state[v] \in {"queued", "running"}
            /\ Becomes(Admit(Discard(freed, v), now))
  BY DEF Abandon
<1>3. /\ waiters \in [Id -> Waiter \cup {None}] /\ IdOf[w] \in Id
      /\ state \in [Waiter -> States] /\ Pool.state = state
  BY <1>1, GovernorAssumption DEF PoolInv, PoolType, Pool
<1>4. CASE UNCHANGED pool
  <2>1. Pool' = Pool
    BY <1>4 DEF pool, Pool
  <2>2. \A u \in Waiter \ {w} : owner'[u] = owner[u]
    BY <1>1, <1>2 DEF ClientType
  <2>. QED
    BY <2>1, <2>2, StandingServes
<1>5. CASE /\ v # None /\ state[v] \in {"queued", "running"}
           /\ Becomes(Admit(Discard(freed, v), now))
  <2>1. v \in Waiter /\ IdOf[v] = IdOf[w]
    BY <1>1, <1>3, <1>5 DEF PoolInv, PoolRegistry, Pool
  <2>2. v = w
    BY <1>2, <1>5, <2>1 DEF Safe, Inv, ClientStates
  <2>3. /\ PoolInv(freed) /\ freed.state = [state EXCEPT ![v] = "cancelled"]
        /\ freed.waiters = waiters /\ freed.queues = queues
    <3> HIDE DEF v
    <3>1. CASE state[v] = "queued"
      <4>1. PoolInv(gone) /\ gone.state = [state EXCEPT ![v] = "cancelled"]
        BY <1>1, <1>3, <2>1, <3>1, CancelQueuedInv DEF Pool
      <4>2. gone.waiters = waiters /\ gone.queues = queues
        BY DEF Pool
      <4>. QED
        BY <3>1, <4>1, <4>2
    <3>2. CASE state[v] = "running"
      <4>1. /\ PoolInv(ReleaseRunning(gone, RuntimeOf[v]))
            /\ ReleaseRunning(gone, RuntimeOf[v]).state
                 = [Pool.state EXCEPT ![v] = "cancelled"]
        BY <1>1, <1>3, <2>1, <3>2, ReleaseRunningInv
      <4>2. /\ ReleaseRunning(gone, RuntimeOf[v]).waiters = waiters
            /\ ReleaseRunning(gone, RuntimeOf[v]).queues = queues
        BY DEF Pool, ReleaseRunning
      <4>. QED
        BY <1>3, <3>2, <4>1, <4>2
    <3>. QED
      BY <1>5, <3>1, <3>2
  <2> HIDE DEF v, freed
  <2>. QED
    BY <1>1, <1>2, <1>5, <2>2, <2>3, LeaveServes
<1>. QED
  BY <1>2, <1>4, <1>5

\* A release gives the slot to whom admission picks.
LEMMA ReleaseServes ==
  ASSUME Safe, NEW w \in Waiter, NEW now \in 0..clock, Release(w, now)
  PROVE  Served
<1> DEFINE completed == [Pool EXCEPT !.state[w] = "completed"]
           returned == ReleaseRunning(completed, RuntimeOf[w])
<1>1. now \in Nat /\ PoolInv(Pool) /\ Pool.state = state
  BY DEF Safe, Inv, ClientType, Pool
<1>2. /\ state[w] = "running" /\ Becomes(Admit(Discard(returned, w), now))
      /\ owner' = [owner EXCEPT ![w] = "done"]
  BY DEF Release
<1>3. PoolInv(returned) /\ returned.state = [state EXCEPT ![w] = "completed"]
  BY <1>1, <1>2, ReleaseRunningInv
<1>4. returned.waiters = waiters /\ returned.queues = queues
  BY DEF Pool, ReleaseRunning
<1> HIDE DEF returned
<1>. QED
  BY <1>1, <1>2, <1>3, <1>4, LeaveServes

\* Every step serves in the order of arrival.
LEMMA NextServes ==
  ASSUME IdsUnique, Safe, Entered(Pool), [Next]_vars
  PROVE  Served
<1>1. ClientType /\ IdsKeepRuntime
  BY DEF Safe, Inv, IdsUnique, IdsKeepRuntime
<1>2. CASE UNCHANGED vars \/ Tick
  <2>1. Pool' = Pool /\ owner' = owner
    BY <1>2 DEF vars, pool, Pool, Tick
  <2>. QED
    BY <2>1, StandingServes
<1>3. ASSUME NEW w \in Waiter, NEW timeout \in Timeouts, SubmitRefused(w, timeout)
      PROVE  Served
  <2>1. Pool' = Pool /\ \A u \in Waiter \ {w} : owner'[u] = owner[u]
    BY <1>1, <1>3 DEF SubmitRefused, pool, Pool, ClientType
  <2>. QED
    BY <2>1, StandingServes
<1>4. ASSUME NEW w \in Waiter, NEW timeout \in Timeouts, NEW now \in 0..clock,
             SubmitRejected(w, timeout, now)
      PROVE  Served
  <2>1. /\ Becomes(BeforeSubmit(now))
        /\ \A u \in Waiter \ {w} : owner'[u] = owner[u]
    BY <1>1, <1>4 DEF SubmitRejected, ClientType
  <2>. QED
    BY <2>1, RejectOrSnapshotServes
<1>5. ASSUME NEW w \in Waiter, NEW timeout \in Timeouts, NEW now \in 0..clock,
             Submit(w, timeout, now)
      PROVE  Served
  BY <1>5, SubmitServes
<1>6. ASSUME NEW now \in 0..clock, Snapshot(now)
      PROVE  Served
  <2>1. Becomes(BeforeSubmit(now)) /\ owner' = owner
    BY <1>6 DEF Snapshot, BeforeSubmit
  <2>. QED
    BY <2>1, RejectOrSnapshotServes
<1>. QED
  BY <1>2, <1>3, <1>4, <1>5, <1>6, WaitServes, AbandonServes, ReleaseServes DEF Next

-----------------------------------------------------------------------------
(* The governor as an AdmissionPool.                                         *)

phases == [w \in Waiter |-> Phase(w)]
lines == [rt \in Runtime |-> Line(Pool, rt)]

\* The abstract pool selects as this module does.
LEMMA SameSelection ==
  ASSUME NEW s, NEW S
  PROVE  Abstract!Only(s, S) = Only(s, S)
BY DEF Abstract!Only, Only

\* The abstract pool counts as this module does.
LEMMA SameCount ==
  ASSUME NEW S
  PROVE  Abstract!Cardinality(S) = Cardinality(S)
BY DEF Abstract!Cardinality, Cardinality

\* The phase of a waiter in the abstract pool is that of its state.
LEMMA PhaseOfState ==
  ASSUME NEW w \in Waiter
  PROVE  /\ Phase(w) \in {"idle", "waiting", "granted", "over"}
         /\ (Phase(w) = "waiting") = (state[w] = "queued")
         /\ (Phase(w) = "granted") = (state[w] = "running")
         /\ (Phase(w) = "idle") = (state[w] = "new" /\ owner[w] = "idle")
BY DEF Phase

\* What a step does to a waiter is a move of a request, and its client makes it unless
\* the waiter was in the queue.
LEMMA MovesArePoolMoves ==
  ASSUME ClientStates, NEW w \in Waiter, Moves(w), Phase(w)' # Phase(w)
  PROVE  /\ <<Phase(w), Phase(w)'>> \in Abstract!Moves
         /\ Phase(w) = "waiting" \/ owner'[w] # owner[w]
<1>1. owner[w] = "idle" => state[w] = "new"
  BY DEF ClientStates
<1>2. CASE owner'[w] = owner[w] /\ state'[w] = state[w]
  BY <1>2 DEF Phase
<1>3. CASE /\ owner'[w] = owner[w]
           /\ state[w] = "queued" /\ state'[w] \in {"running", "expired"}
  <2>1. Phase(w) = "waiting" /\ Phase(w)' \in {"granted", "over"}
    BY <1>3 DEF Phase
  <2>. QED
    BY <2>1 DEF Abstract!Moves
<1>4. CASE /\ owner[w] = "idle" /\ owner'[w] = "awaiting"
           /\ state'[w] \in {"queued", "running", "expired"}
  <2>1. Phase(w) = "idle" /\ Phase(w)' \in {"waiting", "granted", "over"}
    BY <1>1, <1>4 DEF Phase
  <2>. QED
    BY <1>4, <2>1 DEF Abstract!Moves
<1>5. CASE owner[w] = "idle" /\ owner'[w] = "done" /\ state'[w] = state[w]
  <2>1. Phase(w) = "idle" /\ Phase(w)' = "over"
    BY <1>1, <1>5 DEF Phase
  <2>. QED
    BY <1>5, <2>1 DEF Abstract!Moves
<1>6. CASE /\ owner[w] = "awaiting" /\ owner'[w] = "done"
           /\ state'[w] = state[w] /\ state[w] \notin {"queued", "running"}
  BY <1>6 DEF Phase
<1>7. CASE /\ owner[w] = "awaiting" /\ owner'[w] = "done"
           /\ state[w] \in {"queued", "running"}
           /\ state'[w] \in {"cancelled", "completed", "expired"}
  <2>1. Phase(w) \in {"waiting", "granted"} /\ Phase(w)' = "over"
    BY <1>7 DEF Phase
  <2>. QED
    BY <1>7, <2>1 DEF Abstract!Moves
<1>. QED
  BY <1>2, <1>3, <1>4, <1>5, <1>6, <1>7 DEF Moves

\* Initial states are those of the abstract pool.
LEMMA StartsAsPool ==
  ASSUME Init
  PROVE  Abstract!Init
<1>1. phases = [w \in Waiter |-> "idle"]
  BY DEF Init, Phase, phases
<1>2. \A rt \in Runtime : Line(Pool, rt) = << >>
  <2> SUFFICES ASSUME NEW rt \in Runtime
               PROVE  Line(Pool, rt) = << >>
    OBVIOUS
  <2>1. Pool.queues[rt] = << >>
    BY DEF Init, Pool
  <2>2. Entries(Pool, rt) = << >>
    BY <2>1 DEF Entries
  <2>. QED
    BY <2>2, OnlyEmpty DEF Line
<1>. QED
  BY <1>1, <1>2 DEF Abstract!Init, phases

\* What moves legally and is served in order is a step of the abstract pool.
LEMMA StepIsPoolStep ==
  ASSUME Safe, Safe', \A u \in Waiter : Moves(u), Served
  PROVE  Abstract!Step
<1>1. /\ PoolInv(Pool) /\ PoolInv(Pool') /\ ClientStates
      /\ \A u \in Waiter : RuntimeOf[u] \in Runtime
  BY GovernorAssumption DEF Safe, Inv
<1>2. PICK w : /\ \A u \in Waiter \ {w} : owner'[u] = owner[u]
               /\ Serves(Pool, Pool', w)
  BY DEF Served
<1>3. /\ \A u \in Waiter : phases[u] = Phase(u) /\ phases'[u] = Phase(u)'
      /\ phases' \in [Waiter -> Abstract!Phases]
  <2>1. \A u \in Waiter : Phase(u)' \in Abstract!Phases
    BY PhaseOfState DEF Phase, Abstract!Phases
  <2>. QED
    BY <2>1 DEF phases
<1>4. \A u \in Waiter :
         /\ (phases[u] = "waiting") = (u \in Queued(Pool))
         /\ (phases'[u] = "waiting") = (u \in Queued(Pool'))
         /\ (phases[u] = "granted") = (u \in Holding(Pool))
         /\ (phases'[u] = "granted") = (u \in Holding(Pool'))
  <2> SUFFICES ASSUME NEW u \in Waiter
               PROVE  /\ (phases[u] = "waiting") = (u \in Queued(Pool))
                      /\ (phases'[u] = "waiting") = (u \in Queued(Pool'))
                      /\ (phases[u] = "granted") = (u \in Holding(Pool))
                      /\ (phases'[u] = "granted") = (u \in Holding(Pool'))
    OBVIOUS
  <2>1. /\ (Phase(u) = "waiting") = (state[u] = "queued")
        /\ (Phase(u) = "granted") = (state[u] = "running")
    BY PhaseOfState
  <2>2. /\ (Phase(u)' = "waiting") = (state'[u] = "queued")
        /\ (Phase(u)' = "granted") = (state'[u] = "running")
    BY DEF Phase
  <2>3. Pool.state = state /\ Pool'.state = state'
    BY DEF Pool
  <2>4. /\ (u \in Queued(Pool)) = (state[u] = "queued")
        /\ (u \in Queued(Pool')) = (state'[u] = "queued")
    BY <1>1, <2>3 DEF Queued, PoolInv, PoolRegistry
  <2>5. /\ (u \in Holding(Pool)) = (state[u] = "running")
        /\ (u \in Holding(Pool')) = (state'[u] = "running")
    BY <2>3 DEF Holding
  <2>. QED
    BY <1>3, <2>1, <2>2, <2>4, <2>5
<1>5. /\ Abstract!Moved = {u \in Waiter : phases'[u] # phases[u]}
      /\ Abstract!Holders = Holding(Pool) /\ Abstract!Holders' = Holding(Pool')
  <2>1. Abstract!Holders = {u \in Waiter : phases[u] = "granted"}
        /\ Abstract!Holders' = {u \in Waiter : phases'[u] = "granted"}
    BY DEF Abstract!Holders, phases
  <2>. QED
    BY <1>4, <2>1 DEF Abstract!Moved, phases, Holding
<1>6. \A u \in Abstract!Moved :
        /\ <<phases[u], phases'[u]>> \in Abstract!Moves
        /\ phases[u] = "waiting" \/ u = w
  BY <1>1, <1>2, <1>3, <1>5, MovesArePoolMoves
<1>7. \A u, v \in Abstract!Moved :
        phases[u] # "waiting" /\ phases[v] # "waiting" => u = v
  BY <1>6
<1>8. Abstract!Cardinality(Abstract!Holders') <= MaxRunning
  BY <1>1, <1>5, SameCount DEF PoolInv, PoolCounts
<1>9. \A h \in Abstract!Holders' \ Abstract!Holders : Abstract!InTurn(h)
  <2> SUFFICES ASSUME NEW h \in Holding(Pool') \ Holding(Pool)
               PROVE  Abstract!InTurn(h)
    BY <1>5
  <2> DEFINE l == Line(Pool, RuntimeOf[h])
  <2>1. h \in Waiter /\ RuntimeOf[h] \in Runtime /\ lines[RuntimeOf[h]] = l
    BY <1>1 DEF Holding, lines
  <2>2. Ahead(l, h, Queued(Pool'))
    BY <1>2 DEF Serves
  <2>3. \A i \in 1..Len(l) : l[i] \in Queued(Pool)
    BY <1>1, <2>1, EntriesType DEF PoolInv
  <2>4. \A i \in 1..Len(l) : phases'[l[i]] = "waiting" => \E j \in 1..(i - 1) : l[j] = h
    BY <1>4, <2>2, <2>3 DEF Ahead, Queued
  <2> HIDE DEF l
  <2>5. \A i \in 1..Len(lines[RuntimeOf[h]]) :
          phases'[lines[RuntimeOf[h]][i]] = "waiting"
            => \E j \in 1..(i - 1) : lines[RuntimeOf[h]][j] = h
    BY <2>1, <2>4
  <2>. QED
    BY <2>5 DEF Abstract!InTurn, phases, lines
<1>10. \A rt \in Runtime : Abstract!LineKept(rt)
  <2> SUFFICES ASSUME NEW rt \in Runtime
               PROVE  Abstract!LineKept(rt)
    OBVIOUS
  <2> DEFINE A == Abstract!Arrived(rt)
             W == {u \in Waiter : phases'[u] = "waiting"}
             kept == Only(Line(Pool, rt), Queued(Pool'))
  <2>1. A = {u \in Waiter : /\ RuntimeOf[u] = rt
                           /\ phases[u] = "idle" /\ phases'[u] = "waiting"}
    <3>1. A = {u \in Abstract!Moved : /\ RuntimeOf[u] = rt
                                     /\ phases[u] = "idle" /\ phases'[u] = "waiting"}
      BY DEF Abstract!Arrived, phases
    <3>. QED
      BY <1>5, <3>1
  <2>2. W = Queued(Pool')
    BY <1>4 DEF Queued
  <2>3. A \subseteq {w}
    BY <1>5, <1>6, <2>1
  <2>4. ASSUME w \in Queued(Pool') \ Queued(Pool)
        PROVE  w \in Waiter /\ phases[w] = "idle" /\ phases'[w] = "waiting"
    <3>1. w \in Waiter /\ phases'[w] = "waiting" /\ phases[w] # "waiting"
      BY <1>4, <2>4 DEF Queued
    <3>2. <<phases[w], "waiting">> \in Abstract!Moves
      BY <1>5, <1>6, <3>1
    <3>. QED
      BY <3>1, <3>2 DEF Abstract!Moves
  <2>5. w \in A <=> (w \in Queued(Pool') \ Queued(Pool) /\ rt = RuntimeOf[w])
    <3>1. ASSUME w \in A
          PROVE  w \in Queued(Pool') \ Queued(Pool) /\ rt = RuntimeOf[w]
      BY <1>4, <2>1, <3>1
    <3>. QED
      BY <2>1, <2>4, <3>1
  <2>6. Line(Pool', rt) = IF w \in A THEN Append(kept, w) ELSE kept
    BY <1>2, <2>5 DEF Serves
  <2>7. lines[rt] = Line(Pool, rt) /\ lines'[rt] = Line(Pool', rt)
    BY DEF lines
  <2>8. Abstract!Only(lines[rt], W) = kept
    BY <2>2, <2>7, SameSelection
  <2> HIDE DEF A, W, kept
  <2>9. IF A = {} THEN lines'[rt] = Abstract!Only(lines[rt], W)
        ELSE \E u \in A : lines'[rt] = Append(Abstract!Only(lines[rt], W), u)
    BY <2>3, <2>6, <2>7, <2>8
  <2>. QED
    BY <2>9 DEF Abstract!LineKept, A, W, phases, lines
<1>11. DOMAIN lines' = Runtime
  BY DEF lines
<1>. QED
  BY <1>3, <1>6, <1>7, <1>8, <1>9, <1>10, <1>11 DEF Abstract!Step, phases, lines

\* Whoever has an entry in a queue has called submit, now and after every step.
LEMMA EnteredHolds ==
  ASSUME IdsUnique
  PROVE  Spec => [](Safe /\ Entered(Pool))
<1>1. IdsKeepRuntime
  BY DEF IdsUnique, IdsKeepRuntime
<1>2. Init => Safe /\ Entered(Pool)
  <2>1. Init => Entered(Pool)
    BY DEF Init, Pool, Entered
  <2>. QED
    BY <2>1, InitSafe
<1>3. (Safe /\ Entered(Pool)) /\ [Next]_vars => (Safe /\ Entered(Pool))'
  <2> SUFFICES ASSUME Safe, Entered(Pool), [Next]_vars
               PROVE  Safe' /\ Entered(Pool')
    BY DEF Entered
  <2>1. Safe'
    BY <1>1, NextSafe
  <2>2. Served
    BY NextServes
  <2>. QED
    BY <2>1, <2>2 DEF Served, Serves
<1>. QED
  BY <1>2, <1>3, PTL DEF Spec

\* The governor lends at most max_running permits, serves the requests of each runtime
\* in the order of their submission and takes no permit from a request that holds one,
\* when no id is used twice: an entry that a waiter has left behind in a queue would
\* lead to the next waiter under its id, and give it the other's place.
THEOREM ImplementsPool ==
  ASSUME IdsUnique
  PROVE  Spec => ImplementsAdmissionPool
<1>1. Init => Abstract!Init
  BY StartsAsPool
<1>2. /\ Safe /\ Entered(Pool) /\ (Safe /\ Entered(Pool))' /\ [Next]_vars
        => [Abstract!Step]_<<phases, lines>>
  <2>1. IdsKeepRuntime
    BY DEF IdsUnique, IdsKeepRuntime
  <2>. QED
    BY <2>1, NextSafe, NextServes, StepIsPoolStep
<1>. QED
  BY <1>1, <1>2, EnteredHolds, PTL DEF Spec, ImplementsAdmissionPool, Abstract!Spec, phases, lines

=============================================================================
