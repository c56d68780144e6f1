---------------------------- MODULE Stores_proofs ----------------------------
(***************************************************************************)
(* Proofs about the components that keep files, and about the ledger of     *)
(* memory, for every value of their constants.  What is accounted for in    *)
(* the ledger never exceeds the budget, and whoever uses memory under an     *)
(* estimate is accounted for with it.  Of the others each has an inductive  *)
(* invariant of its own, which holds in the behaviours of Stores that are    *)
(* of that component.                                                        *)
(***************************************************************************)
EXTENDS ResourceLedger, Stores, CollectionLemmas

-----------------------------------------------------------------------------
(* Estimates.                                                                *)

ConfigsOf(o) == IF o \in Runtimes THEN RuntimeConfigs ELSE RequestConfigs

\* The first known source is a number, if one is known.
LEMMA FirstKnownIsNumber ==
  ASSUME NEW s \in Seq(Number)
  PROVE  FirstKnown(s) \in Number
<1> DEFINE known == {i \in DOMAIN s : s[i] # Unknown}
<1>1. CASE known = {}
  BY <1>1 DEF FirstKnown, Number
<1>2. CASE known # {}
  <2>1. known \in SUBSET Nat
    OBVIOUS
  <2>2. \E m \in known : \A n \in known : m <= n
    <3> HIDE DEF known
    <3>. QED
      BY <1>2, <2>1, LeastNatural
  <2>3. Min(known) \in known
    BY <2>2 DEF Min
  <2>. QED
    BY <1>2, <2>3 DEF FirstKnown
<1>. QED
  BY <1>1, <1>2

\* A bundle counts for the sum of its files.
LEMMA BundleIsNumber ==
  ASSUME NEW s \in Seq(Number)
  PROVE  BundleBytes(s) \in Number
<1>1. CASE s = << >> \/ \E i \in DOMAIN s : s[i] = Unknown
  BY <1>1 DEF BundleBytes, Number
<1>2. CASE s # << >> /\ \A i \in DOMAIN s : s[i] # Unknown
  <2>1. IsFiniteSet(1..Len(s)) /\ DOMAIN s = 1..Len(s)
    BY FS_Interval
  <2>2. \A i \in DOMAIN s : s[i] \in Nat
    BY <1>2 DEF Number
  <2>3. Total(s, DOMAIN s) \in Nat
    BY <2>1, <2>2, TotalUnfolds
  <2>. QED
    BY <1>2, <2>3 DEF BundleBytes, Number
<1>. QED
  BY <1>1, <1>2

\* The components of an envelope.
ResidentNames == {"weights", "overhead", "context", "prompt", "projector", "margin"}
TransientNames == {"base", "input", "output", "margin"}

\* There are finitely many components of an estimate.
LEMMA NamesAreFinite == IsFiniteSet(ResidentNames) /\ IsFiniteSet(TransientNames)
<1>1. IsFiniteSet({"weights"} \cup {"overhead"}) /\ IsFiniteSet({"base"} \cup {"input"})
  BY FS_Singleton, FS_AddElement
<1>2. /\ IsFiniteSet(({"weights"} \cup {"overhead"}) \cup {"context"})
      /\ IsFiniteSet(({"base"} \cup {"input"}) \cup {"output"})
  BY <1>1, FS_AddElement
<1>3. /\ IsFiniteSet((({"weights"} \cup {"overhead"}) \cup {"context"}) \cup {"prompt"})
      /\ IsFiniteSet((({"base"} \cup {"input"}) \cup {"output"}) \cup {"margin"})
  BY <1>2, FS_AddElement
<1>4. IsFiniteSet(((({"weights"} \cup {"overhead"}) \cup {"context"}) \cup {"prompt"}) \cup {"projector"})
  BY <1>3, FS_AddElement
<1>5. IsFiniteSet((((({"weights"} \cup {"overhead"}) \cup {"context"}) \cup {"prompt"}) \cup {"projector"}) \cup {"margin"})
  BY <1>4, FS_AddElement
<1>6. /\ ResidentNames = (((({"weights"} \cup {"overhead"}) \cup {"context"}) \cup {"prompt"}) \cup {"projector"}) \cup {"margin"}
      /\ TransientNames = (({"base"} \cup {"input"}) \cup {"output"}) \cup {"margin"}
  BY DEF ResidentNames, TransientNames
<1>. QED
  BY <1>3, <1>5, <1>6

\* The components of a runtime's estimate are numbers or unknown.
LEMMA ResidentPartsAreNumbers ==
  ASSUME NEW c \in RuntimeConfigs
  PROVE  ResidentParts(c) \in [ResidentNames -> Number]
<1>1. /\ <<c.weights, BundleBytes(c.bundle), c.size, c.file>> \in Seq(Number)
      /\ <<c.prompt, c.cacheRam>> \in Seq(Number)
      /\ <<c.projector, c.mmprojFile>> \in Seq(Number)
      /\ c.overhead \in Number /\ c.context \in Number /\ c.margin \in Number
  <2>1. /\ c.weights \in Number /\ c.bundle \in Seq(Number) /\ c.size \in Number
        /\ c.file \in Number /\ c.prompt \in Number /\ c.cacheRam \in Number
        /\ c.projector \in Number /\ c.mmprojFile \in Number
        /\ c.overhead \in Number /\ c.context \in Number /\ c.margin \in Number
    BY LedgerAssumption
  <2>2. BundleBytes(c.bundle) \in Number
    BY <2>1, BundleIsNumber
  <2>. QED
    BY <2>1, <2>2
<1>2. /\ FirstKnown(<<c.weights, BundleBytes(c.bundle), c.size, c.file>>) \in Number
      /\ FirstKnown(<<c.prompt, c.cacheRam>>) \in Number
      /\ FirstKnown(<<c.projector, c.mmprojFile>>) \in Number
  BY <1>1, FirstKnownIsNumber
<1>. QED
  BY <1>1, <1>2 DEF ResidentParts, ResidentNames

\* The components of a request's estimate are numbers or unknown.
LEMMA TransientPartsAreNumbers ==
  ASSUME NEW c \in RequestConfigs
  PROVE  TransientParts(c) \in [TransientNames -> Number]
<1>1. /\ c.base \in Number /\ c.multiplier \in Number /\ c.bytes \in Nat
      /\ c.perToken \in Number /\ c.maxTokens \in Number /\ c.margin \in Number
  BY LedgerAssumption
<1>2. \A m, n \in Nat : m * n \in Nat
  OBVIOUS
<1>3. /\ (IF c.multiplier = Unknown THEN Unknown ELSE c.bytes * c.multiplier) \in Number
      /\ (IF c.perToken = Unknown \/ c.maxTokens = Unknown THEN Unknown
          ELSE c.perToken * c.maxTokens) \in Number
  BY <1>1, <1>2 DEF Number, Unknown
<1>. QED
  BY <1>1, <1>3 DEF TransientParts, TransientNames

\* The parts of an envelope are finitely many numbers.
LEMMA PartsAreNumbers ==
  ASSUME NEW o \in Owners, NEW c \in ConfigsOf(o)
  PROVE  /\ IsFiniteSet(DOMAIN Parts(o, c))
         /\ \A p \in DOMAIN Parts(o, c) : Parts(o, c)[p] \in Number
         /\ c.override \in Number
<1>1. CASE o \in Runtimes
  BY <1>1, ResidentPartsAreNumbers, NamesAreFinite, LedgerAssumption DEF ConfigsOf, Parts
<1>2. CASE o \notin Runtimes
  BY <1>2, TransientPartsAreNumbers, NamesAreFinite, LedgerAssumption DEF ConfigsOf, Parts
<1>. QED
  BY <1>1, <1>2

\* What is estimated of an owner: a number that counts every known part, or nothing
\* when nothing is known.
EstimateIsFair(o, c) ==
  /\ Estimate(o, c) \in Number
  /\ c.override = Unknown => \A p \in DOMAIN Parts(o, c) : Parts(o, c)[p] <= Estimate(o, c)
  /\ Estimate(o, c) = Unknown =>
       /\ \A p \in DOMAIN Parts(o, c) : Parts(o, c)[p] = Unknown
       /\ ~Complete(o, c)

\* An estimate that is not overridden counts every part that is known.
LEMMA EstimatesAreFair ==
  ASSUME NEW o \in Owners, NEW c \in ConfigsOf(o)
  PROVE  EstimateIsFair(o, c)
<1> DEFINE f == Parts(o, c)
           K == Known(o, c)
<1>1. /\ IsFiniteSet(K) /\ K \subseteq DOMAIN f
      /\ \A p \in K : f[p] \in Nat
      /\ \A p \in DOMAIN f : f[p] \in Number /\ (p \notin K => f[p] = Unknown)
      /\ c.override \in Number
  BY PartsAreNumbers, FS_Subset DEF Known, Number
<1>2. Total(f, K) \in Nat /\ \A p \in K : f[p] <= Total(f, K)
  <2> HIDE DEF f, K
  <2>1. Total(f, K) \in Nat
    BY <1>1, TotalUnfolds
  <2>2. ASSUME NEW p \in K
        PROVE  f[p] <= Total(f, K)
    <3>1. Total(f, K) = Total(f, K \ {p}) + f[p] /\ Total(f, K \ {p}) \in Nat
      BY <1>1, TotalRemove
    <3>. QED
      BY <1>1, <3>1
  <2>. QED
    BY <2>1, <2>2
<1>3. CASE c.override # Unknown
  BY <1>1, <1>3 DEF EstimateIsFair, Estimate
<1>4. CASE c.override = Unknown /\ K = {}
  <2>1. Estimate(o, c) = Unknown
    BY <1>4 DEF Estimate
  <2>. QED
    BY <1>1, <1>4, <2>1 DEF EstimateIsFair, Complete, Number, Unknown
<1>5. CASE c.override = Unknown /\ K # {}
  <2>1. Estimate(o, c) = Total(f, K)
    BY <1>5 DEF Estimate
  <2>2. \A p \in DOMAIN f : f[p] <= Total(f, K)
    BY <1>1, <1>2 DEF Unknown
  <2>. QED
    BY <1>2, <1>5, <2>1, <2>2 DEF EstimateIsFair, Number, Unknown
<1>. QED
  BY <1>3, <1>4, <1>5

-----------------------------------------------------------------------------
(* What the ledger adds up to.                                               *)

\* The entries of the ledger can be added up.
LEMMA BytesAreNumbers ==
  ASSUME TypeOK
  PROVE  /\ IsFiniteSet(DOMAIN ledger)
         /\ \A o \in DOMAIN ledger : Bytes[o] = ledger[o].bytes /\ Bytes[o] \in Nat
         /\ \A S \in SUBSET DOMAIN ledger : IsFiniteSet(S) /\ BytesOf(S) \in Nat
<1>1. IsFiniteSet(DOMAIN ledger)
  BY LedgerAssumption, FS_Subset DEF TypeOK, Owners
<1>2. \A o \in DOMAIN ledger : Bytes[o] = ledger[o].bytes /\ Bytes[o] \in Nat
  BY DEF Bytes, TypeOK
<1>3. ASSUME NEW S \in SUBSET DOMAIN ledger
      PROVE  IsFiniteSet(S) /\ BytesOf(S) \in Nat
  <2>1. IsFiniteSet(S)
    BY <1>1, FS_Subset
  <2>. QED
    BY <1>2, <2>1, TotalUnfolds DEF BytesOf
<1>. QED
  BY <1>1, <1>2, <1>3

\* An entry adds its bytes to what the others have.
LEMMA EntryAdds ==
  ASSUME TypeOK, NEW o \in Owners, NEW e, e.bytes \in Nat, ledger' = Entry(o, e)
  PROVE  Accounted' = BytesOf(DOMAIN ledger \ {o}) + e.bytes
<1> DEFINE S == DOMAIN ledger \ {o}
           f == Bytes
           g == Bytes'
<1>1. IsFiniteSet(S) /\ S \in SUBSET DOMAIN ledger
  BY BytesAreNumbers
<1>2. DOMAIN ledger' = S \cup {o} /\ o \notin S
  BY DEF Entry
<1>3. /\ g[o] = e.bytes
      /\ \A x \in S : f[x] \in Nat /\ g[x] = f[x]
  BY BytesAreNumbers DEF Entry, Bytes
<1>4. Accounted' = Total(g, S \cup {o})
  BY <1>2 DEF Accounted, BytesOf
<1>5. BytesOf(S) = Total(f, S)
  BY DEF BytesOf
<1>6. Total(g, S) = Total(f, S)
  <2> HIDE DEF S, f, g
  <2>. QED
    BY <1>1, <1>3, TotalOfEqual
<1>7. Total(g, S \cup {o}) = Total(g, S) + g[o]
  <2> HIDE DEF S, f, g
  <2>. QED
    BY <1>1, <1>2, <1>3, TotalAdd
<1> HIDE DEF f, g
<1>. QED
  BY <1>3, <1>4, <1>5, <1>6, <1>7

\* What is released is no longer counted.
LEMMA WithoutSubtracts ==
  ASSUME TypeOK, NEW o, ledger' = Without(o)
  PROVE  Accounted' \in Nat /\ Accounted \in Nat /\ Accounted' <= Accounted
<1> DEFINE S == DOMAIN ledger \ {o}
           D == DOMAIN ledger
           f == Bytes
           g == Bytes'
<1>1. IsFiniteSet(S) /\ IsFiniteSet(D) /\ S \subseteq D
  BY BytesAreNumbers
<1>2. /\ \A x \in S : f[x] \in Nat /\ g[x] = f[x]
      /\ \A x \in D : f[x] \in Nat
  BY BytesAreNumbers DEF Without, Bytes
<1>3. Accounted' = Total(g, S) /\ Accounted = Total(f, D)
  <2>1. DOMAIN ledger' = S
    BY DEF Without
  <2>. QED
    BY <2>1 DEF Accounted, BytesOf
<1> HIDE DEF S, D, f, g
<1>4. Total(g, S) = Total(f, S)
  BY <1>1, <1>2, TotalOfEqual
<1>5. Total(f, S) \in Nat /\ Total(f, D) \in Nat /\ Total(f, S) <= Total(f, D)
  BY <1>1, <1>2, TotalOfPart
<1>. QED
  BY <1>3, <1>4, <1>5

-----------------------------------------------------------------------------
(* The invariant.                                                            *)

Phases == {"idle", "refused", "unaccounted", "reserved", "rejected", "live"}

Configured ==
  /\ phase \in [Owners -> Phases]
  /\ config \in [Owners -> RuntimeConfigs \cup RequestConfigs \cup {None}]
  /\ \A o \in Owners : phase[o] # "idle" => config[o] \in ConfigsOf(o)

Affordable == Usable # Unknown => Accounted <= Usable

LedgerInv == TypeOK /\ Configured /\ OwnersAreAccounted /\ Affordable

\* Who is accounted for, and how, said of one owner.
EntryIsFair(o, e, c) ==
  /\ e.requested = Estimate(o, c)
  /\ e.bytes \in {Estimate(o, c)} \cup Observed
  /\ c.override = Unknown => \A p \in DOMAIN Parts(o, c) : Parts(o, c)[p] <= e.requested

NothingKnown(o, c) ==
  /\ \A p \in DOMAIN Parts(o, c) : Parts(o, c)[p] = Unknown
  /\ ~Complete(o, c)

OwnerIsAccounted(o) ==
  /\ o \in DOMAIN ledger <=> phase[o] \in {"reserved", "rejected", "live"}
  /\ o \in DOMAIN ledger => EntryIsFair(o, ledger[o], config[o])
  /\ phase[o] = "unaccounted" /\ Usable # Unknown => NothingKnown(o, config[o])

\* Owners are accounted for one by one.
LEMMA AccountedOneByOne ==
  ASSUME DOMAIN ledger \subseteq Owners
  PROVE  OwnersAreAccounted <=> \A o \in Owners : OwnerIsAccounted(o)
BY DEF OwnersAreAccounted, OwnerIsAccounted, EntryIsFair, NothingKnown

\* The same in the next state.
LEMMA AccountedOneByOneNext ==
  ASSUME DOMAIN ledger' \subseteq Owners, \A o \in Owners : OwnerIsAccounted(o)'
  PROVE  OwnersAreAccounted'
BY DEF OwnersAreAccounted, OwnerIsAccounted, EntryIsFair, NothingKnown

\* A step of o leaves the other owners as they are.
LEMMA OthersStay ==
  ASSUME LedgerInv, NEW o \in Owners, NEW x \in Owners, x # o,
         phase'[x] = phase[x], config'[x] = config[x],
         x \in DOMAIN ledger' <=> x \in DOMAIN ledger,
         x \in DOMAIN ledger => ledger'[x] = ledger[x]
  PROVE  OwnerIsAccounted(x)'
<1>1. OwnerIsAccounted(x)
  BY AccountedOneByOne DEF LedgerInv, TypeOK
<1>. QED
  BY <1>1 DEF OwnerIsAccounted, EntryIsFair, NothingKnown

\* What may be used is a number or unknown.
LEMMA UsableIsNumber == Usable \in Number
BY LedgerAssumption DEF Usable, Number, Unknown

\* Initially the ledger is empty.
LEMMA InitHolds ==
  ASSUME Init
  PROVE  LedgerInv
<1>1. TypeOK /\ Configured
  BY DEF Init, TypeOK, Configured, Phases
<1>2. OwnersAreAccounted
  BY DEF Init, OwnersAreAccounted
<1>3. Accounted = 0
  <2>1. DOMAIN ledger = {}
    BY DEF Init
  <2>2. Total(Bytes, {}) = 0
    BY FS_EmptySet, TotalUnfolds
  <2>. QED
    BY <2>1, <2>2 DEF Accounted, BytesOf
<1>4. Affordable
  BY <1>3, UsableIsNumber DEF Affordable, Number
<1>. QED
  BY <1>1, <1>2, <1>4 DEF LedgerInv

\* A reservation is made only if it fits.
LEMMA ReserveHolds ==
  ASSUME LedgerInv, NEW o \in Owners, NEW c \in ConfigsOf(o), Reserve(o, c)
  PROVE  LedgerInv'
<1> DEFINE bytes == Estimate(o, c)
           e == [requested |-> bytes, bytes |-> bytes, state |-> "reserved"]
<1>1. EstimateIsFair(o, c)
  BY EstimatesAreFair
<1>2. o \notin DOMAIN ledger
  BY DEF LedgerInv, OwnersAreAccounted, Reserve
<1>3. c \in RuntimeConfigs \cup RequestConfigs
  BY DEF ConfigsOf
<1>4. CASE Usable = Unknown \/ bytes = Unknown
  <2>1. phase' = [phase EXCEPT ![o] = "unaccounted"] /\ ledger' = ledger
        /\ config' = [config EXCEPT ![o] = c]
    BY <1>4 DEF Reserve
  <2>2. TypeOK' /\ Configured'
    BY <1>3, <2>1 DEF LedgerInv, TypeOK, Configured, Phases
  <2>3. OwnerIsAccounted(o)'
    BY <1>1, <1>2, <1>4, <2>1 DEF LedgerInv, Configured, OwnerIsAccounted, EstimateIsFair, NothingKnown
  <2>4. ASSUME NEW x \in Owners, x # o
        PROVE  OwnerIsAccounted(x)'
    BY <2>1, <2>4, OthersStay DEF LedgerInv, Configured
  <2>5. Affordable'
    BY <2>1 DEF LedgerInv, Affordable, Accounted, BytesOf, Bytes
  <2>. QED
    BY <2>2, <2>3, <2>4, <2>5, AccountedOneByOneNext DEF LedgerInv, TypeOK
<1>5. CASE ~(Usable = Unknown \/ bytes = Unknown) /\ Fits(DOMAIN ledger, bytes)
  <2>1. phase' = [phase EXCEPT ![o] = "reserved"] /\ ledger' = Entry(o, e)
        /\ config' = [config EXCEPT ![o] = c]
    BY <1>5 DEF Reserve
  <2>2. bytes \in Nat
    BY <1>1, <1>5 DEF EstimateIsFair, Number
  <2>3. TypeOK' /\ Configured'
    BY <1>3, <2>1, <2>2 DEF LedgerInv, TypeOK, Configured, Phases, Entry
  <2>4. OwnerIsAccounted(o)'
    BY <1>1, <2>1 DEF LedgerInv, Configured, OwnerIsAccounted, EstimateIsFair, EntryIsFair, Entry
  <2>5. ASSUME NEW x \in Owners, x # o
        PROVE  OwnerIsAccounted(x)'
    BY <2>1, <2>5, OthersStay DEF LedgerInv, Configured, Entry
  <2>6. Affordable'
    <3>1. DOMAIN ledger \ {o} = DOMAIN ledger
      BY <1>2
    <3>2. Accounted' = BytesOf(DOMAIN ledger \ {o}) + e.bytes
      BY <2>1, <2>2, EntryAdds DEF LedgerInv
    <3>3. Accounted' = BytesOf(DOMAIN ledger) + bytes
      BY <3>1, <3>2
    <3>. QED
      BY <1>5, <3>3 DEF Affordable, Fits
  <2>. QED
    BY <2>3, <2>4, <2>5, <2>6, AccountedOneByOneNext DEF LedgerInv, TypeOK
<1>6. CASE ~(Usable = Unknown \/ bytes = Unknown) /\ ~Fits(DOMAIN ledger, bytes)
  <2>1. phase' = [phase EXCEPT ![o] = "refused"] /\ ledger' = ledger
        /\ config' = [config EXCEPT ![o] = c]
    BY <1>6 DEF Reserve
  <2>2. TypeOK' /\ Configured'
    BY <1>3, <2>1 DEF LedgerInv, TypeOK, Configured, Phases
  <2>3. OwnerIsAccounted(o)'
    BY <1>2, <2>1 DEF LedgerInv, Configured, OwnerIsAccounted
  <2>4. ASSUME NEW x \in Owners, x # o
        PROVE  OwnerIsAccounted(x)'
    BY <2>1, <2>4, OthersStay DEF LedgerInv, Configured
  <2>5. Affordable'
    BY <2>1 DEF LedgerInv, Affordable, Accounted, BytesOf, Bytes
  <2>. QED
    BY <2>2, <2>3, <2>4, <2>5, AccountedOneByOneNext DEF LedgerInv, TypeOK
<1>. QED
  BY <1>4, <1>5, <1>6

\* A commit replaces what was reserved by what was observed, if that fits.
LEMMA CommitHolds ==
  ASSUME LedgerInv, NEW o \in Owners, NEW observed \in Observed \cup {Unknown},
         Commit(o, observed)
  PROVE  LedgerInv'
<1> DEFINE bytes == IF observed = Unknown THEN ledger[o].bytes ELSE observed
           e == [ledger[o] EXCEPT !.bytes = bytes, !.state = "committed"]
<1>1. /\ o \in DOMAIN ledger /\ config' = config
      /\ ledger[o] \in [requested : Nat, bytes : Nat, state : {"reserved", "committed"}]
      /\ EntryIsFair(o, ledger[o], config[o])
  <2>1. OwnerIsAccounted(o)
    BY AccountedOneByOne DEF LedgerInv, TypeOK
  <2>. QED
    BY <2>1 DEF LedgerInv, TypeOK, Commit, OwnerIsAccounted
<1>2. bytes \in Nat /\ bytes \in {ledger[o].bytes} \cup Observed
  BY <1>1, LedgerAssumption
<1>3. CASE Fits(DOMAIN ledger \ {o}, bytes)
  <2>1. phase' = [phase EXCEPT ![o] = "live"] /\ ledger' = Entry(o, e)
    BY <1>3 DEF Commit
  <2>2. /\ e \in [requested : Nat, bytes : Nat, state : {"reserved", "committed"}]
        /\ e.bytes = bytes /\ e.requested = ledger[o].requested
    BY <1>1, <1>2
  <2>3. TypeOK' /\ Configured'
    BY <1>1, <2>1, <2>2 DEF LedgerInv, TypeOK, Configured, Phases, Entry, Commit
  <2>4. OwnerIsAccounted(o)'
    <3>1. EntryIsFair(o, e, config[o])
      BY <1>1, <1>2, <2>2 DEF EntryIsFair
    <3> HIDE DEF e
    <3>. QED
      BY <1>1, <2>1, <3>1 DEF LedgerInv, Configured, OwnerIsAccounted, EntryIsFair, Entry
  <2>5. ASSUME NEW x \in Owners, x # o
        PROVE  OwnerIsAccounted(x)'
    BY <1>1, <2>1, <2>5, OthersStay DEF LedgerInv, Configured, Entry
  <2>6. Affordable'
    <3>1. Accounted' = BytesOf(DOMAIN ledger \ {o}) + e.bytes
      <4> HIDE DEF e
      <4>. QED
        BY <1>2, <2>1, <2>2, EntryAdds DEF LedgerInv
    <3>. QED
      BY <1>3, <2>2, <3>1 DEF Affordable, Fits
  <2>. QED
    BY <2>3, <2>4, <2>5, <2>6, AccountedOneByOneNext DEF LedgerInv, TypeOK
<1>4. CASE ~Fits(DOMAIN ledger \ {o}, bytes)
  <2>1. phase' = [phase EXCEPT ![o] = "rejected"] /\ ledger' = ledger
    BY <1>4 DEF Commit
  <2>2. TypeOK' /\ Configured'
    BY <1>1, <2>1 DEF LedgerInv, TypeOK, Configured, Phases, Commit
  <2>3. OwnerIsAccounted(o)'
    BY <1>1, <2>1 DEF LedgerInv, Configured, OwnerIsAccounted, EntryIsFair
  <2>4. ASSUME NEW x \in Owners, x # o
        PROVE  OwnerIsAccounted(x)'
    BY <1>1, <2>1, <2>4, OthersStay DEF LedgerInv, Configured
  <2>5. Affordable'
    BY <2>1 DEF LedgerInv, Affordable, Accounted, BytesOf, Bytes
  <2>. QED
    BY <2>2, <2>3, <2>4, <2>5, AccountedOneByOneNext DEF LedgerInv, TypeOK
<1>. QED
  BY <1>3, <1>4

\* A release takes the entry of its owner out.
LEMMA ReleaseHolds ==
  ASSUME LedgerInv, NEW o \in Owners, Release(o)
  PROVE  LedgerInv'
<1>1. TypeOK' /\ Configured'
  BY DEF LedgerInv, TypeOK, Configured, Phases, Release, Without
<1>2. OwnerIsAccounted(o)'
  BY DEF LedgerInv, Configured, Release, Without, OwnerIsAccounted
<1>3. ASSUME NEW x \in Owners, x # o
      PROVE  OwnerIsAccounted(x)'
  BY <1>3, OthersStay DEF LedgerInv, Configured, Release, Without
<1>4. Affordable'
  <2>1. Accounted' \in Nat /\ Accounted \in Nat /\ Accounted' <= Accounted
    BY WithoutSubtracts DEF LedgerInv, Release
  <2>. QED
    BY <2>1, UsableIsNumber DEF LedgerInv, Affordable, Number
<1>. QED
  BY <1>1, <1>2, <1>3, <1>4, AccountedOneByOneNext DEF LedgerInv, TypeOK

\* The inductive invariant: types, the configuration of every owner that has begun,
\* its account, and the budget.
THEOREM InvariantHolds == Spec => []LedgerInv
<1>1. Init => LedgerInv
  BY InitHolds
<1>2. LedgerInv /\ [Next]_vars => LedgerInv'
  <2> SUFFICES ASSUME LedgerInv, [Next]_vars
               PROVE  LedgerInv'
    OBVIOUS
  <2>1. ASSUME NEW o \in Runtimes, NEW c \in RuntimeConfigs, Reserve(o, c)
        PROVE  LedgerInv'
    BY <2>1, ReserveHolds DEF ConfigsOf, Owners
  <2>2. ASSUME NEW o \in Requests, NEW c \in RequestConfigs, Reserve(o, c)
        PROVE  LedgerInv'
    BY <2>2, ReserveHolds, LedgerAssumption DEF ConfigsOf, Owners
  <2>3. ASSUME NEW o \in Owners, NEW b \in Observed \cup {Unknown}, Commit(o, b)
        PROVE  LedgerInv'
    BY <2>3, CommitHolds
  <2>4. ASSUME NEW o \in Owners, Release(o)
        PROVE  LedgerInv'
    BY <2>4, ReleaseHolds
  <2>5. CASE UNCHANGED vars
    BY <2>5 DEF vars, LedgerInv, TypeOK, Configured, OwnersAreAccounted, Affordable, Accounted,
      BytesOf, Bytes
  <2>. QED
    BY <2>1, <2>2, <2>3, <2>4, <2>5 DEF Next
<1>. QED
  BY <1>1, <1>2, PTL DEF Spec

\* An entry of the ledger has its type.
THEOREM TypeCorrect == Spec => []TypeOK
<1>1. LedgerInv => TypeOK
  BY DEF LedgerInv
<1>. QED
  BY <1>1, InvariantHolds, PTL

\* What residents and requests are accounted for stays within the usable budget
\* together, and what a snapshot shows adds up to it (resource_manager.py, reserve and
\* commit; resource_policy.py, resource_policy_snapshot).
THEOREM BudgetHolds == Spec => []WithinBudget
<1>1. LedgerInv => WithinBudget
  <2> SUFFICES ASSUME LedgerInv, Usable # Unknown
               PROVE  /\ Accounted <= Usable
                      /\ Snapshot.committed + Snapshot.reserved + Snapshot.remaining = Usable
    BY DEF WithinBudget
  <2> DEFINE C == InState("committed")
             R == InState("reserved")
  <2>1. C \cup R = DOMAIN ledger /\ C \cap R = {} /\ C \subseteq DOMAIN ledger /\ R \subseteq DOMAIN ledger
    BY DEF LedgerInv, TypeOK, InState
  <2>2. IsFiniteSet(C) /\ IsFiniteSet(R) /\ BytesOf(C) \in Nat /\ BytesOf(R) \in Nat
    BY <2>1, BytesAreNumbers DEF LedgerInv
  <2>3. Accounted = BytesOf(C) + BytesOf(R)
    <3>1. \A y \in C \cup R : Bytes[y] \in Nat
      BY <2>1, BytesAreNumbers DEF LedgerInv
    <3> HIDE DEF C, R
    <3>2. Total(Bytes, C \cup R) = Total(Bytes, C) + Total(Bytes, R)
      BY <2>1, <2>2, <3>1, TotalOfDisjoint
    <3>. QED
      BY <2>1, <3>2 DEF Accounted, BytesOf
  <2>4. Accounted <= Usable /\ Usable \in Nat
    BY UsableIsNumber DEF LedgerInv, Affordable, Number
  <2>. QED
    BY <2>2, <2>3, <2>4 DEF Snapshot
<1>. QED
  BY <1>1, InvariantHolds, PTL

\* Whoever uses memory under an estimate is in the ledger with what was estimated or
\* observed, and who is not is one of whom nothing is known (memory_envelope.py,
\* accounted_bytes; runtime.py, _reserve_runtime_load; transient_resource.py).
THEOREM OwnersAreInLedger == Spec => []OwnersAreAccounted
<1>1. LedgerInv => OwnersAreAccounted
  BY DEF LedgerInv
<1>. QED
  BY <1>1, InvariantHolds, PTL

-----------------------------------------------------------------------------
(* Behaviours of one component that keeps files.                             *)

\* A step of Stores is one of the component that the behaviour is of, or leaves that as it
\* is, and the behaviour stays of that component.
LEMMA SameStore ==
  ASSUME [KeptNext]_storesVars
  PROVE  /\ component' = component
         /\ component = "download" => [Download!Next]_(Download!vars)
         /\ component = "backup" => [Backup!Next]_(Backup!vars)
         /\ component = "evaluations" => [Evaluations!Next]_(Evaluations!vars)
         /\ component = "sources" => [Sources!Next]_(Sources!vars)
         /\ component = "campaign" => [Campaign!Next]_(Campaign!vars)
         /\ component = "multimodel" => [MultiModel!Next]_(MultiModel!vars)
<1>1. CASE KeptNext
  BY <1>1 DEF KeptNext
<1>2. CASE UNCHANGED storesVars
  BY <1>2 DEF storesVars, downloadVars, backupVars, evaluationVars, sourceVars, campaignVars,
              multiModelVars, Download!vars, Backup!vars, Evaluations!vars, Sources!vars,
              Campaign!vars, MultiModel!vars
<1> QED
  BY <1>1, <1>2

-----------------------------------------------------------------------------
(* ArtifactDownload: what is published is whole, what is vouched for is so.    *)

\* Any number of processes may download, of any revisions, and whatever the server answers;
\* what they find already there, and where they are interrupted, is free.
DownloadAssumption == IsFiniteSet(Downloaders) /\ Size \in Nat \ {0}

Files == Download!Inodes \cup {Download!NoFile}
Blocks == (Revisions \cup {"hole"}) \X Nat
Doubtful == {"crossed", "unranged", "mixed", "unsized", "edited"}
DownloadPcs == {"idle", "stat", "request", "read", "check", "rename", "verify", "present"}
DownloadCalls == [pc : DownloadPcs, attempt : Nat, resume : Nat, file : Files, at : Nat,
                  body : Seq(Blocks), total : Nat]

DownloadType ==
    /\ content \in [Download!Inodes -> Seq(Blocks)]
    /\ doubts \in [Download!Inodes -> SUBSET Doubtful]
    /\ part \in Files /\ dest \in Files
    /\ proc \in [Downloaders -> DownloadCalls]
    /\ hashing \in [blocks : Seq(Blocks), file : Files, changed : BOOLEAN]
    /\ receipt \in [blocks : Seq(Blocks), file : Files, fresh : BOOLEAN, overtaken : BOOLEAN]

\* What was written to file i is what was asked for, whatever revisions that is of.
Sound(i) == doubts[i] \subseteq {"mixed"}

InPlace(s) == Len(s) <= Size /\ \A k \in 1..Len(s) : s[k][1] \in Revisions /\ s[k][2] = k
OneRevision(s) == \A k, l \in 1..Len(s) : s[k][1] = s[l][1]

Reads(d, i) == proc[d].pc = "read" /\ proc[d].file = i
Renames(d, i) == proc[d].pc = "rename" /\ proc[d].file = i

\* What call d reads is what file i lacks, and it writes that behind what is there.
Completes(d, i) ==
    /\ Len(content[i]) + Len(proc[d].body) = Size
    /\ InPlace(content[i] \o proc[d].body)
    /\ doubts[i] = {} => OneRevision(content[i] \o proc[d].body)
    /\ proc[d].at \in {0, Len(content[i]) + 1}

\* A sound file is a beginning of the file, which one process at most continues.  Whoever
\* has compared its size has found it whole, and so it is once it bears the name.
FileIsSound(i) ==
    Sound(i) =>
        /\ InPlace(content[i]) /\ (doubts[i] = {} => OneRevision(content[i]))
        /\ \A d \in Downloaders : Reads(d, i) =>
              Completes(d, i) /\ \A e \in Downloaders : Reads(e, i) => e = d
        /\ \A d \in Downloaders :
              Renames(d, i) /\ proc[d].total >= Size => Len(content[i]) = Size
        /\ dest = i => Len(content[i]) = Size

\* A digest is of the blocks that the file holds until it is written again.
DigestIsTrue ==
    /\ hashing.file # Download!NoFile /\ ~hashing.changed =>
          hashing.blocks = content[hashing.file]
    /\ receipt.file # Download!NoFile /\ receipt.fresh /\ ~receipt.overtaken =>
          receipt.blocks = content[receipt.file]

DownloadInv ==
    /\ DownloadType /\ DigestIsTrue
    /\ part # Download!NoFile => part # dest
    /\ \A i \in Download!Inodes : FileIsSound(i)

\* There are four files more than processes, and none of them is NoFile.
LEMMA EnoughInodes ==
  ASSUME DownloadAssumption
  PROVE  /\ Cardinality(Downloaders) \in Nat /\ Download!NoFile \notin Download!Inodes
         /\ Download!Inodes = 1..(Cardinality(Downloaders) + 4)
<1>1. \A S : Download!Cardinality(S) = Cardinality(S)
  BY DEF Download!Cardinality, Cardinality
<1>2. Cardinality(Downloaders) \in Nat
  BY FS_CardinalityType DEF DownloadAssumption
<1> QED
  BY <1>1, <1>2 DEF Download!Inodes, Download!NoFile

\* A new file is none of those that anybody has in hand.
LEMMA FreshIsFree ==
  ASSUME DownloadAssumption, DownloadType
  PROVE  /\ Download!Fresh \in Download!Inodes
         /\ Download!Fresh \notin Download!InHand \cup {part, dest, receipt.file}
<1> DEFINE held == [d \in Downloaders |-> proc[d].file]
<1>1. held \in Surjection(Downloaders, Download!InHand)
  BY DEF Surjection, Download!InHand
<1>2. IsFiniteSet(Download!InHand) /\ Cardinality(Download!InHand) <= Cardinality(Downloaders)
  <2> HIDE DEF held
  <2> QED
    BY <1>1, FS_Surjection DEF DownloadAssumption
<1> DEFINE known == ((Download!InHand \cup {part}) \cup {dest}) \cup {receipt.file}
<1>3. IsFiniteSet(known) /\ Cardinality(known) <= Cardinality(Downloaders) + 3
  <2>1. ASSUME NEW S, NEW x, IsFiniteSet(S)
        PROVE  IsFiniteSet(S \cup {x}) /\ Cardinality(S \cup {x}) <= Cardinality(S) + 1
    <3>1. Cardinality(S) \in Nat
      BY <2>1, FS_CardinalityType
    <3>2. /\ IsFiniteSet(S \cup {x})
          /\ Cardinality(S \cup {x}) = IF x \in S THEN Cardinality(S) ELSE Cardinality(S) + 1
      BY <2>1, FS_AddElement
    <3> QED
      BY <3>1, <3>2
  <2>2. /\ IsFiniteSet(Download!InHand \cup {part})
        /\ Cardinality(Download!InHand \cup {part}) <= Cardinality(Download!InHand) + 1
    BY <1>2, <2>1
  <2>3. /\ IsFiniteSet((Download!InHand \cup {part}) \cup {dest})
        /\ Cardinality((Download!InHand \cup {part}) \cup {dest})
              <= Cardinality(Download!InHand \cup {part}) + 1
    BY <2>1, <2>2
  <2>5. /\ IsFiniteSet(known)
        /\ Cardinality(known) <= Cardinality((Download!InHand \cup {part}) \cup {dest}) + 1
    BY <2>1, <2>3
  <2>4. /\ Cardinality(Download!InHand) \in Nat /\ Cardinality(known) \in Nat
        /\ Cardinality(Download!InHand \cup {part}) \in Nat
        /\ Cardinality((Download!InHand \cup {part}) \cup {dest}) \in Nat
        /\ Cardinality(Downloaders) \in Nat
    BY <1>2, <2>2, <2>3, <2>5, FS_CardinalityType DEF DownloadAssumption
  <2> HIDE DEF known
  <2> QED
    BY <1>2, <2>2, <2>3, <2>4, <2>5
<1>4. \E i \in Download!Inodes : i \notin known
  <2> SUFFICES ASSUME Download!Inodes \in SUBSET known PROVE FALSE
    OBVIOUS
  <2>1. Cardinality(Download!Inodes) <= Cardinality(known)
    BY <1>3, FS_Subset
  <2>2. Cardinality(Download!Inodes) = Cardinality(Downloaders) + 4
    BY EnoughInodes, FS_Interval
  <2>3. Cardinality(known) \in Nat /\ Cardinality(Downloaders) \in Nat
    BY <1>3, FS_CardinalityType, EnoughInodes
  <2> HIDE DEF known
  <2> QED
    BY <1>3, <2>1, <2>2, <2>3
<1>5. known = Download!InHand \cup {part, dest, receipt.file}
  OBVIOUS
<1> HIDE DEF known
<1>6. (CHOOSE i \in Download!Inodes : i \notin known) \in Download!Inodes \ known
  BY <1>4
<1> QED
  BY <1>5, <1>6 DEF Download!Fresh

\* Whether a file is sound is not changed by steps that leave it alone, and whose calls,
\* if they have it in hand afterwards, had it before.
LEMMA SoundStays ==
  ASSUME NEW i \in Download!Inodes, FileIsSound(i),
         content'[i] = content[i], doubts[i] \subseteq doubts'[i], dest' = i => dest = i,
         \A d \in Downloaders :
            proc'[d] = proc[d] \/ proc'[d].pc \notin {"read", "rename"} \/ proc'[d].file # i
  PROVE  FileIsSound(i)'
<1> SUFFICES ASSUME Sound(i)'
             PROVE  /\ InPlace(content[i])' /\ (doubts'[i] = {} => OneRevision(content[i])')
                    /\ \A d \in Downloaders : Reads(d, i)' =>
                          Completes(d, i)' /\ \A e \in Downloaders : Reads(e, i)' => e = d
                    /\ \A d \in Downloaders :
                          Renames(d, i)' /\ proc'[d].total >= Size => Len(content'[i]) = Size
                    /\ dest' = i => Len(content'[i]) = Size
  BY DEF FileIsSound
<1>1. Sound(i) /\ (doubts'[i] = {} => doubts[i] = {})
  BY DEF Sound
<1>2. \A d \in Downloaders : (Reads(d, i)' => Reads(d, i) /\ proc'[d] = proc[d])
                             /\ (Renames(d, i)' => Renames(d, i) /\ proc'[d] = proc[d])
  BY DEF Reads, Renames
<1>3. InPlace(content[i])' /\ (doubts'[i] = {} => OneRevision(content[i])')
  BY <1>1 DEF FileIsSound, InPlace, OneRevision
<1>4. ASSUME NEW d \in Downloaders, Reads(d, i)'
      PROVE  Completes(d, i)' /\ \A e \in Downloaders : Reads(e, i)' => e = d
  <2>1. Completes(d, i) /\ \A e \in Downloaders : Reads(e, i) => e = d
    BY <1>1, <1>2, <1>4 DEF FileIsSound
  <2> QED
    BY <1>1, <1>2, <1>4, <2>1 DEF Completes, InPlace, OneRevision
<1>5. \A d \in Downloaders :
         Renames(d, i)' /\ proc'[d].total >= Size => Len(content'[i]) = Size
  BY <1>1, <1>2 DEF FileIsSound
<1>6. dest' = i => Len(content'[i]) = Size
  BY <1>1 DEF FileIsSound
<1> QED
  BY <1>3, <1>4, <1>5, <1>6

\* Who writes a file gives it another stamp, so that digests of it are no longer vouched for.
LEMMA DigestsStay ==
  ASSUME DownloadType, DigestIsTrue, NEW f, Download!Stamped(f),
         \A i \in Download!Inodes : i # f => content'[i] = content[i]
  PROVE  /\ DigestIsTrue'
         /\ hashing' \in [blocks : Seq(Blocks), file : Files, changed : BOOLEAN]
         /\ receipt' \in [blocks : Seq(Blocks), file : Files, fresh : BOOLEAN,
                          overtaken : BOOLEAN]
<1>1. /\ hashing' \in [blocks : Seq(Blocks), file : Files, changed : BOOLEAN]
      /\ hashing'.file = hashing.file /\ hashing'.blocks = hashing.blocks
      /\ ~hashing'.changed => ~hashing.changed /\ hashing.file # f
  BY DEF DownloadType, Download!Stamped
<1>2. /\ receipt' \in [blocks : Seq(Blocks), file : Files, fresh : BOOLEAN,
                       overtaken : BOOLEAN]
      /\ receipt'.file = receipt.file /\ receipt'.blocks = receipt.blocks
      /\ receipt'.overtaken = receipt.overtaken
      /\ receipt'.fresh => receipt.fresh /\ receipt.file # f
  BY DEF DownloadType, Download!Stamped
<1>3. hashing.file \in Files /\ receipt.file \in Files
  BY DEF DownloadType
<1> QED
  BY <1>1, <1>2, <1>3 DEF DigestIsTrue, Files

\* A step that writes no file and leaves no call a file in hand keeps the invariant.
LEMMA OnlyTheCall ==
  ASSUME DownloadAssumption, DownloadInv, NEW d \in Downloaders, NEW x \in DownloadCalls,
         proc' = [proc EXCEPT ![d] = x], x.pc \notin {"read", "rename"},
         UNCHANGED <<content, part, dest, edits, hashing, receipt, doubts>>
  PROVE  DownloadInv'
<1>1. /\ proc' \in [Downloaders -> DownloadCalls] /\ proc'[d] = x
      /\ \A e \in Downloaders : e # d => proc'[e] = proc[e]
  BY DEF DownloadInv, DownloadType
<1>2. DownloadType' /\ DigestIsTrue'
  BY <1>1 DEF DownloadInv, DownloadType, DigestIsTrue
<1>3. ASSUME NEW i \in Download!Inodes PROVE FileIsSound(i)'
  <2>1. FileIsSound(i)
    BY DEF DownloadInv
  <2> QED
    BY <1>1, <2>1, SoundStays
<1> QED
  BY <1>2, <1>3 DEF DownloadInv, Download!Inodes

\* A call whose fields are of their kind is one.
LEMMA CallIsTyped ==
  ASSUME NEW p \in DownloadPcs, NEW a \in Nat, NEW n \in Nat, NEW f \in Files,
         NEW m \in Nat, NEW b \in Seq(Blocks), NEW t \in Nat
  PROVE  [pc |-> p, attempt |-> a, resume |-> n, file |-> f, at |-> m, body |-> b,
          total |-> t] \in DownloadCalls
BY DEF DownloadCalls

\* A call that ends has no file in hand.
LEMMA IdleFits ==
  /\ Download!Idle \in DownloadCalls /\ Download!Idle.pc = "idle"
  /\ <<>> \in Seq(Blocks) /\ Download!NoFile \in Files
<1>1. <<>> \in Seq(Blocks) /\ Download!NoFile \in Files
  BY EmptySeq DEF Files
<1>2. PICK p \in DownloadPcs : p = "idle"
  BY DEF DownloadPcs
<1>3. [pc |-> p, attempt |-> 0, resume |-> 0, file |-> Download!NoFile, at |-> 0,
       body |-> <<>>, total |-> 0] \in DownloadCalls
  BY <1>1, CallIsTyped
<1> QED
  BY <1>1, <1>2, <1>3 DEF Download!Idle

\* A call that starts or tries again has none either.
LEMMA StartFits ==
  ASSUME NEW n \in Nat, NEW x, x = [Download!Idle EXCEPT !.pc = "stat", !.attempt = n]
  PROVE  x \in DownloadCalls /\ x.pc = "stat"
<1>1. Download!Idle = [pc |-> "idle", attempt |-> 0, resume |-> 0, file |-> Download!NoFile,
                       at |-> 0, body |-> <<>>, total |-> 0]
  BY DEF Download!Idle
<1>2. PICK y : y = [Download!Idle EXCEPT !.pc = "stat"]
  OBVIOUS
<1>3. y = [pc |-> "stat", attempt |-> 0, resume |-> 0, file |-> Download!NoFile,
           at |-> 0, body |-> <<>>, total |-> 0]
  BY <1>1, <1>2
<1>4. x = [y EXCEPT !.attempt = n]
  BY <1>2
<1>5. x = [pc |-> "stat", attempt |-> n, resume |-> 0, file |-> Download!NoFile,
           at |-> 0, body |-> <<>>, total |-> 0]
  BY <1>3, <1>4
<1>6. PICK p \in DownloadPcs : p = "stat"
  BY DEF DownloadPcs
<1>7. [pc |-> p, attempt |-> n, resume |-> 0, file |-> Download!NoFile, at |-> 0,
       body |-> <<>>, total |-> 0] \in DownloadCalls
  BY IdleFits, CallIsTyped
<1> QED
  BY <1>5, <1>6, <1>7

\* A call that finds the file there has none in hand.
LEMMA PresentFits ==
  ASSUME NEW x, x = [Download!Idle EXCEPT !.pc = "present"]
  PROVE  x \in DownloadCalls /\ x.pc = "present"
<1>1. x = [pc |-> "present", attempt |-> 0, resume |-> 0, file |-> Download!NoFile,
           at |-> 0, body |-> <<>>, total |-> 0]
  BY DEF Download!Idle
<1>2. PICK p \in DownloadPcs : p = "present"
  BY DEF DownloadPcs
<1>3. [pc |-> p, attempt |-> 0, resume |-> 0, file |-> Download!NoFile, at |-> 0,
       body |-> <<>>, total |-> 0] \in DownloadCalls
  BY IdleFits, CallIsTyped
<1> QED
  BY <1>1, <1>2, <1>3

\* An attempt that failed is repeated, or ends the call.
LEMMA FailedFits ==
  ASSUME DownloadType, NEW d \in Downloaders
  PROVE  Download!Failed(d) \in DownloadCalls /\ Download!Failed(d).pc \in {"idle", "stat"}
<1>1. CASE proc[d].attempt = MaxRetries
  BY <1>1, IdleFits DEF Download!Failed
<1>2. CASE proc[d].attempt # MaxRetries
  <2>1. PICK n \in Nat : n = proc[d].attempt + 1
    BY DEF DownloadType, DownloadCalls
  <2>2. PICK x : x = [Download!Idle EXCEPT !.pc = "stat", !.attempt = n]
    OBVIOUS
  <2>3. Download!Failed(d) = x
    BY <1>2, <2>1, <2>2 DEF Download!Failed
  <2>4. x \in DownloadCalls /\ x.pc = "stat"
    BY <2>2, StartFits
  <2> QED
    BY <2>3, <2>4
<1> QED
  BY <1>1, <1>2

\* Steps of a call that touch no file.
LEMMA CallsKeepFiles ==
  ASSUME DownloadAssumption, DownloadInv, NEW d \in Downloaders,
         \/ Download!Call(d) \/ Download!CheckPresent(d) \/ Download!StatPart(d)
         \/ Download!RequestFails(d) \/ Download!BodyEnds(d) \/ Download!ReadFails(d)
         \/ Download!Verify(d) \/ Download!Crash(d)
         \/ Download!CompareSize(d) /\ ~Download!Complete(d)
  PROVE  DownloadInv'
<1>1. UNCHANGED <<content, part, dest, edits, hashing, receipt, doubts>>
  BY DEF Download!Call, Download!CheckPresent, Download!StatPart, Download!RequestFails,
         Download!BodyEnds, Download!ReadFails, Download!Verify, Download!Crash,
         Download!CompareSize, Download!Unwritten
<1>t. DownloadType
  BY DEF DownloadInv
<1>c. PICK c \in DownloadCalls : c = proc[d]
  BY <1>t DEF DownloadType
<1>d. /\ c = [pc |-> c.pc, attempt |-> c.attempt, resume |-> c.resume, file |-> c.file,
              at |-> c.at, body |-> c.body, total |-> c.total]
      /\ c.attempt \in Nat /\ c.resume \in Nat /\ c.file \in Files /\ c.at \in Nat
      /\ c.body \in Seq(Blocks) /\ c.total \in Nat
  BY DEF DownloadCalls
<1>2. PICK x \in DownloadCalls :
         proc' = [proc EXCEPT ![d] = x] /\ x.pc \notin {"read", "rename"}
  <2>1. CASE Download!Call(d)
    <3>1. CASE dest = Download!NoFile
      <4>1. PICK x : x = [Download!Idle EXCEPT !.pc = "stat", !.attempt = 1]
        OBVIOUS
      <4>2. proc' = [proc EXCEPT ![d] = x]
        BY <2>1, <3>1, <4>1 DEF Download!Call
      <4>3. x \in DownloadCalls /\ x.pc = "stat"
        BY <4>1, StartFits
      <4> QED
        BY <4>2, <4>3
    <3>2. CASE dest # Download!NoFile /\ VerifyExisting /\ Pinned # NoDigest
      <4>1. PICK x : x = [Download!Idle EXCEPT !.pc = "present"]
        OBVIOUS
      <4>2. proc' = [proc EXCEPT ![d] = x]
        BY <2>1, <3>2, <4>1 DEF Download!Call
      <4>3. x \in DownloadCalls /\ x.pc = "present"
        BY <4>1, PresentFits
      <4> QED
        BY <4>2, <4>3
    <3>3. CASE dest # Download!NoFile /\ ~(VerifyExisting /\ Pinned # NoDigest)
      BY <2>1, <3>3, IdleFits DEF Download!Call
    <3> QED
      BY <3>1, <3>2, <3>3
  <2>2. CASE Download!CheckPresent(d) \/ Download!Crash(d)
    BY <2>2, IdleFits DEF Download!CheckPresent, Download!Crash
  <2>3. CASE Download!RequestFails(d) \/ Download!ReadFails(d)
    BY <1>t, <2>3, FailedFits DEF Download!RequestFails, Download!ReadFails
  <2>4. CASE Download!Verify(d)
    BY <1>t, <2>4, FailedFits, IdleFits DEF Download!Verify
  <2>5. CASE Download!CompareSize(d) /\ ~Download!Complete(d)
    BY <1>t, <2>5, FailedFits DEF Download!CompareSize
  <2>6. CASE Download!StatPart(d)
    <3>1. (IF part = Download!NoFile THEN 0 ELSE Len(content[part])) \in Nat
      <4>1. CASE part # Download!NoFile
        <5>1. content[part] \in Seq(Blocks)
          BY <1>t, <4>1 DEF DownloadType, Files
        <5> QED
          BY <4>1, <5>1
      <4> QED
        BY <4>1
    <3>2. PICK n \in Nat : n = IF part = Download!NoFile THEN 0 ELSE Len(content[part])
      BY <3>1
    <3>3. PICK y : y = [c EXCEPT !.pc = "request"]
      OBVIOUS
    <3>4. PICK x : x = [y EXCEPT !.resume = n]
      OBVIOUS
    <3>5. x \in DownloadCalls /\ x.pc = "request"
      <4>1. y = [pc |-> "request", attempt |-> c.attempt, resume |-> c.resume, file |-> c.file,
                 at |-> c.at, body |-> c.body, total |-> c.total]
        BY <1>d, <3>3
      <4>2. x = [pc |-> "request", attempt |-> c.attempt, resume |-> n, file |-> c.file,
                 at |-> c.at, body |-> c.body, total |-> c.total]
        BY <3>4, <4>1
      <4>3. "request" \in DownloadPcs
        BY DEF DownloadPcs
      <4> QED
        BY <1>d, <4>2, <4>3, CallIsTyped
    <3>6. proc' = [proc EXCEPT ![d] = x]
      BY <1>t, <1>c, <2>6, <3>2, <3>3, <3>4 DEF Download!StatPart, DownloadType
    <3> QED
      BY <3>5, <3>6
  <2>7. CASE Download!BodyEnds(d)
    <3>1. PICK y : y = [c EXCEPT !.pc = "check"]
      OBVIOUS
    <3>2. PICK z : z = [y EXCEPT !.file = Download!NoFile]
      OBVIOUS
    <3>3. PICK w : w = [z EXCEPT !.body = <<>>]
      OBVIOUS
    <3>4. PICK x : x = [w EXCEPT !.at = 0]
      OBVIOUS
    <3>5. x \in DownloadCalls /\ x.pc = "check"
      <4>1. y = [pc |-> "check", attempt |-> c.attempt, resume |-> c.resume, file |-> c.file,
                 at |-> c.at, body |-> c.body, total |-> c.total]
        BY <1>d, <3>1
      <4>2. z = [pc |-> "check", attempt |-> c.attempt, resume |-> c.resume,
                 file |-> Download!NoFile, at |-> c.at, body |-> c.body, total |-> c.total]
        BY <3>2, <4>1
      <4>3. w = [pc |-> "check", attempt |-> c.attempt, resume |-> c.resume,
                 file |-> Download!NoFile, at |-> c.at, body |-> <<>>, total |-> c.total]
        BY <3>3, <4>2
      <4>4. x = [pc |-> "check", attempt |-> c.attempt, resume |-> c.resume,
                 file |-> Download!NoFile, at |-> 0, body |-> <<>>, total |-> c.total]
        BY <3>4, <4>3
      <4>5. "check" \in DownloadPcs
        BY DEF DownloadPcs
      <4> QED
        BY <1>d, <4>4, <4>5, IdleFits, CallIsTyped
    <3>6. proc' = [proc EXCEPT ![d] = x]
      BY <1>t, <1>c, <2>7, <3>1, <3>2, <3>3, <3>4 DEF Download!BodyEnds, DownloadType
    <3> QED
      BY <3>5, <3>6
  <2> QED
    BY <2>1, <2>2, <2>3, <2>4, <2>5, <2>6, <2>7
<1> QED
  BY <1>1, <1>2, OnlyTheCall

\* The answer to a request that was understood is what follows the part that is there.
LEMMA BodyFollows ==
  ASSUME DownloadAssumption, NEW r \in Revisions, NEW n \in Nat,
         NEW body \in Download!Bodies(r, n)
  PROVE  /\ body \in Seq(Blocks) /\ Len(body) \in Nat
         /\ Len(body) = Size - n => \A k \in 1..Len(body) : body[k] = <<r, n + k>>
<1>0. /\ Size \in Nat \ {0} /\ Download!Whole(r) \in Seq(Blocks)
      /\ Len(Download!Whole(r)) = Size
      /\ \A k \in 1..Size : Download!Whole(r)[k] = <<r, k>>
  <2>1. Size \in Nat \ {0} /\ Download!Whole(r) = [i \in 1..Size |-> <<r, i>>]
    BY DEF DownloadAssumption, Download!Whole
  <2>2. Download!Whole(r) \in Seq(Blocks) /\ Len(Download!Whole(r)) = Size
    BY <2>1 DEF Blocks
  <2> QED
    BY <2>1, <2>2
<1>1. CASE body = Download!Whole(r)
  <2>1. Len(body) = Size - n => n = 0
    BY <1>0, <1>1
  <2>2. \A k \in 1..Size : <<r, 0 + k>> = <<r, k>>
    BY <1>0
  <2> QED
    BY <1>0, <1>1, <2>1, <2>2
<1>2. CASE n < Size /\ body = SubSeq(Download!Whole(r), n + 1, Size)
  <2>0. PICK w \in Seq(Blocks) : w = Download!Whole(r)
    BY <1>0
  <2>1. \A i \in (n + 1)..Size : w[i] \in Blocks
    BY <1>0, <2>0
  <2>2. /\ SubSeq(w, n + 1, Size) \in Seq(Blocks)
        /\ Len(SubSeq(w, n + 1, Size)) = Size - (n + 1) + 1
        /\ \A k \in 1..(Size - (n + 1) + 1) : SubSeq(w, n + 1, Size)[k] = w[(n + 1) + k - 1]
    BY <1>0, <1>2, <2>1, SubSeqProperties
  <2>3. /\ body \in Seq(Blocks) /\ Len(body) = Size - n
        /\ \A k \in 1..(Size - n) : body[k] = w[n + k]
    BY <1>0, <1>2, <2>0, <2>2
  <2>4. \A k \in 1..(Size - n) : w[n + k] = <<r, n + k>>
    BY <1>0, <1>2, <2>0
  <2> QED
    BY <1>0, <1>2, <2>3, <2>4
<1> QED
  BY <1>1, <1>2 DEF Download!Bodies


\* The response opens a file that is as long as what was asked for begins, or is not sound.
LEMMA RespondFits ==
  ASSUME DownloadAssumption, DownloadInv, NEW d \in Downloaders, Download!Respond(d)
  PROVE  DownloadInv'
<1>t. DownloadType
  BY DEF DownloadInv
<1>c. PICK c \in DownloadCalls : c = proc[d]
  BY <1>t DEF DownloadType
<1>d. /\ c = [pc |-> c.pc, attempt |-> c.attempt, resume |-> c.resume, file |-> c.file,
              at |-> c.at, body |-> c.body, total |-> c.total]
      /\ c.attempt \in Nat /\ c.resume \in Nat
  BY DEF DownloadCalls
<1> DEFINE n == c.resume
           append == n > 0
           keeps == append /\ part # Download!NoFile
<1>f. PICK f : f = IF part = Download!NoFile THEN Download!Fresh ELSE part
  OBVIOUS
<1>b. PICK base : base = IF keeps THEN content[f] ELSE <<>>
  OBVIOUS
<1>1. PICK r, body, reported :
         /\ r \in Revisions /\ body \in Download!Bodies(r, n) /\ reported \in {0, Len(body)}
         /\ part' = f
         /\ content' = [content EXCEPT ![f] = base]
         /\ doubts' = [doubts EXCEPT ![f] = (IF keeps THEN @ ELSE {})
                                            \cup Download!DoubtsOf(d, f, base, r, body)]
         /\ Download!Stamped(f)
         /\ proc' = [proc EXCEPT ![d] =
               [c EXCEPT !.pc = "read", !.file = f, !.at = IF append THEN 0 ELSE 1,
                         !.body = body, !.total = reported + n]]
         /\ UNCHANGED <<dest, tries, edits>>
  BY <1>c, <1>f, <1>b DEF Download!Respond
<1>2. /\ body \in Seq(Blocks) /\ Len(body) \in Nat /\ n \in Nat
      /\ Len(body) = Size - n => \A k \in 1..Len(body) : body[k] = <<r, n + k>>
  BY <1>1, <1>d, BodyFollows
<1>3. /\ f \in Download!Inodes /\ f # Download!NoFile /\ f # dest
      /\ f \in Files
  <2>1. CASE part = Download!NoFile
    BY <1>t, <1>f, <2>1, FreshIsFree, EnoughInodes DEF Files
  <2>2. CASE part # Download!NoFile
    BY <1>t, <1>f, <2>2, EnoughInodes DEF Files, DownloadType, DownloadInv
  <2> QED
    BY <2>1, <2>2
<1>4. base \in Seq(Blocks) /\ Len(base) \in Nat
  <2>1. content[f] \in Seq(Blocks) /\ <<>> \in Seq(Blocks)
    BY <1>t, <1>3, EmptySeq DEF DownloadType
  <2> QED
    BY <1>b, <2>1
<1>5. PICK x \in DownloadCalls :
         /\ proc' = [proc EXCEPT ![d] = x]
         /\ x.pc = "read" /\ x.file = f /\ x.body = body
         /\ x.at = (IF append THEN 0 ELSE 1)
  <2>1. PICK m \in Nat : m = IF append THEN 0 ELSE 1
    OBVIOUS
  <2>2. PICK t \in Nat : t = reported + n
    BY <1>1, <1>2
  <2>3. PICK y : y = [c EXCEPT !.pc = "read"]
    OBVIOUS
  <2>4. PICK z : z = [y EXCEPT !.file = f]
    OBVIOUS
  <2>5. PICK w : w = [z EXCEPT !.at = m]
    OBVIOUS
  <2>6. PICK v : v = [w EXCEPT !.body = body]
    OBVIOUS
  <2>7. PICK x : x = [v EXCEPT !.total = t]
    OBVIOUS
  <2>8. x = [pc |-> "read", attempt |-> c.attempt, resume |-> c.resume, file |-> f,
             at |-> m, body |-> body, total |-> t]
    <3>1. y = [pc |-> "read", attempt |-> c.attempt, resume |-> c.resume, file |-> c.file,
               at |-> c.at, body |-> c.body, total |-> c.total]
      BY <1>d, <2>3
    <3>2. z = [pc |-> "read", attempt |-> c.attempt, resume |-> c.resume, file |-> f,
               at |-> c.at, body |-> c.body, total |-> c.total]
      BY <2>4, <3>1
    <3>3. w = [pc |-> "read", attempt |-> c.attempt, resume |-> c.resume, file |-> f,
               at |-> m, body |-> c.body, total |-> c.total]
      BY <2>5, <3>2
    <3>4. v = [pc |-> "read", attempt |-> c.attempt, resume |-> c.resume, file |-> f,
               at |-> m, body |-> body, total |-> c.total]
      BY <2>6, <3>3
    <3> QED
      BY <2>7, <3>4
  <2>9. proc' = [proc EXCEPT ![d] = x]
    BY <1>1, <2>1, <2>2, <2>3, <2>4, <2>5, <2>6, <2>7
  <2>10. x \in DownloadCalls
    <3>1. PICK p \in DownloadPcs : p = "read"
      BY DEF DownloadPcs
    <3>2. [pc |-> p, attempt |-> c.attempt, resume |-> c.resume, file |-> f,
           at |-> m, body |-> body, total |-> t] \in DownloadCalls
      BY <1>d, <1>2, <1>3, CallIsTyped
    <3> QED
      BY <2>8, <3>1, <3>2
  <2>11. /\ x.pc = "read" /\ x.file = f /\ x.body = body /\ x.at = m
    BY <2>8
  <2> QED
    BY <2>1, <2>9, <2>10, <2>11
<1>6. /\ proc' \in [Downloaders -> DownloadCalls] /\ proc'[d] = x
      /\ \A e \in Downloaders : e # d => proc'[e] = proc[e]
  BY <1>t, <1>5 DEF DownloadType
<1>g. PICK doubtful : doubtful = Download!DoubtsOf(d, f, base, r, body)
  OBVIOUS
<1>h. PICK old : old = IF keeps THEN doubts[f] ELSE {}
  OBVIOUS
<1>7. /\ content' \in [Download!Inodes -> Seq(Blocks)] /\ content'[f] = base
      /\ \A i \in Download!Inodes : i # f => content'[i] = content[i] /\ doubts'[i] = doubts[i]
      /\ doubts' = [doubts EXCEPT ![f] = old \cup doubtful]
      /\ doubts'[f] = old \cup doubtful
  BY <1>t, <1>1, <1>3, <1>4, <1>g, <1>h DEF DownloadType
<1>8. doubts' \in [Download!Inodes -> SUBSET Doubtful]
  <2>1. doubtful \in SUBSET Doubtful
    BY <1>g DEF Download!DoubtsOf, Doubtful
  <2>2. old \in SUBSET Doubtful
    BY <1>t, <1>3, <1>h DEF DownloadType
  <2> QED
    BY <1>t, <1>3, <1>7, <2>1, <2>2 DEF DownloadType
<1>9. DownloadType' /\ DigestIsTrue'
  <2>1. /\ DigestIsTrue'
        /\ hashing' \in [blocks : Seq(Blocks), file : Files, changed : BOOLEAN]
        /\ receipt' \in [blocks : Seq(Blocks), file : Files, fresh : BOOLEAN,
                         overtaken : BOOLEAN]
    BY <1>t, <1>1, <1>7, DigestsStay DEF DownloadInv
  <2> QED
    BY <1>t, <1>1, <1>3, <1>6, <1>7, <1>8, <2>1 DEF DownloadType, Files, Download!Inodes
<1>10. ASSUME NEW i \in Download!Inodes, i # f PROVE FileIsSound(i)'
  <2>1. FileIsSound(i)
    BY DEF DownloadInv
  <2>2. \A e \in Downloaders :
           proc'[e] = proc[e] \/ proc'[e].pc \notin {"read", "rename"} \/ proc'[e].file # i
    BY <1>5, <1>6, <1>10
  <2> QED
    BY <1>1, <1>7, <1>10, <2>1, <2>2, SoundStays
<1>11. FileIsSound(f)'
  <2> SUFFICES ASSUME Sound(f)' PROVE FileIsSound(f)'
    BY DEF FileIsSound
  <2>1. /\ doubtful \subseteq {"mixed"} /\ (keeps => Sound(f))
        /\ doubts'[f] = {} => doubtful = {} /\ (keeps => doubts[f] = {})
    <3>1. old \cup doubtful \subseteq {"mixed"}
      BY <1>7 DEF Sound
    <3> QED
      BY <1>7, <1>h, <3>1 DEF Sound
  <2>2. n = Len(base) /\ f \notin Download!InHand
    <3>1. "crossed" \notin doubtful
      BY <2>1
    <3> QED
      BY <1>c, <1>g, <3>1 DEF Download!DoubtsOf
  <2>3. Len(body) = Size - n
    <3>1. "unranged" \notin doubtful
      BY <2>1
    <3> QED
      BY <1>c, <1>g, <3>1 DEF Download!DoubtsOf
  <2>4. doubts'[f] = {} => \A k \in 1..Len(base) : base[k][1] = r
    <3>1. doubts'[f] = {} => "mixed" \notin doubtful
      BY <2>1
    <3> QED
      BY <1>g, <3>1 DEF Download!DoubtsOf
  <2>5. \A e \in Downloaders :
           (Reads(e, f)' => e = d) /\ ~Renames(e, f)'
    <3> SUFFICES ASSUME NEW e \in Downloaders
                 PROVE  (Reads(e, f)' => e = d) /\ ~Renames(e, f)'
      OBVIOUS
    <3>1. CASE e = d
      BY <1>5, <1>6, <3>1 DEF Reads, Renames
    <3>2. CASE e # d
      <4>1. proc'[e] = proc[e] /\ proc[e].file \in Download!InHand
        BY <1>6, <3>2 DEF Download!InHand
      <4> QED
        BY <2>2, <4>1 DEF Reads, Renames
    <3> QED
      BY <3>1, <3>2
  <2>6. InPlace(base)
    <3>1. CASE keeps
      BY <1>3, <1>b, <2>1, <3>1 DEF DownloadInv, FileIsSound
    <3>2. CASE ~keeps
      BY <1>b, <3>2 DEF InPlace, DownloadAssumption
    <3> QED
      BY <3>1, <3>2
  <2>7. /\ base \o body \in Seq(Blocks) /\ Len(base \o body) = Size
        /\ \A k \in 1..Size : (base \o body)[k] =
              IF k <= Len(base) THEN base[k] ELSE <<r, k>>
    <3>1. /\ base \o body \in Seq(Blocks) /\ Len(base \o body) = Len(base) + Len(body)
          /\ \A k \in 1..(Len(base) + Len(body)) : (base \o body)[k] =
                IF k <= Len(base) THEN base[k] ELSE body[k - Len(base)]
      BY <1>2, <1>4, ConcatProperties
    <3>2. Size \in Nat /\ Len(base) + Len(body) = Size
      BY <1>2, <1>4, <2>2, <2>3 DEF DownloadAssumption
    <3>3. \A k \in 1..Size : ~(k <= Len(base)) => body[k - Len(base)] = <<r, k>>
      <4> SUFFICES ASSUME NEW k \in 1..Size, ~(k <= Len(base))
                   PROVE  body[k - Len(base)] = <<r, k>>
        OBVIOUS
      <4>0. k - Len(base) \in 1..Len(body)
        BY <1>2, <1>4, <3>2
      <4>1. PICK l \in 1..Len(body) : l = k - Len(base)
        BY <4>0
      <4>2. body[l] = <<r, n + l>> /\ n + l = k
        BY <1>2, <1>4, <2>2, <2>3, <4>1
      <4> QED
        BY <4>1, <4>2
    <3> QED
      BY <3>1, <3>2, <3>3
  <2>8. InPlace(base \o body)
    <3>1. \A k \in 1..Size : (base \o body)[k][1] \in Revisions /\ (base \o body)[k][2] = k
      <4> SUFFICES ASSUME NEW k \in 1..Size
                   PROVE  (base \o body)[k][1] \in Revisions /\ (base \o body)[k][2] = k
        OBVIOUS
      <4>1. CASE k <= Len(base)
        BY <1>4, <2>6, <2>7, <4>1 DEF InPlace
      <4>2. CASE ~(k <= Len(base))
        <5>1. (base \o body)[k] = <<r, k>>
          BY <2>7, <4>2
        <5> QED
          BY <1>1, <5>1
      <4> QED
        BY <4>1, <4>2
    <3> QED
      BY <2>7, <3>1 DEF InPlace, DownloadAssumption
  <2>9. doubts'[f] = {} => OneRevision(base \o body)
    <3>1. ASSUME doubts'[f] = {}, NEW k \in 1..Size PROVE (base \o body)[k][1] = r
      <4>1. CASE k <= Len(base)
        BY <1>4, <2>4, <2>7, <3>1, <4>1
      <4>2. CASE ~(k <= Len(base))
        <5>1. (base \o body)[k] = <<r, k>>
          BY <2>7, <4>2
        <5> QED
          BY <5>1
      <4> QED
        BY <4>1, <4>2
    <3> QED
      BY <2>7, <3>1 DEF OneRevision
  <2>10. doubts'[f] = {} => OneRevision(base)
    BY <2>4 DEF OneRevision
  <2>11. Completes(d, f)'
    <3>1. Len(base) + Len(body) = Size
      BY <1>2, <1>4, <2>2, <2>3 DEF DownloadAssumption
    <3>2. x.at \in {0, Len(base) + 1}
      BY <1>4, <1>5, <2>2
    <3>3. /\ InPlace(content[f] \o proc[d].body)'
          /\ doubts'[f] = {} => OneRevision(content[f] \o proc[d].body)'
      <4>1. content'[f] \o proc'[d].body = base \o body
        BY <1>5, <1>6, <1>7
      <4> QED
        BY <2>8, <2>9, <4>1 DEF InPlace, OneRevision
    <3> QED
      BY <1>5, <1>6, <1>7, <3>1, <3>2, <3>3 DEF Completes
  <2>12. InPlace(content[f])' /\ (doubts'[f] = {} => OneRevision(content[f])')
    BY <1>7, <2>6, <2>10 DEF InPlace, OneRevision
  <2>13. dest' # f
    BY <1>1, <1>3
  <2> QED
    BY <2>5, <2>11, <2>12, <2>13 DEF FileIsSound
<1> QED
  <2>1. part' # Download!NoFile => part' # dest'
    BY <1>1, <1>3
  <2>2. \A i \in Download!Inodes : FileIsSound(i)'
    BY <1>10, <1>11
  <2> QED
    BY <1>9, <2>1, <2>2 DEF DownloadInv, Download!Inodes


\* A block that is written is behind the others, or where another has truncated them.
LEMMA WrittenIsTyped ==
  ASSUME NEW s \in Seq(Blocks), NEW m \in Nat \ {0}, NEW b \in Blocks
  PROVE  /\ Download!Written(s, m, b) \in Seq(Blocks)
         /\ m = Len(s) + 1 => Download!Written(s, m, b) = Append(s, b)
<1>0. Len(s) \in Nat /\ Download!Gap \in Blocks
  BY DEF Download!Gap, Blocks
<1>1. PICK z \in Int : z = m - 1 - Len(s)
  <2>1. m - 1 - Len(s) \in Int
    BY <1>0
  <2> QED
    BY <2>1
<1>2. PICK g : g = Download!Max({0, z})
  OBVIOUS
<1>3. g \in Nat /\ (z = 0 => g = 0)
  <2>1. \E q \in {0, z} : \A y \in {0, z} : q >= y
    <3>1. CASE z >= 0
      BY <3>1
    <3>2. CASE ~(z >= 0)
      BY <3>2
    <3> QED
      BY <3>1, <3>2
  <2>2. g \in {0, z} /\ g >= 0
    BY <1>2, <2>1 DEF Download!Max
  <2> QED
    BY <2>2
<1>4. PICK gaps : gaps = [i \in 1..g |-> Download!Gap]
  OBVIOUS
<1>5. gaps \in Seq(Blocks) /\ (g = 0 => gaps = <<>>)
  BY <1>0, <1>3, <1>4
<1>6. s \o gaps \in Seq(Blocks) /\ (g = 0 => s \o gaps = s)
  BY <1>5, ConcatProperties, ConcatEmptySeq
<1>7. Download!Written(s, m, b) = IF m <= Len(s) THEN [s EXCEPT ![m] = b] ELSE Append(s \o gaps, b)
  BY <1>1, <1>2, <1>4 DEF Download!Written
<1>8. CASE m <= Len(s)
  BY <1>0, <1>7, <1>8, ExceptSeq
<1>9. CASE ~(m <= Len(s))
  BY <1>0, <1>1, <1>3, <1>6, <1>7, <1>9, AppendProperties
<1> QED
  BY <1>8, <1>9

\* What is there and what is to come stay the same when a block is read.
LEMMA BlockMoves ==
  ASSUME NEW s \in Seq(Blocks), NEW b \in Seq(Blocks), b # <<>>
  PROVE  /\ Head(b) \in Blocks /\ Tail(b) \in Seq(Blocks)
         /\ Append(s, Head(b)) \in Seq(Blocks)
         /\ Len(Append(s, Head(b))) = Len(s) + 1 /\ Len(Tail(b)) = Len(b) - 1
         /\ Len(s) \in Nat /\ Len(b) \in Nat \ {0}
         /\ Append(s, Head(b)) \o Tail(b) = s \o b
         /\ \A k \in 1..(Len(s) + 1) : Append(s, Head(b))[k] = (s \o b)[k]
<1>1. /\ Head(b) \in Blocks /\ Tail(b) \in Seq(Blocks) /\ Len(Tail(b)) = Len(b) - 1
      /\ \A i \in 1..Len(Tail(b)) : Tail(b)[i] = b[i + 1]
      /\ Len(s) \in Nat /\ Len(b) \in Nat \ {0} /\ Head(b) = b[1]
  BY HeadTailProperties, EmptySeq, LenProperties
<1>2. PICK a \in Seq(Blocks) : a = Append(s, Head(b))
  BY <1>1, AppendProperties
<1>3. /\ Len(a) = Len(s) + 1 /\ a[Len(s) + 1] = b[1]
      /\ \A i \in 1..Len(s) : a[i] = s[i]
  BY <1>1, <1>2, AppendProperties
<1>4. PICK t \in Seq(Blocks) : t = Tail(b)
  BY <1>1
<1>5. /\ a \o t \in Seq(Blocks) /\ Len(a \o t) = Len(a) + Len(t)
      /\ \A i \in 1..(Len(a) + Len(t)) :
            (a \o t)[i] = IF i <= Len(a) THEN a[i] ELSE t[i - Len(a)]
  BY ConcatProperties
<1>6. /\ s \o b \in Seq(Blocks) /\ Len(s \o b) = Len(s) + Len(b)
      /\ \A i \in 1..(Len(s) + Len(b)) :
            (s \o b)[i] = IF i <= Len(s) THEN s[i] ELSE b[i - Len(s)]
  BY ConcatProperties
<1>7. \A k \in 1..(Len(s) + 1) : a[k] = (s \o b)[k]
  <2> SUFFICES ASSUME NEW k \in 1..(Len(s) + 1) PROVE a[k] = (s \o b)[k]
    OBVIOUS
  <2>1. CASE k <= Len(s)
    BY <1>1, <1>3, <1>6, <2>1
  <2>2. CASE k = Len(s) + 1
    <3>1. (s \o b)[k] = b[k - Len(s)] /\ k - Len(s) = 1
      BY <1>1, <1>6, <2>2
    <3> QED
      BY <1>3, <2>2, <3>1
  <2> QED
    BY <1>1, <2>1, <2>2
<1>8. a \o t = s \o b
  <2>1. Len(a \o t) = Len(s \o b)
    BY <1>1, <1>3, <1>4, <1>5, <1>6
  <2>2. ASSUME NEW i \in 1..Len(a \o t) PROVE (a \o t)[i] = (s \o b)[i]
    <3>1. CASE i <= Len(s) + 1
      <4>1. (a \o t)[i] = a[i]
        BY <1>1, <1>3, <1>5, <3>1
      <4> QED
        BY <1>1, <1>7, <3>1, <4>1
    <3>2. CASE ~(i <= Len(s) + 1)
      <4>1. (a \o t)[i] = t[i - Len(a)] /\ (s \o b)[i] = b[i - Len(s)]
        BY <1>1, <1>3, <1>5, <1>6, <2>1, <3>2
      <4>2. i - Len(a) \in 1..Len(t) /\ (i - Len(a)) + 1 = i - Len(s)
        BY <1>1, <1>3, <1>4, <1>5, <3>2
      <4>3. t[i - Len(a)] = b[(i - Len(a)) + 1]
        BY <1>1, <1>4, <4>2
      <4> QED
        BY <4>1, <4>2, <4>3
    <3> QED
      BY <3>1, <3>2
  <2> QED
    BY <1>5, <1>6, <2>1, <2>2, SeqEqual
<1> QED
  BY <1>1, <1>2, <1>3, <1>4, <1>7, <1>8


\* A block that is read from a sound file's rest is the next of the file.
LEMMA ReadFits ==
  ASSUME DownloadAssumption, DownloadInv, NEW d \in Downloaders, Download!ReadBlock(d)
  PROVE  DownloadInv'
<1>t. DownloadType
  BY DEF DownloadInv
<1>c. PICK c \in DownloadCalls : c = proc[d]
  BY <1>t DEF DownloadType
<1>d. /\ c = [pc |-> c.pc, attempt |-> c.attempt, resume |-> c.resume, file |-> c.file,
              at |-> c.at, body |-> c.body, total |-> c.total]
      /\ c.attempt \in Nat /\ c.resume \in Nat /\ c.file \in Files /\ c.at \in Nat
      /\ c.body \in Seq(Blocks) /\ c.total \in Nat /\ c.pc \in DownloadPcs
  BY DEF DownloadCalls
<1>f. PICK f : f = c.file
  OBVIOUS
<1>m. PICK m : m = IF c.at = 0 THEN Len(content[f]) + 1 ELSE c.at
  OBVIOUS
<1>1. /\ c.pc = "read" /\ c.body # <<>>
      /\ content' = [content EXCEPT ![f] = Download!Written(@, m, Head(c.body))]
      /\ Download!Stamped(f)
      /\ proc' = [proc EXCEPT ![d].body = Tail(@), ![d].at = IF @ = 0 THEN 0 ELSE @ + 1]
      /\ UNCHANGED <<part, dest, tries, edits, doubts>>
  BY <1>c, <1>f, <1>m DEF Download!ReadBlock
<1>2. Head(c.body) \in Blocks /\ Tail(c.body) \in Seq(Blocks)
  BY <1>d, <1>1, HeadTailProperties
<1>3. PICK x \in DownloadCalls :
         /\ proc' = [proc EXCEPT ![d] = x]
         /\ x.pc = "read" /\ x.file = f /\ x.body = Tail(c.body)
         /\ x.at = (IF c.at = 0 THEN 0 ELSE c.at + 1)
  <2>1. PICK y : y = [c EXCEPT !.body = Tail(c.body)]
    OBVIOUS
  <2>2. PICK a \in Nat : a = IF c.at = 0 THEN 0 ELSE c.at + 1
    BY <1>d
  <2>3. PICK x : x = [y EXCEPT !.at = a]
    OBVIOUS
  <2>4. x = [pc |-> c.pc, attempt |-> c.attempt, resume |-> c.resume, file |-> c.file,
             at |-> a, body |-> Tail(c.body), total |-> c.total]
    <3>1. y = [pc |-> c.pc, attempt |-> c.attempt, resume |-> c.resume, file |-> c.file,
               at |-> c.at, body |-> Tail(c.body), total |-> c.total]
      BY <1>d, <2>1
    <3> QED
      BY <2>3, <3>1
  <2>5. x \in DownloadCalls
    BY <1>d, <1>2, <2>4, CallIsTyped
  <2>6. proc' = [proc EXCEPT ![d] = x]
    <3>1. y.at = c.at
      BY <1>d, <2>1
    <3>2. proc' = [proc EXCEPT ![d] = [y EXCEPT !.at = IF @ = 0 THEN 0 ELSE @ + 1]]
      BY <1>t, <1>c, <1>1, <2>1 DEF DownloadType
    <3> QED
      BY <2>2, <2>3, <3>1, <3>2
  <2>7. /\ x.pc = "read" /\ x.file = f /\ x.body = Tail(c.body) /\ x.at = a
    BY <1>1, <1>f, <2>4
  <2> QED
    BY <2>2, <2>5, <2>6, <2>7
<1>4. /\ proc' \in [Downloaders -> DownloadCalls] /\ proc'[d] = x
      /\ \A e \in Downloaders : e # d => proc'[e] = proc[e]
  BY <1>t, <1>3 DEF DownloadType
<1>5. ASSUME f \in Download!Inodes
      PROVE  /\ content[f] \in Seq(Blocks) /\ m \in Nat \ {0}
             /\ Download!Written(content[f], m, Head(c.body)) \in Seq(Blocks)
             /\ content'[f] = Download!Written(content[f], m, Head(c.body))
  <2>1. content[f] \in Seq(Blocks) /\ content'[f] = Download!Written(content[f], m, Head(c.body))
    BY <1>t, <1>1, <1>5 DEF DownloadType
  <2>2. m \in Nat \ {0}
    <3>1. Len(content[f]) \in Nat
      BY <2>1, LenProperties
    <3> QED
      BY <1>d, <1>m, <3>1
  <2> QED
    BY <1>2, <2>1, <2>2, WrittenIsTyped
<1>6. /\ content' \in [Download!Inodes -> Seq(Blocks)]
      /\ \A i \in Download!Inodes : i # f => content'[i] = content[i]
  <2>1. CASE f \in Download!Inodes
    BY <1>t, <1>1, <1>5, <2>1 DEF DownloadType
  <2>2. CASE f \notin Download!Inodes
    BY <1>t, <1>1, <2>2 DEF DownloadType
  <2> QED
    BY <2>1, <2>2
<1>7. DownloadType' /\ DigestIsTrue'
  <2>1. /\ DigestIsTrue'
        /\ hashing' \in [blocks : Seq(Blocks), file : Files, changed : BOOLEAN]
        /\ receipt' \in [blocks : Seq(Blocks), file : Files, fresh : BOOLEAN,
                         overtaken : BOOLEAN]
    BY <1>t, <1>1, <1>6, DigestsStay DEF DownloadInv
  <2> QED
    BY <1>t, <1>1, <1>4, <1>6, <2>1 DEF DownloadType, Files, Download!Inodes
<1>8. ASSUME NEW i \in Download!Inodes, i # f PROVE FileIsSound(i)'
  <2>1. FileIsSound(i)
    BY DEF DownloadInv
  <2>2. \A e \in Downloaders :
           proc'[e] = proc[e] \/ proc'[e].pc \notin {"read", "rename"} \/ proc'[e].file # i
    BY <1>3, <1>4, <1>8
  <2>3. content'[i] = content[i] /\ doubts'[i] = doubts[i] /\ dest' = dest
    BY <1>1, <1>6, <1>8
  <2> QED
    BY <2>1, <2>2, <2>3, SoundStays
<1>9. ASSUME f \in Download!Inodes PROVE FileIsSound(f)'
  <2> SUFFICES ASSUME Sound(f)' PROVE FileIsSound(f)'
    BY DEF FileIsSound
  <2>1. Sound(f) /\ doubts'[f] = doubts[f]
    BY <1>1 DEF Sound
  <2>2. Reads(d, f) /\ FileIsSound(f)
    BY <1>c, <1>f, <1>1, <1>9 DEF Reads, DownloadInv
  <2>3. Completes(d, f) /\ \A e \in Downloaders : Reads(e, f) => e = d
    BY <2>1, <2>2 DEF FileIsSound
  <2>4. PICK s \in Seq(Blocks) : s = content[f]
    BY <1>5, <1>9
  <2>5. PICK b \in Seq(Blocks) : b = c.body
    BY <1>d
  <2>6. /\ Len(s) + Len(b) = Size /\ InPlace(s \o b)
        /\ doubts[f] = {} => OneRevision(s \o b)
        /\ c.at \in {0, Len(s) + 1}
    BY <1>c, <2>3, <2>4, <2>5 DEF Completes
  <2>7. PICK a : a = Append(s, Head(b))
    OBVIOUS
  <2>8. /\ a \in Seq(Blocks) /\ Len(a) = Len(s) + 1 /\ Len(Tail(b)) = Len(b) - 1
        /\ Len(s) \in Nat /\ Len(b) \in Nat \ {0} /\ a \o Tail(b) = s \o b
        /\ \A k \in 1..(Len(s) + 1) : a[k] = (s \o b)[k]
    BY <1>1, <2>5, <2>7, BlockMoves
  <2>9. content'[f] = a
    <3>1. m = Len(s) + 1
      BY <1>m, <2>4, <2>6
    <3> QED
      BY <1>2, <1>5, <1>9, <2>4, <2>5, <2>7, <3>1, WrittenIsTyped
  <2>10. Size \in Nat /\ Len(s) < Size /\ Len(a) <= Size
    BY <2>6, <2>8 DEF DownloadAssumption
  <2>11. Len(s \o b) = Size
    BY <2>6, ConcatProperties
  <2>12. InPlace(a) /\ (doubts[f] = {} => OneRevision(a))
    <3>1. \A k \in 1..Len(a) : k \in 1..Size /\ a[k] = (s \o b)[k]
      BY <2>8, <2>10
    <3>2. InPlace(a)
      BY <2>6, <2>10, <2>11, <3>1 DEF InPlace
    <3>3. doubts[f] = {} => OneRevision(a)
      <4> SUFFICES ASSUME doubts[f] = {}, NEW k \in 1..Len(a), NEW l \in 1..Len(a)
                   PROVE  a[k][1] = a[l][1]
        BY DEF OneRevision
      <4>1. (s \o b)[k][1] = (s \o b)[l][1]
        BY <2>6, <2>11, <3>1 DEF OneRevision
      <4> QED
        BY <3>1, <4>1
    <3> QED
      BY <3>2, <3>3
  <2>13. Completes(d, f)'
    <3>1. Len(a) + Len(Tail(b)) = Size /\ x.at \in {0, Len(a) + 1}
      BY <1>d, <1>3, <2>6, <2>8
    <3>2. /\ InPlace(content[f] \o proc[d].body)'
          /\ doubts'[f] = {} => OneRevision(content[f] \o proc[d].body)'
      <4>1. PICK w : w = s \o b
        OBVIOUS
      <4>2. content'[f] \o proc'[d].body = w
        BY <1>3, <1>4, <2>5, <2>8, <2>9, <4>1
      <4>3. InPlace(w) /\ (doubts'[f] = {} => OneRevision(w))
        BY <2>1, <2>6, <4>1
      <4>4. InPlace(content[f] \o proc[d].body)'
        BY <4>2, <4>3 DEF InPlace
      <4>5. doubts'[f] = {} => OneRevision(content[f] \o proc[d].body)'
        BY <4>2, <4>3 DEF OneRevision
      <4> QED
        BY <4>4, <4>5
    <3> QED
      BY <1>3, <1>4, <2>5, <2>9, <3>1, <3>2 DEF Completes
  <2>14. \A e \in Downloaders : (Reads(e, f)' => e = d) /\ (Renames(e, f)' => Renames(e, f) /\ proc'[e] = proc[e])
    BY <1>3, <1>4, <2>3 DEF Reads, Renames
  <2>15. \A e \in Downloaders : ~(Renames(e, f)' /\ proc'[e].total >= Size)
    BY <2>1, <2>2, <2>4, <2>10, <2>14 DEF FileIsSound
  <2>16. dest' # f
    BY <1>1, <2>1, <2>2, <2>4, <2>10 DEF FileIsSound
  <2>17. InPlace(content[f])' /\ (doubts'[f] = {} => OneRevision(content[f])')
    BY <2>1, <2>9, <2>12 DEF InPlace, OneRevision
  <2> QED
    BY <2>13, <2>14, <2>15, <2>16, <2>17 DEF FileIsSound
<1> QED
  <2>1. part' # Download!NoFile => part' # dest'
    BY <1>1 DEF DownloadInv
  <2>2. \A i \in Download!Inodes : FileIsSound(i)'
    BY <1>8, <1>9
  <2> QED
    BY <1>7, <2>1, <2>2 DEF DownloadInv, Download!Inodes

\* Whoever finds a sound file as long as the server said finds it whole.
LEMMA CompareFits ==
  ASSUME DownloadAssumption, DownloadInv, NEW d \in Downloaders,
         Download!CompareSize(d), Download!Complete(d)
  PROVE  DownloadInv'
<1>t. DownloadType
  BY DEF DownloadInv
<1>c. PICK c \in DownloadCalls : c = proc[d]
  BY <1>t DEF DownloadType
<1>d. /\ c = [pc |-> c.pc, attempt |-> c.attempt, resume |-> c.resume, file |-> c.file,
              at |-> c.at, body |-> c.body, total |-> c.total]
      /\ c.attempt \in Nat /\ c.resume \in Nat /\ c.at \in Nat
      /\ c.body \in Seq(Blocks) /\ c.total \in Nat
  BY DEF DownloadCalls
<1>f. PICK f \in Download!Inodes : f = part
  BY <1>t DEF Download!Complete, DownloadType, Files
<1>1. /\ proc' = [proc EXCEPT ![d] = [c EXCEPT !.pc = "rename", !.file = f]]
      /\ UNCHANGED <<content, part, dest, edits, hashing, receipt, doubts>>
  BY <1>c, <1>f DEF Download!CompareSize, Download!Unwritten
<1>2. PICK x \in DownloadCalls :
         /\ proc' = [proc EXCEPT ![d] = x]
         /\ x.pc = "rename" /\ x.file = f /\ x.total = c.total
  <2>1. PICK y : y = [c EXCEPT !.pc = "rename"]
    OBVIOUS
  <2>2. PICK x : x = [y EXCEPT !.file = f]
    OBVIOUS
  <2>3. x = [pc |-> "rename", attempt |-> c.attempt, resume |-> c.resume, file |-> f,
             at |-> c.at, body |-> c.body, total |-> c.total]
    <3>1. y = [pc |-> "rename", attempt |-> c.attempt, resume |-> c.resume, file |-> c.file,
               at |-> c.at, body |-> c.body, total |-> c.total]
      BY <1>d, <2>1
    <3> QED
      BY <2>2, <3>1
  <2>4. PICK p \in DownloadPcs : p = "rename"
    BY DEF DownloadPcs
  <2>5. PICK g \in Files : g = f
    BY <1>f DEF Files
  <2>6. [pc |-> p, attempt |-> c.attempt, resume |-> c.resume, file |-> g,
         at |-> c.at, body |-> c.body, total |-> c.total] \in DownloadCalls
    BY <1>d, CallIsTyped
  <2>7. x \in DownloadCalls
    BY <2>3, <2>4, <2>5, <2>6
  <2>8. proc' = [proc EXCEPT ![d] = x]
    BY <1>1, <2>1, <2>2
  <2>9. x.pc = "rename" /\ x.file = f /\ x.total = c.total
    BY <2>3
  <2> QED
    BY <2>7, <2>8, <2>9
<1>3. /\ proc' \in [Downloaders -> DownloadCalls] /\ proc'[d] = x
      /\ \A e \in Downloaders : e # d => proc'[e] = proc[e]
  BY <1>t, <1>2 DEF DownloadType
<1>4. DownloadType' /\ DigestIsTrue'
  BY <1>1, <1>3 DEF DownloadInv, DownloadType, DigestIsTrue
<1>5. ASSUME NEW i \in Download!Inodes, i # f PROVE FileIsSound(i)'
  <2>1. FileIsSound(i)
    BY DEF DownloadInv
  <2>2. \A e \in Downloaders :
           proc'[e] = proc[e] \/ proc'[e].pc \notin {"read", "rename"} \/ proc'[e].file # i
    BY <1>2, <1>3, <1>5
  <2> QED
    BY <1>1, <2>1, <2>2, SoundStays
<1>6. FileIsSound(f)'
  <2> SUFFICES ASSUME Sound(f)' PROVE FileIsSound(f)'
    BY DEF FileIsSound
  <2>1. Sound(f) /\ FileIsSound(f) /\ dest' = dest
    BY <1>1, <1>f DEF Sound, DownloadInv
  <2>2. InPlace(content[f]) /\ (doubts[f] = {} => OneRevision(content[f]))
    BY <2>1 DEF FileIsSound
  <2>3. c.total >= Size => Len(content[f]) = Size
    <3>1. c.total > 0 => Len(content[f]) >= c.total
      BY <1>c, <1>f DEF Download!Complete
    <3>2. Len(content[f]) \in Nat
      BY <1>t, <1>f DEF DownloadType
    <3> QED
      BY <1>d, <2>2, <3>1, <3>2 DEF InPlace, DownloadAssumption
  <2>4. ASSUME NEW e \in Downloaders, Reads(e, f)'
        PROVE  Completes(e, f)' /\ \A g \in Downloaders : Reads(g, f)' => g = e
    <3>1. \A g \in Downloaders : Reads(g, f)' => Reads(g, f) /\ proc'[g] = proc[g]
      BY <1>2, <1>3 DEF Reads
    <3>2. Completes(e, f) /\ \A g \in Downloaders : Reads(g, f) => g = e
      BY <2>1, <2>4, <3>1 DEF FileIsSound
    <3>3. Completes(e, f)'
      <4>1. PICK w : w = content[f] \o proc[e].body
        OBVIOUS
      <4>2. content'[f] \o proc'[e].body = w /\ doubts' = doubts
        BY <1>1, <2>4, <3>1, <4>1
      <4>3. InPlace(w) /\ (doubts'[f] = {} => OneRevision(w))
        BY <3>2, <4>1, <4>2 DEF Completes
      <4>4. InPlace(content[f] \o proc[e].body)'
        BY <4>2, <4>3 DEF InPlace
      <4>5. doubts'[f] = {} => OneRevision(content[f] \o proc[e].body)'
        BY <4>2, <4>3 DEF OneRevision
      <4> QED
        BY <1>1, <2>4, <3>1, <3>2, <4>4, <4>5 DEF Completes
    <3> QED
      BY <3>1, <3>2, <3>3
  <2>5. ASSUME NEW e \in Downloaders, Renames(e, f)', proc'[e].total >= Size
        PROVE  Len(content'[f]) = Size
    <3>1. CASE e = d
      BY <1>1, <1>2, <1>3, <2>3, <2>5, <3>1
    <3>2. CASE e # d
      BY <1>1, <1>3, <2>1, <2>5, <3>2 DEF Renames, FileIsSound
    <3> QED
      BY <3>1, <3>2
  <2>6. InPlace(content[f])' /\ (doubts'[f] = {} => OneRevision(content[f])')
    BY <1>1, <2>2 DEF InPlace, OneRevision
  <2>7. dest' = f => Len(content'[f]) = Size
    BY <1>1, <2>1 DEF FileIsSound
  <2> QED
    BY <2>4, <2>5, <2>6, <2>7 DEF FileIsSound
<1> QED
  <2>1. part' # Download!NoFile => part' # dest'
    BY <1>1 DEF DownloadInv
  <2>2. \A i \in Download!Inodes : FileIsSound(i)'
    BY <1>5, <1>6
  <2> QED
    BY <1>4, <2>1, <2>2 DEF DownloadInv, Download!Inodes


\* What is renamed is the file whose size was compared, or is not sound.
LEMMA RenameFits ==
  ASSUME DownloadAssumption, DownloadInv, NEW d \in Downloaders, Download!Rename(d)
  PROVE  DownloadInv'
<1>t. DownloadType
  BY DEF DownloadInv
<1>1. CASE part = Download!NoFile
  <2>1. /\ UNCHANGED <<content, part, dest, edits, hashing, receipt, doubts>>
        /\ proc' = [proc EXCEPT ![d] = Download!Failed(d)]
    BY <1>1 DEF Download!Rename
  <2> QED
    BY <1>t, <2>1, FailedFits, OnlyTheCall
<1>2. CASE part # Download!NoFile
  <2>c. PICK c \in DownloadCalls : c = proc[d]
    BY <1>t DEF DownloadType
  <2>d. /\ c = [pc |-> c.pc, attempt |-> c.attempt, resume |-> c.resume, file |-> c.file,
                at |-> c.at, body |-> c.body, total |-> c.total]
        /\ c.attempt \in Nat /\ c.resume \in Nat /\ c.at \in Nat
        /\ c.body \in Seq(Blocks) /\ c.total \in Nat
    BY DEF DownloadCalls
  <2>f. PICK f \in Download!Inodes : f = part
    BY <1>t, <1>2 DEF DownloadType, Files
  <2>g. PICK more : more = (IF c.file # f THEN {"crossed"} ELSE {})
                           \cup (IF c.total < Size THEN {"unsized"} ELSE {})
    OBVIOUS
  <2>1. /\ c.pc = "rename"
        /\ dest' = f /\ part' = Download!NoFile
        /\ doubts' = [doubts EXCEPT ![f] = @ \cup more]
        /\ UNCHANGED <<content, edits, hashing, receipt>>
    BY <1>2, <2>c, <2>f, <2>g DEF Download!Rename
  <2>2. PICK x \in DownloadCalls :
           proc' = [proc EXCEPT ![d] = x] /\ x.pc \notin {"read", "rename"}
    <3>1. CASE Pinned = NoDigest
      <4>1. proc' = [proc EXCEPT ![d] = Download!Idle]
        BY <1>2, <3>1 DEF Download!Rename
      <4> QED
        BY <4>1, IdleFits
    <3>2. CASE Pinned # NoDigest
      <4>1. PICK y : y = [c EXCEPT !.pc = "verify"]
        OBVIOUS
      <4>2. PICK x : x = [y EXCEPT !.file = Download!NoFile]
        OBVIOUS
      <4>3. x = [pc |-> "verify", attempt |-> c.attempt, resume |-> c.resume,
                 file |-> Download!NoFile, at |-> c.at, body |-> c.body, total |-> c.total]
        <5>1. y = [pc |-> "verify", attempt |-> c.attempt, resume |-> c.resume,
                   file |-> c.file, at |-> c.at, body |-> c.body, total |-> c.total]
          BY <2>d, <4>1
        <5> QED
          BY <4>2, <5>1
      <4>4. PICK p \in DownloadPcs : p = "verify"
        BY DEF DownloadPcs
      <4>5. [pc |-> p, attempt |-> c.attempt, resume |-> c.resume, file |-> Download!NoFile,
             at |-> c.at, body |-> c.body, total |-> c.total] \in DownloadCalls
        BY <2>d, IdleFits, CallIsTyped
      <4>6. x \in DownloadCalls /\ x.pc = "verify"
        BY <4>3, <4>4, <4>5
      <4>7. proc' = [proc EXCEPT ![d] = x]
        BY <1>2, <2>c, <3>2, <4>1, <4>2 DEF Download!Rename
      <4> QED
        BY <4>6, <4>7
    <3> QED
      BY <3>1, <3>2
  <2>3. /\ proc' \in [Downloaders -> DownloadCalls] /\ proc'[d] = x
        /\ \A e \in Downloaders : e # d => proc'[e] = proc[e]
    BY <1>t, <2>2 DEF DownloadType
  <2>4. /\ doubts' \in [Download!Inodes -> SUBSET Doubtful]
        /\ doubts'[f] = doubts[f] \cup more
        /\ \A i \in Download!Inodes : i # f => doubts'[i] = doubts[i]
    <3>1. more \in SUBSET Doubtful
      BY <2>g DEF Doubtful
    <3> QED
      BY <1>t, <2>1, <3>1 DEF DownloadType
  <2>5. DownloadType' /\ DigestIsTrue'
    BY <1>t, <2>1, <2>3, <2>4 DEF DownloadInv, DownloadType, DigestIsTrue, Files, Download!Inodes
  <2>6. ASSUME NEW i \in Download!Inodes, i # f PROVE FileIsSound(i)'
    <3>1. FileIsSound(i)
      BY DEF DownloadInv
    <3>2. \A e \in Downloaders :
             proc'[e] = proc[e] \/ proc'[e].pc \notin {"read", "rename"} \/ proc'[e].file # i
      BY <2>2, <2>3
    <3>3. content'[i] = content[i] /\ doubts'[i] = doubts[i] /\ dest' # i
      BY <2>1, <2>4, <2>6
    <3> QED
      BY <3>1, <3>2, <3>3, SoundStays
  <2>7. FileIsSound(f)'
    <3> SUFFICES ASSUME Sound(f)' PROVE FileIsSound(f)'
      BY DEF FileIsSound
    <3>1. Sound(f) /\ more \subseteq {"mixed"} /\ (doubts'[f] = {} => doubts[f] = {})
      BY <2>4 DEF Sound
    <3>2. c.file = f /\ ~(c.total < Size)
      <4>1. "crossed" \notin more /\ "unsized" \notin more
        BY <3>1
      <4> QED
        BY <2>g, <4>1
    <3>3. Len(content[f]) = Size
      <4>1. Renames(d, f) /\ proc[d].total >= Size
        BY <2>c, <2>d, <2>1, <3>2 DEF Renames, DownloadAssumption
      <4> QED
        BY <3>1, <4>1 DEF DownloadInv, FileIsSound
    <3>5. /\ InPlace(content[f]) /\ (doubts[f] = {} => OneRevision(content[f]))
          /\ \A e \in Downloaders : Reads(e, f) =>
                Completes(e, f) /\ \A g \in Downloaders : Reads(g, f) => g = e
      BY <3>1 DEF DownloadInv, FileIsSound
    <3>6. ASSUME NEW e \in Downloaders, Reads(e, f)'
          PROVE  Completes(e, f)' /\ \A g \in Downloaders : Reads(g, f)' => g = e
      <4>1. \A g \in Downloaders : Reads(g, f)' => Reads(g, f) /\ proc'[g] = proc[g]
        BY <2>2, <2>3 DEF Reads
      <4>2. Completes(e, f) /\ \A g \in Downloaders : Reads(g, f) => g = e
        BY <3>5, <3>6, <4>1
      <4>3. Completes(e, f)'
        <5>1. PICK w : w = content[f] \o proc[e].body
          OBVIOUS
        <5>2. content'[f] \o proc'[e].body = w
          BY <2>1, <3>6, <4>1, <5>1
        <5>3. InPlace(w) /\ (doubts'[f] = {} => OneRevision(w))
          BY <3>1, <4>2, <5>1 DEF Completes
        <5>4. InPlace(content[f] \o proc[e].body)'
          BY <5>2, <5>3 DEF InPlace
        <5>5. doubts'[f] = {} => OneRevision(content[f] \o proc[e].body)'
          BY <5>2, <5>3 DEF OneRevision
        <5> QED
          BY <2>1, <3>6, <4>1, <4>2, <5>4, <5>5 DEF Completes
      <4> QED
        BY <4>1, <4>2, <4>3
    <3>7. InPlace(content[f])' /\ (doubts'[f] = {} => OneRevision(content[f])')
      BY <2>1, <3>1, <3>5 DEF InPlace, OneRevision
    <3> QED
      BY <2>1, <3>3, <3>6, <3>7 DEF FileIsSound
  <2> QED
    <3>1. part' = Download!NoFile
      BY <2>1
    <3>2. \A i \in Download!Inodes : FileIsSound(i)'
      BY <2>6, <2>7
    <3> QED
      BY <2>5, <3>1, <3>2 DEF DownloadInv, Download!Inodes
<1> QED
  BY <1>1, <1>2

\* A digest is read, and saved, of what the file holds, or of what it held.
LEMMA DigestsFit ==
  ASSUME DownloadAssumption, DownloadInv, Download!HashFile \/ Download!SaveReceipt
  PROVE  DownloadInv'
<1>t. DownloadType
  BY DEF DownloadInv
<1>1. UNCHANGED <<content, part, dest, proc, edits, doubts>>
  BY DEF Download!HashFile, Download!SaveReceipt
<1>2. \A i \in Download!Inodes : FileIsSound(i)'
  BY <1>1, SoundStays DEF DownloadInv
<1>3. CASE Download!HashFile
  <2>1. /\ hashing' = [blocks |-> content[dest], file |-> dest, changed |-> FALSE]
        /\ dest \in Download!Inodes /\ UNCHANGED receipt
    BY <1>t, <1>3 DEF Download!HashFile, DownloadType, Files
  <2>2. DownloadType' /\ DigestIsTrue'
    BY <1>t, <1>1, <2>1 DEF DownloadInv, DownloadType, DigestIsTrue, Files, Download!Inodes
  <2> QED
    BY <1>1, <1>2, <2>2 DEF DownloadInv, Download!Inodes
<1>4. CASE Download!SaveReceipt
  <2>1. /\ hashing' = Download!Unread
        /\ hashing.blocks \in Seq(Blocks) /\ hashing.changed \in BOOLEAN
        /\ Download!Unread \in [blocks : Seq(Blocks), file : Files, changed : BOOLEAN]
        /\ Download!Unread.file = Download!NoFile
    <3>1. hashing' = Download!Unread
      BY <1>4 DEF Download!SaveReceipt
    <3>2. hashing.blocks \in Seq(Blocks) /\ hashing.changed \in BOOLEAN
      BY <1>t DEF DownloadType
    <3>3. /\ Download!Unread \in [blocks : Seq(Blocks), file : Files, changed : BOOLEAN]
          /\ Download!Unread.file = Download!NoFile
      BY IdleFits DEF Download!Unread
    <3> QED
      BY <3>1, <3>2, <3>3
  <2>2. CASE dest = Download!NoFile
    <3>1. receipt' = receipt
      BY <1>4, <2>2 DEF Download!SaveReceipt
    <3>2. DownloadType' /\ DigestIsTrue'
      BY <1>t, <1>1, <2>1, <3>1 DEF DownloadInv, DownloadType, DigestIsTrue, Files, Download!Inodes
    <3> QED
      BY <1>1, <1>2, <3>2 DEF DownloadInv, Download!Inodes
  <2>3. CASE dest # Download!NoFile
    <3>1. PICK late \in BOOLEAN : late = (hashing.changed \/ hashing.file # dest)
      OBVIOUS
    <3>2. receipt' = [blocks |-> hashing.blocks, file |-> dest, fresh |-> TRUE,
                      overtaken |-> late]
      BY <1>4, <2>3, <3>1 DEF Download!SaveReceipt
    <3>3. receipt' \in [blocks : Seq(Blocks), file : Files, fresh : BOOLEAN,
                        overtaken : BOOLEAN]
      BY <1>t, <2>1, <3>2 DEF DownloadType
    <3>4. ~late => hashing.blocks = content[dest]
      BY <2>3, <3>1 DEF DownloadInv, DigestIsTrue
    <3>5. DownloadType' /\ DigestIsTrue'
      BY <1>t, <1>1, <2>1, <3>2, <3>3, <3>4
      DEF DownloadInv, DownloadType, DigestIsTrue, Files, Download!Inodes
    <3> QED
      BY <1>1, <1>2, <3>5 DEF DownloadInv, Download!Inodes
  <2> QED
    BY <2>2, <2>3
<1> QED
  BY <1>3, <1>4

\* The owner touches no part file, and what he writes is not vouched for.
LEMMA ReplaceFits ==
  ASSUME DownloadAssumption, DownloadInv, Download!Replace
  PROVE  DownloadInv'
<1>t. DownloadType
  BY DEF DownloadInv
<1>1. UNCHANGED <<part, proc, tries>> /\ dest # Download!NoFile
  BY DEF Download!Replace
<1>2. CASE dest' = Download!NoFile /\ UNCHANGED <<content, doubts, hashing, receipt>>
  <2>1. ASSUME NEW i \in Download!Inodes PROVE FileIsSound(i)'
    <3>1. FileIsSound(i) /\ dest' # i
      BY <1>2, EnoughInodes DEF DownloadInv
    <3> QED
      BY <1>1, <1>2, <3>1, SoundStays
  <2>2. DownloadType' /\ DigestIsTrue'
    BY <1>t, <1>1, <1>2 DEF DownloadInv, DownloadType, DigestIsTrue, Files, Download!Inodes
  <2>3. part' # Download!NoFile => part' # dest'
    BY <1>2
  <2> QED
    BY <2>1, <2>2, <2>3 DEF DownloadInv, Download!Inodes
<1>3. CASE \E f \in {dest, Download!Fresh} :
              /\ dest' = f
              /\ content' = [content EXCEPT ![f] = <<Download!Gap>>]
              /\ doubts' = [doubts EXCEPT ![f] = {"edited"}]
              /\ Download!Stamped(f)
  <2>f. PICK f \in {dest, Download!Fresh} :
              /\ dest' = f
              /\ content' = [content EXCEPT ![f] = <<Download!Gap>>]
              /\ doubts' = [doubts EXCEPT ![f] = {"edited"}]
              /\ Download!Stamped(f)
    BY <1>3
  <2>1. f \in Download!Inodes /\ (part # Download!NoFile => f # part)
    <3>1. CASE f = dest
      BY <1>t, <1>1, <3>1 DEF DownloadType, DownloadInv, Files
    <3>2. CASE f = Download!Fresh
      BY <1>t, <3>2, FreshIsFree
    <3> QED
      BY <3>1, <3>2
  <2>2. /\ content' \in [Download!Inodes -> Seq(Blocks)]
        /\ doubts' \in [Download!Inodes -> SUBSET Doubtful] /\ doubts'[f] = {"edited"}
        /\ \A i \in Download!Inodes : i # f => content'[i] = content[i] /\ doubts'[i] = doubts[i]
    <3>1. <<Download!Gap>> \in Seq(Blocks)
      BY DEF Download!Gap, Blocks
    <3>2. {"edited"} \in SUBSET Doubtful
      BY DEF Doubtful
    <3> QED
      BY <1>t, <2>f, <2>1, <3>1, <3>2 DEF DownloadType
  <2>3. DownloadType' /\ DigestIsTrue'
    <3>1. /\ DigestIsTrue'
          /\ hashing' \in [blocks : Seq(Blocks), file : Files, changed : BOOLEAN]
          /\ receipt' \in [blocks : Seq(Blocks), file : Files, fresh : BOOLEAN,
                           overtaken : BOOLEAN]
      BY <1>t, <2>f, <2>2, DigestsStay DEF DownloadInv
    <3> QED
      BY <1>t, <1>1, <2>f, <2>1, <2>2, <3>1 DEF DownloadType, Files, Download!Inodes
  <2>4. ASSUME NEW i \in Download!Inodes PROVE FileIsSound(i)'
    <3>1. CASE i = f
      <4>1. ~Sound(i)'
        BY <2>2, <3>1 DEF Sound
      <4> QED
        BY <4>1 DEF FileIsSound
    <3>2. CASE i # f
      <4>1. FileIsSound(i) /\ content'[i] = content[i] /\ doubts'[i] = doubts[i] /\ dest' # i
        BY <2>f, <2>2, <3>2 DEF DownloadInv
      <4> QED
        BY <1>1, <4>1, SoundStays
    <3> QED
      BY <3>1, <3>2
  <2>5. part' # Download!NoFile => part' # dest'
    BY <1>1, <2>f, <2>1
  <2> QED
    BY <2>3, <2>4, <2>5 DEF DownloadInv, Download!Inodes
<1> QED
  BY <1>2, <1>3 DEF Download!Replace

\* There is no file at first.
LEMMA DownloadInitially ==
  ASSUME DownloadAssumption, Download!Init PROVE DownloadInv
<1>1. /\ <<>> \in Seq(Blocks) /\ Download!Idle \in DownloadCalls
      /\ Download!Idle.pc = "idle" /\ Download!NoFile \in Files
  BY IdleFits
<1>2. /\ Download!Unread \in [blocks : Seq(Blocks), file : Files, changed : BOOLEAN]
      /\ Download!NoReceipt \in [blocks : Seq(Blocks), file : Files, fresh : BOOLEAN,
                                 overtaken : BOOLEAN]
      /\ Download!Unread.file = Download!NoFile /\ Download!NoReceipt.file = Download!NoFile
  BY <1>1 DEF Download!Unread, Download!NoReceipt
<1>3. DownloadType
  BY <1>1, <1>2 DEF Download!Init, DownloadType
<1>4. DigestIsTrue
  BY <1>2 DEF Download!Init, DigestIsTrue
<1>5. ASSUME NEW i \in Download!Inodes PROVE FileIsSound(i)
  <2>1. content[i] = <<>> /\ dest # i
    BY EnoughInodes DEF Download!Init
  <2>2. \A d \in Downloaders : ~Reads(d, i) /\ ~Renames(d, i)
    BY <1>1 DEF Download!Init, Reads, Renames
  <2>3. InPlace(content[i]) /\ OneRevision(content[i])
    BY <2>1 DEF InPlace, OneRevision, DownloadAssumption
  <2> QED
    BY <2>1, <2>2, <2>3 DEF FileIsSound
<1> QED
  BY <1>3, <1>4, <1>5 DEF DownloadInv, Download!Init

\* The invariant holds in every behaviour of the stores.
LEMMA DownloadInvHolds ==
  ASSUME DownloadAssumption PROVE KeptSpec => [](component = "download" => DownloadInv)
<1>1. ASSUME DownloadInv, Download!Next PROVE DownloadInv'
  <2>1. \/ Download!HashFile \/ Download!SaveReceipt \/ Download!Replace
        \/ \E d \in Downloaders :
              \/ Download!Call(d) \/ Download!CheckPresent(d) \/ Download!StatPart(d)
              \/ Download!RequestFails(d) \/ Download!BodyEnds(d) \/ Download!ReadFails(d)
              \/ Download!Verify(d) \/ Download!Crash(d)
              \/ Download!CompareSize(d) /\ ~Download!Complete(d)
        \/ \E d \in Downloaders :
              \/ Download!Respond(d) \/ Download!ReadBlock(d) \/ Download!Rename(d)
              \/ Download!CompareSize(d) /\ Download!Complete(d)
    BY <1>1 DEF Download!Next
  <2> QED
    BY <1>1, <2>1, CallsKeepFiles, RespondFits, ReadFits, CompareFits, RenameFits, DigestsFit,
       ReplaceFits
<1>2. ASSUME DownloadInv, UNCHANGED Download!vars PROVE DownloadInv'
  <2>1. UNCHANGED <<content, part, dest, proc, hashing, receipt, doubts>>
    BY <1>2 DEF Download!vars
  <2>2. DownloadType' /\ DigestIsTrue'
    BY <1>2, <2>1 DEF DownloadInv, DownloadType, DigestIsTrue, Files, Download!Inodes
  <2>3. \A i \in Download!Inodes : FileIsSound(i)'
    BY <1>2, <2>1, SoundStays DEF DownloadInv
  <2> QED
    BY <1>2, <2>1, <2>2, <2>3 DEF DownloadInv, Download!Inodes
<1>3. DownloadInv /\ [Download!Next]_(Download!vars) => DownloadInv'
  BY <1>1, <1>2
<1>4. KeptInit => (component = "download" => DownloadInv)
  BY DownloadInitially DEF KeptInit
<1>5. (component = "download" => DownloadInv) /\ [KeptNext]_storesVars
         => (component = "download" => DownloadInv)'
  BY <1>3, SameStore
<1> QED
  BY <1>4, <1>5, PTL DEF KeptSpec

\* A file that bears the model's name has every block in its place, whatever attempts,
\* dropped connections and kills led to it, however many processes worked on it and
\* whatever revisions the server held: unless two of them had the same part file in hand,
\* the server ignored the range or told no size, or its owner has put another file there.
\* It is of one revision, unless the part file of another was resumed.  A receipt that
\* matches a file vouches for what it holds, unless the file was changed between its hash
\* and its stat (downloader.py, download_model; artifact_verification.py).
THEOREM PublicationsAreWhole ==
  ASSUME DownloadAssumption PROVE KeptSpec => []PublishedIsWhole
<1>1. (component = "download" => DownloadInv) => PublishedIsWhole
  <2> SUFFICES ASSUME DownloadInv
               PROVE  Download!PublishedIsWhole /\ Download!ReceiptIsTruthful
    BY DEF PublishedIsWhole
  <2>1. ASSUME dest # Download!NoFile
        PROVE  /\ Sound(dest) =>
                     /\ content[dest] \in Seq(Blocks) /\ Len(content[dest]) = Size
                     /\ \A i \in 1..Size : content[dest][i][2] = i
                                           /\ content[dest][i][1] \in Revisions
               /\ doubts[dest] = {} => Sound(dest) /\ OneRevision(content[dest])
    <3>1. dest \in Download!Inodes /\ content[dest] \in Seq(Blocks)
      BY <2>1 DEF DownloadInv, DownloadType, Files
    <3>2. FileIsSound(dest)
      BY <3>1 DEF DownloadInv
    <3>3. doubts[dest] = {} => Sound(dest)
      BY DEF Sound
    <3> QED
      BY <3>1, <3>2, <3>3 DEF FileIsSound, InPlace
  <2>2. ASSUME dest # Download!NoFile, doubts[dest] = {}
        PROVE  \E r \in Revisions : content[dest] = Download!Whole(r)
    <3>1. /\ content[dest] \in Seq(Blocks) /\ Len(content[dest]) = Size
          /\ \A i \in 1..Size : content[dest][i][2] = i /\ content[dest][i][1] \in Revisions
          /\ OneRevision(content[dest])
      BY <2>1, <2>2
    <3>2. 1 \in 1..Size /\ Size \in Nat
      BY DEF DownloadAssumption
    <3>3. PICK r \in Revisions : r = content[dest][1][1]
      BY <3>1, <3>2
    <3>4. \A i \in 1..Size : content[dest][i] = <<r, i>>
      <4> SUFFICES ASSUME NEW i \in 1..Size PROVE content[dest][i] = <<r, i>>
        OBVIOUS
      <4>1. content[dest][i] \in Blocks
        BY <3>1, ElementOfSeq
      <4>2. content[dest][i][1] = r /\ content[dest][i][2] = i
        BY <3>1, <3>2, <3>3 DEF OneRevision
      <4> QED
        BY <4>1, <4>2 DEF Blocks
    <3>5. Download!Whole(r) \in Seq(Blocks) /\ Len(Download!Whole(r)) = Size
      BY <3>2 DEF Download!Whole, Blocks
    <3>6. \A i \in 1..Size : Download!Whole(r)[i] = <<r, i>>
      BY <3>2 DEF Download!Whole
    <3>7. content[dest] = Download!Whole(r)
      <4>1. PICK s \in Seq(Blocks) : s = content[dest]
        BY <3>1
      <4>2. PICK w \in Seq(Blocks) : w = Download!Whole(r)
        BY <3>5
      <4>3. Len(s) = Len(w) /\ \A i \in 1..Len(s) : s[i] = w[i]
        BY <3>1, <3>4, <3>5, <3>6, <4>1, <4>2
      <4>4. s = w
        BY <4>3, SeqEqual
      <4> QED
        BY <4>1, <4>2, <4>4
    <3> QED
      BY <3>7
  <2>3. Download!PublishedIsWhole
    BY <2>1, <2>2 DEF Download!PublishedIsWhole, Sound
  <2>4. Download!ReceiptIsTruthful
    BY DEF DownloadInv, DigestIsTrue, Download!ReceiptIsTruthful, Download!MatchesFile
  <2> QED
    BY <2>3, <2>4
<1> QED
  BY <1>1, DownloadInvHolds, PTL

-----------------------------------------------------------------------------
(* StateBackup: files are whole, and a restore is what it says.              *)

\* The files there are at the start are of known schemas.
BackupAssumption == Kept \subseteq {"legacy", "one", "future"} /\ 1 \in Values

\* What can be read where a name leads to a whole file or to none, and collections of it.
Whole == Backup!Contents \cup {Backup!Absent}
Collections == UNION {[D -> Whole] : D \in SUBSET Backup!Kinds}

Saves == [pc : {"idle", "open", "write", "rename"}, content : Whole]
Archives == [entries : Collections, sound : BOOLEAN]
BackupJobs ==
    [pc : {"idle", "export", "validate", "check", "stage", "promote", "done"},
     replace : BOOLEAN, todo : SUBSET Backup!Kinds, done : SUBSET Backup!Kinds,
     open : Backup!Kinds \cup {"none"}, read : Collections,
     result : {"none", "exported", "refused", "restored", "halfway"}]

BackupType ==
    /\ online \in BOOLEAN /\ archive \in Archives /\ job \in BackupJobs
    /\ file \in [Backup!Kinds -> Whole] /\ before \in [Backup!Kinds -> Whole]
    /\ temp \in [Backup!Kinds -> Whole \cup {Backup!Torn}]
    /\ staged \in [Backup!Kinds -> Whole \cup {Backup!Torn}]
    /\ writer \in [Backup!Kinds -> Saves]

\* A save renames what it has written to the end.
SavesAreWhole ==
    \A k \in Backup!Kinds : writer[k].pc = "rename" => temp[k] = writer[k].content

\* A restore stages the files of the archive, and all of them before it renames the first.
StagedIsArchived ==
    /\ job.pc \in {"validate", "check", "stage"} => job.todo = DOMAIN archive.entries
    /\ job.pc \in {"validate", "check"} => job.done = {} /\ job.open = "none"
    /\ job.pc = "stage" => /\ job.done \subseteq job.todo
                           /\ job.open \in {"none"} \cup (job.todo \ job.done)
                           /\ \A k \in job.done : staged[k] = archive.entries[k]
    /\ job.pc = "promote" =>
          /\ job.todo \subseteq DOMAIN archive.entries
          /\ \A k \in job.todo : staged[k] = archive.entries[k]
          /\ \A k \in (DOMAIN archive.entries) \ job.todo : staged[k] = Backup!Absent

\* While the server is stopped, what a restore has renamed is all that has changed.
ChangedIsRestored ==
    /\ job.pc # "done" => job.result = "none"
    /\ ~online /\ job.pc # "idle" => \A k \in Backup!Kinds : writer[k].pc = "idle"
    /\ ~online /\ job.pc \in {"export", "validate", "check", "stage"} => file = before
    /\ ~online /\ job.pc \in {"stage", "promote"} =>
          job.replace \/ \A k \in DOMAIN archive.entries : before[k] = Backup!Absent
    /\ ~online /\ job.pc = "promote" =>
          \A k \in Backup!Kinds :
             IF k \in (DOMAIN archive.entries) \ job.todo
             THEN file[k] = archive.entries[k] ELSE file[k] = before[k]
    /\ job.pc = "done" => Backup!RestoreIsFaithful

BackupInv == BackupType /\ SavesAreWhole /\ StagedIsArchived /\ ChangedIsRestored

\* Collections have no torn files, begin empty and grow.
LEMMA CollectionsAreWhole ==
  /\ Backup!Torn \notin Whole
  /\ Backup!NoArchive.entries \in Collections /\ Backup!NoArchive \in Archives
  /\ \A c \in Collections :
        /\ DOMAIN c \subseteq Backup!Kinds
        /\ \A k \in DOMAIN c : c[k] \in Whole
        /\ \A k \in Backup!Kinds : \A x \in Whole :
              [i \in DOMAIN c \cup {k} |-> IF i = k THEN x ELSE c[i]] \in Collections
<1>1. Backup!Torn \notin Whole
  BY DEF Whole, Backup!Torn, Backup!Contents, Backup!Absent
<1>2. [k \in {} |-> Backup!Absent] \in [{} -> Whole]
  OBVIOUS
<1>3. Backup!NoArchive.entries \in Collections /\ Backup!NoArchive \in Archives
  BY <1>2 DEF Backup!NoArchive, Archives, Collections
<1>4. ASSUME NEW c \in Collections
      PROVE  /\ DOMAIN c \subseteq Backup!Kinds
             /\ \A k \in DOMAIN c : c[k] \in Whole
             /\ \A k \in Backup!Kinds : \A x \in Whole :
                   [i \in DOMAIN c \cup {k} |-> IF i = k THEN x ELSE c[i]] \in Collections
  <2>1. PICK D \in SUBSET Backup!Kinds : c \in [D -> Whole]
    BY DEF Collections
  <2>2. ASSUME NEW k \in Backup!Kinds, NEW x \in Whole
        PROVE  [i \in DOMAIN c \cup {k} |-> IF i = k THEN x ELSE c[i]] \in Collections
    <3>1. [i \in DOMAIN c \cup {k} |-> IF i = k THEN x ELSE c[i]] \in [D \cup {k} -> Whole]
      BY <2>1
    <3>2. D \cup {k} \in SUBSET Backup!Kinds
      BY <2>1
    <3> QED
      BY <3>1, <3>2 DEF Collections
  <2> QED
    BY <2>1, <2>2
<1> QED
  BY <1>1, <1>3, <1>4

\* The files are whole at the start, and nothing is under way.
LEMMA BackupInit ==
  ASSUME BackupAssumption, Backup!Init
  PROVE  BackupInv
<1>1. file \in [Backup!Kinds -> Whole]
  BY DEF Backup!Init, BackupAssumption, Whole, Backup!Contents
<1>2. Backup!Absent \in Whole /\ Backup!NoSave \in Saves
  BY DEF Whole, Saves, Backup!NoSave
<1>3. /\ Backup!NoJob \in BackupJobs /\ Backup!NoJob.pc = "idle" /\ Backup!NoJob.result = "none"
  BY CollectionsAreWhole DEF Backup!NoJob, BackupJobs
<1>4. BackupType
  BY <1>1, <1>2, <1>3, CollectionsAreWhole DEF BackupType, Backup!Init, Backup!Nothing
<1>5. SavesAreWhole
  BY DEF SavesAreWhole, Backup!Init, Backup!NoSave
<1>6. StagedIsArchived /\ ChangedIsRestored
  BY <1>3 DEF StagedIsArchived, ChangedIsRestored, Backup!Init
<1> QED
  BY <1>4, <1>5, <1>6 DEF BackupInv

\* What has to be shown of a step of the server, which leaves the tool alone.
LEMMA ServerSaves ==
  ASSUME BackupInv, UNCHANGED <<online, archive, job, before, staged>>,
         file' \in [Backup!Kinds -> Whole], temp' \in [Backup!Kinds -> Whole \cup {Backup!Torn}],
         writer' \in [Backup!Kinds -> Saves], SavesAreWhole',
         online \/ job.pc = "idle"
  PROVE  BackupInv'
<1>1. BackupType'
  BY DEF BackupInv, BackupType
<1>2. StagedIsArchived'
  BY DEF BackupInv, StagedIsArchived
<1>3. ChangedIsRestored'
  BY DEF BackupInv, ChangedIsRestored, Backup!RestoreIsFaithful, Backup!Idle
<1> QED
  BY <1>1, <1>2, <1>3 DEF BackupInv

\* The server saves what it has asked for, or stops before.
LEMMA SavesKeep ==
  ASSUME BackupAssumption, BackupInv, NEW k \in Backup!Kinds,
         \/ Backup!SaveOpen(k) \/ Backup!SaveWrite(k) \/ Backup!SaveRename(k)
         \/ Backup!SaveStops(k)
  PROVE  BackupInv'
<1>1. writer[k].pc # "idle"
  BY DEF Backup!SaveOpen, Backup!SaveWrite, Backup!SaveRename, Backup!SaveStops
<1>2. online \/ job.pc = "idle"
  BY <1>1 DEF BackupInv, ChangedIsRestored, BackupType
<1>3. UNCHANGED <<online, archive, job, before, staged>>
  BY DEF Backup!SaveOpen, Backup!SaveWrite, Backup!SaveRename, Backup!SaveStops
<1>4. writer[k] \in Saves /\ Backup!Absent \in Whole /\ Backup!NoSave \in Saves
  BY DEF BackupInv, BackupType, Whole, Saves, Backup!NoSave
<1>5. CASE Backup!SaveOpen(k)
  <2>1. /\ writer' = [writer EXCEPT ![k].pc = "write"]
        /\ temp' = [temp EXCEPT ![k] = Backup!Torn] /\ UNCHANGED file
    BY <1>5 DEF Backup!SaveOpen
  <2>2. writer' \in [Backup!Kinds -> Saves]
    BY <2>1, <1>4 DEF BackupInv, BackupType, Saves
  <2>3. SavesAreWhole'
    BY <2>1, <1>4 DEF BackupInv, SavesAreWhole, BackupType, Saves
  <2> QED
    BY <1>2, <1>3, <2>1, <2>2, <2>3, ServerSaves DEF BackupInv, BackupType
<1>6. CASE Backup!SaveWrite(k)
  <2>1. /\ writer' = [writer EXCEPT ![k].pc = "rename"]
        /\ temp' = [temp EXCEPT ![k] = writer[k].content] /\ UNCHANGED file
    BY <1>6 DEF Backup!SaveWrite
  <2>2. writer' \in [Backup!Kinds -> Saves] /\ writer[k].content \in Whole
    BY <2>1, <1>4 DEF BackupInv, BackupType, Saves
  <2>3. SavesAreWhole'
    BY <2>1, <1>4 DEF BackupInv, SavesAreWhole, BackupType, Saves
  <2> QED
    BY <1>2, <1>3, <2>1, <2>2, <2>3, ServerSaves DEF BackupInv, BackupType
<1>7. CASE Backup!SaveRename(k)
  <2>1. /\ writer' = [writer EXCEPT ![k] = Backup!NoSave] /\ writer[k].pc = "rename"
        /\ temp' = [temp EXCEPT ![k] = Backup!Absent] /\ file' = [file EXCEPT ![k] = temp[k]]
    BY <1>7 DEF Backup!SaveRename
  <2>2. temp[k] \in Whole
    BY <2>1, <1>4 DEF BackupInv, SavesAreWhole, Saves
  <2>3. SavesAreWhole'
    BY <2>1, <1>4 DEF BackupInv, SavesAreWhole, BackupType, Backup!NoSave
  <2> QED
    BY <1>2, <1>3, <1>4, <2>1, <2>2, <2>3, ServerSaves DEF BackupInv, BackupType
<1>8. CASE Backup!SaveStops(k)
  <2>1. writer' = [writer EXCEPT ![k] = Backup!NoSave] /\ UNCHANGED <<file, temp>>
    BY <1>8 DEF Backup!SaveStops
  <2>2. SavesAreWhole'
    BY <2>1, <1>4 DEF BackupInv, SavesAreWhole, BackupType, Backup!NoSave
  <2> QED
    BY <1>2, <1>3, <1>4, <2>1, <2>2, ServerSaves DEF BackupInv, BackupType
<1> QED
  BY <1>5, <1>6, <1>7, <1>8

\* The server begins a save, or loses a file.
LEMMA SaveBegins ==
  ASSUME BackupAssumption, BackupInv,
         \/ Backup!SaveReport \/ Backup!SaveSet \/ Backup!SaveReceipt
         \/ \E k \in Backup!Kinds : Backup!Lose(k)
  PROVE  BackupInv'
<1>1. ASSUME NEW k \in Backup!Kinds, NEW replace \in BOOLEAN, NEW schema \in {"legacy", "one"},
             Backup!Save(k, replace, schema)
      PROVE  BackupInv'
  <2>1. /\ UNCHANGED <<online, archive, job, before, staged, file, temp>>
        /\ online \/ job.pc = "idle"
        /\ \/ UNCHANGED writer
           \/ \E v \in Values : writer' = [writer EXCEPT ![k] =
                [pc |-> "open", content |-> [schema |-> schema, body |-> TRUE, value |-> v]]]
    BY <1>1 DEF Backup!Save, Backup!Idle
  <2>2. \A v \in Values :
          [pc |-> "open", content |-> [schema |-> schema, body |-> TRUE, value |-> v]] \in Saves
    BY DEF Saves, Whole, Backup!Contents
  <2>3. writer' \in [Backup!Kinds -> Saves]
    BY <2>1, <2>2 DEF BackupInv, BackupType
  <2>4. SavesAreWhole'
    BY <2>1 DEF BackupInv, SavesAreWhole, BackupType
  <2> QED
    BY <2>1, <2>3, <2>4, ServerSaves DEF BackupInv, BackupType
<1>2. ASSUME NEW k \in Backup!Kinds, Backup!Lose(k) PROVE BackupInv'
  <2>1. /\ UNCHANGED <<online, archive, job, before, staged, temp, writer>>
        /\ job.pc = "idle" /\ file' = [file EXCEPT ![k] = Backup!Absent]
    BY <1>2 DEF Backup!Lose, Backup!Idle
  <2>2. Backup!Absent \in Whole
    BY DEF Whole
  <2>3. SavesAreWhole'
    BY <2>1 DEF BackupInv, SavesAreWhole
  <2> QED
    BY <2>1, <2>2, <2>3, ServerSaves DEF BackupInv, BackupType
<1>3. "report" \in Backup!Kinds /\ "set" \in Backup!Kinds /\ "receipt" \in Backup!Kinds
  BY DEF Backup!Kinds
<1> QED
  BY <1>1, <1>2, <1>3 DEF Backup!SaveReport, Backup!SaveSet, Backup!SaveReceipt

\* What has to be shown of a step of the tool, which leaves the saves alone.
LEMMA ToolWorks ==
  ASSUME BackupInv, UNCHANGED <<online, temp, writer>>,
         archive' \in Archives, job' \in BackupJobs,
         file' \in [Backup!Kinds -> Whole], before' \in [Backup!Kinds -> Whole],
         staged' \in [Backup!Kinds -> Whole \cup {Backup!Torn}],
         StagedIsArchived', ChangedIsRestored'
  PROVE  BackupInv'
  BY DEF BackupInv, BackupType, SavesAreWhole

\* What is known of a run of the tool.
LEMMA JobIsTyped ==
  ASSUME BackupInv
  PROVE  /\ job \in BackupJobs /\ archive \in Archives /\ archive.entries \in Collections
         /\ file \in [Backup!Kinds -> Whole] /\ before \in [Backup!Kinds -> Whole]
         /\ staged \in [Backup!Kinds -> Whole \cup {Backup!Torn}]
         /\ job.read \in Collections /\ job.replace \in BOOLEAN
         /\ job.todo \subseteq Backup!Kinds
         /\ DOMAIN archive.entries \subseteq Backup!Kinds
         /\ \A k \in DOMAIN archive.entries : archive.entries[k] \in Whole
  BY CollectionsAreWhole DEF BackupInv, BackupType, BackupJobs, Archives

\* A run of the tool that ends is over, with what it reports.
LEMMA JobEnds ==
  ASSUME BackupInv, NEW result \in {"exported", "refused", "restored", "halfway"},
         Backup!Ends(result)
  PROVE  /\ job' \in BackupJobs /\ job'.pc = "done" /\ job'.result = result
         /\ job'.replace = job.replace
<1>1. job.replace \in BOOLEAN /\ Backup!NoArchive.entries \in Collections
  BY JobIsTyped, CollectionsAreWhole
<1> QED
  BY <1>1 DEF Backup!Ends, Backup!NoJob, BackupJobs

\* A run of the tool that ends leaves what a reader finds.
LEMMA EndsAsReported ==
  ASSUME BackupInv, NEW result \in {"exported", "refused", "restored", "halfway"},
         Backup!Ends(result), UNCHANGED <<online, temp, writer, file, before>>,
         job.pc \notin {"idle", "done"},
         archive' \in Archives, staged' \in [Backup!Kinds -> Whole \cup {Backup!Torn}],
         archive' = archive \/ job.pc = "export",
         result \in {"exported", "refused"} => job.pc # "promote",
         result = "restored" => /\ job.pc = "promote" /\ job.todo = {}
                                /\ UNCHANGED <<archive, staged>>
  PROVE  BackupInv'
<1>1. /\ job' \in BackupJobs /\ job'.pc = "done" /\ job'.result = result
      /\ job'.replace = job.replace
  BY JobEnds
<1>2. file' \in [Backup!Kinds -> Whole] /\ before' \in [Backup!Kinds -> Whole]
  BY JobIsTyped
<1>3. StagedIsArchived'
  BY <1>1 DEF StagedIsArchived
<1>4. ~online => \A k \in Backup!Kinds : writer[k].pc = "idle"
  BY DEF BackupInv, ChangedIsRestored
<1>5. ~online /\ job.pc # "promote" => file = before
  BY JobIsTyped DEF BackupInv, ChangedIsRestored, BackupJobs
<1>6. ~online /\ job.pc = "promote" =>
         /\ job.replace \/ \A k \in DOMAIN archive.entries : before[k] = Backup!Absent
         /\ \A k \in Backup!Kinds :
              IF k \in (DOMAIN archive.entries) \ job.todo
              THEN file[k] = archive.entries[k] ELSE file[k] = before[k]
         /\ \A k \in (DOMAIN archive.entries) \ job.todo : staged[k] = Backup!Absent
         /\ archive' = archive
  BY DEF BackupInv, ChangedIsRestored, StagedIsArchived
<1>7. ASSUME ~online
      PROVE  /\ \A k \in Backup!Kinds :
                   \/ file[k] = before[k]
                   \/ /\ k \in DOMAIN archive'.entries /\ file[k] = archive'.entries[k]
                      /\ job.replace \/ before[k] = Backup!Absent
             /\ result = "refused" => file = before
             /\ result = "restored" =>
                   \A k \in DOMAIN archive'.entries : /\ file[k] = archive'.entries[k]
                                                      /\ staged'[k] = Backup!Absent
  <2>1. CASE job.pc # "promote"
    BY <1>5, <1>7, <2>1
  <2>2. CASE job.pc = "promote"
    BY <1>6, <1>7, <2>2, JobIsTyped
  <2> QED
    BY <2>1, <2>2
<1>8. Backup!RestoreIsFaithful'
  BY <1>1, <1>7 DEF Backup!RestoreIsFaithful
<1>9. ChangedIsRestored'
  BY <1>1, <1>4, <1>8 DEF ChangedIsRestored
<1> QED
  BY <1>1, <1>2, <1>3, <1>9, ToolWorks

\* A run of the tool begins.
LEMMA JobBegins ==
  ASSUME BackupInv, NEW pc \in {"export", "validate"}, NEW replace \in BOOLEAN,
         NEW todo \in SUBSET Backup!Kinds, pc = "validate" => todo = DOMAIN archive.entries,
         Backup!Begins(pc, replace, todo), UNCHANGED <<online, file, temp, staged, writer, archive>>
  PROVE  BackupInv'
<1>1. Backup!NoArchive.entries \in Collections
  BY CollectionsAreWhole
<1>2. job' = [Backup!NoJob EXCEPT !.pc = pc, !.replace = replace, !.todo = todo] /\ before' = file
  BY DEF Backup!Begins
<1>3. /\ job' \in BackupJobs /\ job'.pc = pc /\ job'.todo = todo /\ job'.done = {}
      /\ job'.open = "none" /\ job'.result = "none"
  BY <1>1, <1>2 DEF Backup!NoJob, BackupJobs
<1>4. ~online => \A k \in Backup!Kinds : writer[k].pc = "idle"
  BY DEF Backup!Begins, Backup!Quiet
<1>5. StagedIsArchived'
  BY <1>3 DEF StagedIsArchived
<1>6. ChangedIsRestored'
  BY <1>2, <1>3, <1>4 DEF ChangedIsRestored
<1> QED
  BY <1>2, <1>3, <1>5, <1>6, JobIsTyped, ToolWorks

\* An export reads one file after the other and writes an archive of them.
LEMMA ExportKeeps ==
  ASSUME BackupInv,
         \/ Backup!ExportBegin \/ Backup!ExportEnd
         \/ \E k \in Backup!Kinds : Backup!ExportFile(k)
  PROVE  BackupInv'
<1>1. CASE Backup!ExportBegin
  <2>1. {k \in Backup!Kinds : file[k] # Backup!Absent} \in SUBSET Backup!Kinds
    OBVIOUS
  <2> QED
    BY <1>1, <2>1, JobBegins DEF Backup!ExportBegin
<1>2. CASE Backup!ExportEnd
  <2>1. /\ job.pc = "export" /\ Backup!Ends("exported")
        /\ archive' = [entries |-> job.read, sound |-> TRUE]
        /\ UNCHANGED <<online, file, temp, staged, writer, before>>
    BY <1>2 DEF Backup!ExportEnd
  <2>2. archive' \in Archives
    BY <2>1, JobIsTyped DEF Archives
  <2> QED
    BY <2>1, <2>2, EndsAsReported, JobIsTyped
<1>3. ASSUME NEW k \in Backup!Kinds, Backup!ExportFile(k) PROVE BackupInv'
  <2>1. /\ job.pc = "export" /\ k \in job.todo
        /\ UNCHANGED <<online, file, temp, staged, writer, archive, before>>
    BY <1>3 DEF Backup!ExportFile
  <2>2. CASE Backup!Valid(k, file[k])
    <3>1. PICK c : c = [i \in DOMAIN job.read \cup {k} |-> IF i = k THEN file[k] ELSE job.read[i]]
      OBVIOUS
    <3>2. c \in Collections
      BY <3>1, JobIsTyped, CollectionsAreWhole
    <3>3. job' = [job EXCEPT !.todo = @ \ {k}, !.read = c]
      BY <1>3, <2>2, <3>1 DEF Backup!ExportFile
    <3>4. /\ job' \in BackupJobs /\ job'.pc = job.pc /\ job'.result = job.result
      BY <3>2, <3>3, JobIsTyped DEF BackupJobs
    <3>5. StagedIsArchived' /\ ChangedIsRestored'
      BY <2>1, <3>4 DEF BackupInv, StagedIsArchived, ChangedIsRestored
    <3> QED
      BY <2>1, <3>4, <3>5, JobIsTyped, ToolWorks
  <2>3. CASE ~Backup!Valid(k, file[k])
    <3>1. Backup!Ends("refused")
      BY <1>3, <2>3 DEF Backup!ExportFile
    <3> QED
      BY <2>1, <3>1, EndsAsReported, JobIsTyped
  <2> QED
    BY <2>2, <2>3
<1> QED
  BY <1>1, <1>2, <1>3

\* A restore validates the archive, and looks for what is in its way.
LEMMA RestoreBegins ==
  ASSUME BackupInv, Backup!RestoreBegin \/ Backup!RestoreValidate \/ Backup!RestoreCheck
  PROVE  BackupInv'
<1>1. CASE Backup!RestoreBegin
  BY <1>1, JobBegins, JobIsTyped DEF Backup!RestoreBegin
<1>2. CASE Backup!RestoreValidate
  <2>1. /\ job.pc = "validate"
        /\ Backup!Ends("refused") \/ job' = [job EXCEPT !.pc = "check"]
        /\ UNCHANGED <<online, file, temp, staged, writer, archive, before>>
    BY <1>2 DEF Backup!RestoreValidate
  <2>2. CASE Backup!Ends("refused")
    BY <2>1, <2>2, EndsAsReported, JobIsTyped
  <2>3. CASE job' = [job EXCEPT !.pc = "check"]
    <3>1. /\ job' \in BackupJobs /\ job'.pc = "check" /\ job'.todo = job.todo
          /\ job'.done = job.done /\ job'.open = job.open /\ job'.result = job.result
      BY <2>3, JobIsTyped DEF BackupJobs
    <3>2. StagedIsArchived' /\ ChangedIsRestored'
      BY <2>1, <3>1 DEF BackupInv, StagedIsArchived, ChangedIsRestored
    <3> QED
      BY <2>1, <3>1, <3>2, JobIsTyped, ToolWorks
  <2> QED
    BY <2>1, <2>2, <2>3
<1>3. CASE Backup!RestoreCheck
  <2>1. /\ job.pc = "check"
        /\ UNCHANGED <<online, file, temp, staged, writer, archive, before>>
        /\ \/ Backup!Ends("refused")
           \/ /\ job' = [job EXCEPT !.pc = "stage"]
              /\ job.replace \/ \A k \in job.todo : file[k] = Backup!Absent
    BY <1>3 DEF Backup!RestoreCheck, Backup!Occupied
  <2>2. CASE Backup!Ends("refused")
    BY <2>1, <2>2, EndsAsReported, JobIsTyped
  <2>3. CASE /\ job' = [job EXCEPT !.pc = "stage"]
             /\ job.replace \/ \A k \in job.todo : file[k] = Backup!Absent
    <3>1. /\ job' \in BackupJobs /\ job'.pc = "stage" /\ job'.todo = job.todo
          /\ job'.done = job.done /\ job'.open = job.open /\ job'.result = job.result
          /\ job'.replace = job.replace
      BY <2>3, JobIsTyped DEF BackupJobs
    <3>2. StagedIsArchived'
      BY <2>1, <3>1 DEF BackupInv, StagedIsArchived
    <3>3. job.todo = DOMAIN archive.entries /\ (~online => file = before)
      BY <2>1 DEF BackupInv, StagedIsArchived, ChangedIsRestored
    <3>4. ChangedIsRestored'
      BY <2>1, <2>3, <3>1, <3>3 DEF BackupInv, ChangedIsRestored
    <3> QED
      BY <2>1, <3>1, <3>2, <3>4, JobIsTyped, ToolWorks
  <2> QED
    BY <2>1, <2>2, <2>3
<1> QED
  BY <1>1, <1>2, <1>3

\* Each file of the archive is staged, in whatever order.
LEMMA StageKeeps ==
  ASSUME BackupInv,
         \/ Backup!StageEnd
         \/ \E k \in Backup!Kinds : Backup!StageOpen(k) \/ Backup!StageWrite(k)
  PROVE  BackupInv'
<1>1. CASE Backup!StageEnd
  <2>1. /\ job.pc = "stage" /\ job.done = job.todo /\ job' = [job EXCEPT !.pc = "promote"]
        /\ UNCHANGED <<online, file, temp, staged, writer, archive, before>>
    BY <1>1 DEF Backup!StageEnd
  <2>2. /\ job' \in BackupJobs /\ job'.pc = "promote" /\ job'.todo = job.todo
        /\ job'.replace = job.replace /\ job'.result = job.result
    BY <2>1, JobIsTyped DEF BackupJobs
  <2>3. /\ job.todo = DOMAIN archive.entries /\ \A k \in job.todo : staged[k] = archive.entries[k]
    BY <2>1 DEF BackupInv, StagedIsArchived
  <2>4. StagedIsArchived'
    BY <2>1, <2>2, <2>3 DEF StagedIsArchived
  <2>5. ChangedIsRestored'
    BY <2>1, <2>2, <2>3 DEF BackupInv, ChangedIsRestored
  <2> QED
    BY <2>1, <2>2, <2>4, <2>5, JobIsTyped, ToolWorks
<1>2. ASSUME NEW k \in Backup!Kinds, Backup!StageOpen(k) PROVE BackupInv'
  <2>1. /\ job.pc = "stage" /\ k \in job.todo \ job.done /\ job' = [job EXCEPT !.open = k]
        /\ staged' = [staged EXCEPT ![k] = Backup!Torn]
        /\ UNCHANGED <<online, file, temp, writer, archive, before>>
    BY <1>2 DEF Backup!StageOpen
  <2>2. /\ job' \in BackupJobs /\ job'.pc = "stage" /\ job'.todo = job.todo /\ job'.open = k
        /\ job'.replace = job.replace /\ job'.result = job.result /\ job'.done = job.done
    BY <2>1, JobIsTyped DEF BackupJobs
  <2>3. StagedIsArchived'
    BY <2>1, <2>2, JobIsTyped DEF BackupInv, StagedIsArchived
  <2>4. ChangedIsRestored'
    BY <2>1, <2>2 DEF BackupInv, ChangedIsRestored
  <2> QED
    BY <2>1, <2>2, <2>3, <2>4, JobIsTyped, ToolWorks
<1>3. ASSUME NEW k \in Backup!Kinds, Backup!StageWrite(k) PROVE BackupInv'
  <2>1. /\ job.pc = "stage" /\ job.open = k
        /\ job' = [job EXCEPT !.open = "none", !.done = @ \cup {k}]
        /\ staged' = [staged EXCEPT ![k] = archive.entries[k]]
        /\ UNCHANGED <<online, file, temp, writer, archive, before>>
    BY <1>3 DEF Backup!StageWrite
  <2>2. /\ job' \in BackupJobs /\ job'.pc = "stage" /\ job'.todo = job.todo
        /\ job'.open = "none" /\ job'.done = job.done \cup {k}
        /\ job'.replace = job.replace /\ job'.result = job.result
    BY <2>1, JobIsTyped DEF BackupJobs
  <2>3. k \in job.todo /\ job.todo = DOMAIN archive.entries
    BY <2>1 DEF BackupInv, StagedIsArchived, Backup!Kinds
  <2>4. StagedIsArchived'
    BY <2>1, <2>2, <2>3, JobIsTyped DEF BackupInv, StagedIsArchived
  <2>5. ChangedIsRestored'
    BY <2>1, <2>2 DEF BackupInv, ChangedIsRestored
  <2>6. staged' \in [Backup!Kinds -> Whole \cup {Backup!Torn}]
    BY <2>1, <2>3, JobIsTyped
  <2> QED
    BY <2>1, <2>2, <2>4, <2>5, <2>6, JobIsTyped, ToolWorks
<1> QED
  BY <1>1, <1>2, <1>3

\* A staged file takes its name.
LEMMA PromoteKeeps ==
  ASSUME BackupInv, NEW k \in Backup!Kinds, Backup!Promote(k)
  PROVE  BackupInv'
<1>1. /\ job.pc = "promote" /\ k \in job.todo /\ job' = [job EXCEPT !.todo = @ \ {k}]
      /\ staged' = [staged EXCEPT ![k] = Backup!Absent]
      /\ file' = [file EXCEPT ![k] = staged[k]]
      /\ UNCHANGED <<online, temp, writer, archive, before>>
  BY DEF Backup!Promote
<1>2. /\ job' \in BackupJobs /\ job'.pc = "promote" /\ job'.todo = job.todo \ {k}
      /\ job'.replace = job.replace /\ job'.result = job.result
  BY <1>1, JobIsTyped DEF BackupJobs
<1>3. /\ k \in DOMAIN archive.entries /\ staged[k] = archive.entries[k]
      /\ archive.entries[k] \in Whole
  BY <1>1, JobIsTyped DEF BackupInv, StagedIsArchived
<1>4. /\ file' \in [Backup!Kinds -> Whole]
      /\ staged' \in [Backup!Kinds -> Whole \cup {Backup!Torn}]
      /\ file'[k] = archive.entries[k] /\ \A i \in Backup!Kinds \ {k} : file'[i] = file[i]
      /\ staged'[k] = Backup!Absent /\ \A i \in Backup!Kinds \ {k} : staged'[i] = staged[i]
  BY <1>1, <1>3, JobIsTyped DEF Whole
<1>5. StagedIsArchived'
  BY <1>1, <1>2, <1>4, JobIsTyped DEF BackupInv, StagedIsArchived
<1>6. ~online => \A i \in Backup!Kinds :
         IF i \in (DOMAIN archive.entries) \ job'.todo
         THEN file'[i] = archive.entries[i] ELSE file'[i] = before[i]
  BY <1>1, <1>2, <1>3, <1>4 DEF BackupInv, ChangedIsRestored
<1>7. ChangedIsRestored'
  BY <1>1, <1>2, <1>6 DEF BackupInv, ChangedIsRestored
<1> QED
  BY <1>1, <1>2, <1>4, <1>5, <1>7, JobIsTyped, ToolWorks

\* A run of the tool ends in one way or another, or somebody edits the archive.
LEMMA JobOver ==
  ASSUME BackupInv,
         \/ Backup!RestoreEnd \/ Backup!RestoreFails \/ Backup!Killed \/ Backup!Return
         \/ Backup!Tamper
  PROVE  BackupInv'
<1>1. CASE Backup!RestoreEnd
  BY <1>1, EndsAsReported, JobIsTyped DEF Backup!RestoreEnd
<1>2. CASE Backup!RestoreFails
  <2>1. /\ job.pc \in {"stage", "promote"}
        /\ staged' = [k \in Backup!Kinds |-> IF k \in job.done THEN Backup!Absent ELSE staged[k]]
        /\ Backup!Ends(IF job.pc = "stage" THEN "refused" ELSE "halfway")
        /\ UNCHANGED <<online, file, temp, writer, archive, before>>
    BY <1>2 DEF Backup!RestoreFails
  <2>2. staged' \in [Backup!Kinds -> Whole \cup {Backup!Torn}]
    BY <2>1, JobIsTyped DEF Whole
  <2>3. CASE job.pc = "stage"
    BY <2>1, <2>2, <2>3, EndsAsReported, JobIsTyped
  <2>4. CASE job.pc = "promote"
    BY <2>1, <2>2, <2>4, EndsAsReported, JobIsTyped
  <2> QED
    BY <2>1, <2>3, <2>4
<1>3. CASE Backup!Killed
  <2>1. CASE job.pc = "promote"
    BY <1>3, <2>1, EndsAsReported, JobIsTyped DEF Backup!Killed
  <2>2. CASE job.pc # "promote"
    BY <1>3, <2>2, EndsAsReported, JobIsTyped DEF Backup!Killed
  <2> QED
    BY <2>1, <2>2
<1>4. CASE Backup!Return
  <2>1. job' = Backup!NoJob /\ UNCHANGED <<online, file, temp, staged, writer, archive, before>>
    BY <1>4 DEF Backup!Return
  <2>2. job' \in BackupJobs /\ job'.pc = "idle" /\ job'.result = "none"
    BY <2>1, CollectionsAreWhole DEF Backup!NoJob, BackupJobs
  <2>3. StagedIsArchived' /\ ChangedIsRestored'
    BY <2>2 DEF StagedIsArchived, ChangedIsRestored
  <2> QED
    BY <2>1, <2>2, <2>3, JobIsTyped, ToolWorks
<1>5. CASE Backup!Tamper
  <2>1. /\ job.pc = "idle" /\ archive' = [archive EXCEPT !.sound = FALSE]
        /\ UNCHANGED <<online, file, temp, staged, writer, job, before>>
    BY <1>5 DEF Backup!Tamper, Backup!Idle
  <2>2. archive' \in Archives
    BY <2>1, JobIsTyped DEF Archives
  <2>3. StagedIsArchived' /\ ChangedIsRestored'
    BY <2>1 DEF BackupInv, StagedIsArchived, ChangedIsRestored
  <2> QED
    BY <2>1, <2>2, <2>3, JobIsTyped, ToolWorks
<1> QED
  BY <1>1, <1>2, <1>3, <1>4, <1>5

\* The invariant holds in every behaviour.
LEMMA BackupInvHolds ==
  ASSUME BackupAssumption
  PROVE  KeptSpec => [](component = "backup" => BackupInv)
<1>1. ASSUME BackupInv, Backup!Next PROVE BackupInv'
  BY <1>1, SavesKeep, SaveBegins, ExportKeeps, RestoreBegins, StageKeeps, PromoteKeeps, JobOver
  DEF Backup!Next
<1>2. ASSUME BackupInv, UNCHANGED Backup!vars PROVE BackupInv'
  <2>1. UNCHANGED <<online, file, temp, staged, writer, archive, job, before>>
    BY <1>2 DEF Backup!vars
  <2>2. StagedIsArchived' /\ ChangedIsRestored'
    BY <1>2, <2>1
    DEF BackupInv, StagedIsArchived, ChangedIsRestored, Backup!RestoreIsFaithful, Backup!Idle
  <2> QED
    BY <1>2, <2>1, <2>2, JobIsTyped, ToolWorks
<1>3. BackupInv /\ [Backup!Next]_(Backup!vars) => BackupInv'
  BY <1>1, <1>2
<1>4. KeptInit => (component = "backup" => BackupInv)
  BY BackupInit DEF KeptInit
<1>5. (component = "backup" => BackupInv) /\ [KeptNext]_storesVars
         => (component = "backup" => BackupInv)'
  BY <1>3, SameStore
<1> QED
  BY <1>4, <1>5, PTL DEF KeptSpec

\* A reader finds every file whole or not at all, whatever is killed or fails; and while the
\* server is stopped, a restore that is refused has changed nothing, one that is finished has
\* restored everything, and one that breaks off has changed nothing but to what was archived
\* (state_backup.py, evaluation_history.py, artifact_verification.py).
THEOREM BackupsAreFaithful ==
  ASSUME BackupAssumption
  PROVE  KeptSpec => []FilesAreWhole
<1>1. ASSUME BackupInv PROVE Backup!FilesAreWhole /\ Backup!RestoreIsFaithful
  <2>1. Backup!FilesAreWhole
    BY <1>1, CollectionsAreWhole DEF BackupInv, BackupType, Backup!FilesAreWhole
  <2>2. CASE job.pc = "done"
    BY <1>1, <2>1, <2>2 DEF BackupInv, ChangedIsRestored
  <2>3. CASE job.pc # "done" /\ ~online /\ job.pc # "idle"
    <3>1. job.result = "none"
      BY <1>1, <2>3 DEF BackupInv, ChangedIsRestored
    <3>2. CASE job.pc = "promote"
      <4>1. job.replace \/ \A k \in DOMAIN archive.entries : before[k] = Backup!Absent
        BY <1>1, <2>3, <3>2 DEF BackupInv, ChangedIsRestored
      <4>2. \A k \in Backup!Kinds :
              IF k \in (DOMAIN archive.entries) \ job.todo
              THEN file[k] = archive.entries[k] ELSE file[k] = before[k]
        BY <1>1, <2>3, <3>2 DEF BackupInv, ChangedIsRestored
      <4> QED
        BY <2>1, <3>1, <4>1, <4>2 DEF Backup!RestoreIsFaithful
    <3>3. CASE job.pc # "promote"
      <4>1. file = before
        BY <1>1, <2>3, <3>3, JobIsTyped DEF BackupInv, ChangedIsRestored, BackupJobs
      <4> QED
        BY <2>1, <3>1, <4>1 DEF Backup!RestoreIsFaithful
    <3> QED
      BY <3>2, <3>3
  <2>4. CASE online \/ job.pc = "idle"
    BY <2>1, <2>4 DEF Backup!RestoreIsFaithful, Backup!Idle
  <2> QED
    BY <2>2, <2>3, <2>4
<1>2. (component = "backup" => BackupInv) => FilesAreWhole
  BY <1>1 DEF FilesAreWhole
<1> QED
  BY <1>2, BackupInvHolds, PTL

-----------------------------------------------------------------------------
(* EvaluationRuns: reports that are alike are of engines that were.          *)

\* Configurations and policies are of those that there are.
EvaluationsAssumption ==
    Configs \subseteq Evaluations!Settings /\ AskedPolicies \subseteq Evaluations!Policies /\ MaxLoads \in Nat

Prints == {Evaluations!Unknown} \cup ({1, 2} \X Evaluations!Settings)
Profiles ==
    [requested : Evaluations!Policies, mode : {"none", "switchable", "always"},
     effective : {"on", "off"}, override : {"unset", "on", "off"}]
Outcomes == [ok : BOOLEAN, by : Nat, thought : BOOLEAN]
Scores == UNION {[D -> Outcomes] : D \in SUBSET Samples}

Generations ==
    [config : Evaluations!Settings \cup {Evaluations!Unknown}, file : {0, 1, 2}, print : Prints,
     moved : BOOLEAN, pc : {"none", "published", "captured"}]
EvaluationsOfSets ==
    [pc : {"idle", "resolve", "next", "admit", "lease", "execute", "saved", "refused"},
     policy : Evaluations!Policies, data : TestSets \cup {Evaluations!Unknown}, gen : Nat,
     print : Prints, profile : Profiles \cup {Evaluations!Unknown},
     sample : Samples \cup {Evaluations!Unknown}, result : Scores]

\* An identity is of the configuration of a runtime and, unless it was vouched for, of its
\* file.
NamedBy(x, print) ==
    print # Evaluations!Unknown =>
        /\ print[2] = x.config
        /\ print[1] = x.file \/ x.config.pin # Evaluations!NoPin \/ x.moved

\* A runtime is loaded from the file that lies there; one whose file is replaced before it is
\* identified knows.
Identified(x) ==
    /\ x.config \in Evaluations!Settings
    /\ x.pc = "published" => x.file = current \/ x.moved
    /\ NamedBy(x, x.print)

\* A run that has a runtime reports of that one, and of no sample that another answered.
Reports(x) ==
    /\ x \in EvaluationsOfSets
    /\ x.pc \in {"idle", "resolve"} => DOMAIN x.result = {}
    /\ x.pc \in {"admit", "lease", "execute"} => x.sample \in Samples
    /\ x.pc \in {"next", "admit", "lease", "execute", "saved"} =>
          /\ x.gen \in 1..loads
          /\ x.profile = Evaluations!Profile(x.policy, runtime[x.gen].config)
          /\ NamedBy(runtime[x.gen], x.print)
          /\ \A s \in DOMAIN x.result : x.result[s].ok =>
                /\ x.result[s].by = x.gen
                /\ x.result[s].thought =
                      Evaluations!Thinks(runtime[x.gen].config, x.profile.override)

EvaluationsInv ==
    /\ current \in {1, 2} /\ data \in TestSets
    /\ loads \in 0..MaxLoads /\ resident \in 0..loads
    /\ runtime \in [1..MaxLoads -> Generations]
    /\ \A g \in 1..loads : Identified(runtime[g])
    /\ \A g \in (loads + 1)..MaxLoads : runtime[g].pc = "none"
    /\ DOMAIN run = Runs /\ run = [r \in Runs |-> run[r]]
    /\ \A r \in Runs : Reports(run[r])
    /\ saved \subseteq {r \in Runs : run[r].pc = "saved"}

\* The profile says how the engine answers.
LEMMA ProfilesAreTrue ==
  ASSUME NEW policy \in Evaluations!Policies, NEW c \in Evaluations!Settings
  PROVE  /\ Evaluations!Profile(policy, c) \in Profiles
         /\ Evaluations!Thinks(c, Evaluations!Profile(policy, c).override)
              = (Evaluations!Profile(policy, c).effective = "on")
         /\ \A o : Evaluations!Thinks(c, o) \in BOOLEAN
<1>1. c.thinking \in {"none", "switchable", "always"} /\ c.default \in BOOLEAN
  BY DEF Evaluations!Settings
<1>2. CASE c.thinking = "none"
  BY <1>2 DEF Evaluations!Profile, Evaluations!Thinks, Evaluations!Effective,
              Evaluations!Override, Evaluations!Policies, Profiles
<1>3. CASE c.thinking = "always"
  BY <1>3 DEF Evaluations!Profile, Evaluations!Thinks, Evaluations!Effective,
              Evaluations!Override, Evaluations!Policies, Profiles
<1>4. CASE c.thinking = "switchable"
  BY <1>1, <1>4 DEF Evaluations!Profile, Evaluations!Thinks, Evaluations!Effective,
              Evaluations!Override, Evaluations!Policies, Profiles
<1> QED
  BY <1>1, <1>2, <1>3, <1>4

\* Scores grow by one sample.
LEMMA ScoresGrow ==
  /\ Evaluations!NoRun \in EvaluationsOfSets
  /\ DOMAIN Evaluations!NoRun.result = {}
  /\ \A f \in Scores : \A s \in Samples : \A o \in Outcomes :
        [i \in DOMAIN f \cup {s} |-> IF i = s THEN o ELSE f[i]] \in Scores
<1>1. [s \in {} |-> Evaluations!Unknown] \in [{} -> Outcomes]
  OBVIOUS
<1>2. Evaluations!NoRun \in EvaluationsOfSets /\ DOMAIN Evaluations!NoRun.result = {}
  BY <1>1 DEF Evaluations!NoRun, EvaluationsOfSets, Scores, Prints, Evaluations!Policies,
              Evaluations!Cold
<1>3. ASSUME NEW f \in Scores, NEW s \in Samples, NEW o \in Outcomes
      PROVE  [i \in DOMAIN f \cup {s} |-> IF i = s THEN o ELSE f[i]] \in Scores
  <2>1. PICK D \in SUBSET Samples : f \in [D -> Outcomes]
    BY DEF Scores
  <2>2. [i \in DOMAIN f \cup {s} |-> IF i = s THEN o ELSE f[i]] \in [D \cup {s} -> Outcomes]
    BY <2>1
  <2>3. D \cup {s} \in SUBSET Samples
    BY <2>1
  <2> QED
    BY <2>2, <2>3 DEF Scores
<1> QED
  BY <1>2, <1>3

\* What is loaded has its place among the runtimes.
LEMMA RuntimesTyped ==
  ASSUME EvaluationsAssumption, EvaluationsInv
  PROVE  /\ MaxLoads \in Nat /\ loads \in Nat /\ loads <= MaxLoads
         /\ resident \in Nat /\ resident <= loads /\ Evaluations!Cold = 0
         /\ \A g \in 1..loads :
               /\ g \in 1..MaxLoads /\ g \in Nat
               /\ runtime[g] \in Generations /\ Identified(runtime[g])
         /\ \A g \in 1..MaxLoads : runtime[g].pc # "none" => g \in 1..loads
<1>1. /\ MaxLoads \in Nat /\ loads \in Nat /\ loads <= MaxLoads
      /\ resident \in Nat /\ resident <= loads /\ Evaluations!Cold = 0
  BY DEF EvaluationsAssumption, EvaluationsInv, Evaluations!Cold
<1>2. ASSUME NEW g \in 1..loads
      PROVE  /\ g \in 1..MaxLoads /\ g \in Nat
             /\ runtime[g] \in Generations /\ Identified(runtime[g])
  BY <1>1, <1>2 DEF EvaluationsInv
<1>3. ASSUME NEW g \in 1..MaxLoads, runtime[g].pc # "none" PROVE g \in 1..loads
  BY <1>1, <1>3 DEF EvaluationsInv
<1> QED
  BY <1>1, <1>2, <1>3

\* Nothing is loaded or run at the start.
LEMMA EvaluationsInit ==
  ASSUME EvaluationsAssumption, Evaluations!Init
  PROVE  EvaluationsInv
<1>1. Evaluations!NoRuntime \in Generations /\ Evaluations!NoRuntime.pc = "none"
  BY DEF Evaluations!NoRuntime, Generations, Prints
<1>2. Reports(Evaluations!NoRun)
  BY ScoresGrow DEF Reports, Evaluations!NoRun
<1> QED
  BY <1>1, <1>2 DEF EvaluationsInv, Evaluations!Init, EvaluationsAssumption, Evaluations!Cold

\* A step of a run leaves the runtimes alone, and a report that is saved stays.
LEMMA RunSteps ==
  ASSUME EvaluationsInv, NEW r \in Runs, NEW x, Reports(x), run[r].pc # "saved",
         run' = [run EXCEPT ![r] = x],
         saved' = saved \/ (x.pc = "saved" /\ saved' = saved \cup {r}),
         UNCHANGED <<data, current, runtime, resident, loads, replaced>>
  PROVE  EvaluationsInv'
<1>1. run' = [q \in Runs |-> IF q = r THEN x ELSE run[q]]
  BY DEF EvaluationsInv
<1>2. \A q \in Runs : Reports(run'[q])
  BY <1>1 DEF EvaluationsInv
<1>3. \A q \in Runs : Reports(run[q])'
  BY <1>2 DEF Reports
<1>4. \A g \in 1..loads : Identified(runtime[g])'
  BY DEF EvaluationsInv, Identified
<1>5. saved' \subseteq {q \in Runs : run'[q].pc = "saved"}
  BY <1>1 DEF EvaluationsInv
<1>6. DOMAIN run' = Runs /\ run' = [q \in Runs |-> run'[q]]
  BY <1>1
<1> QED
  BY <1>3, <1>4, <1>5, <1>6 DEF EvaluationsInv

\* A run keeps what it was prepared with from one sample to the next.
LEMMA SampleSteps ==
  ASSUME EvaluationsInv, NEW r \in Runs,
         run[r].pc \in {"next", "admit", "lease", "execute"}
  PROVE  /\ \A s \in Samples : Reports([run[r] EXCEPT !.pc = "admit", !.sample = s])
         /\ run[r].pc # "next" => /\ Reports([run[r] EXCEPT !.pc = "lease"])
                                 /\ Reports([run[r] EXCEPT !.pc = "execute"])
         /\ run[r].pc = "next" => Reports([run[r] EXCEPT !.pc = "saved"])
<1>1. Reports(run[r])
  BY DEF EvaluationsInv
<1>2. ASSUME NEW x, NEW s \in Samples,
             \/ x = [run[r] EXCEPT !.pc = "admit", !.sample = s]
             \/ run[r].pc # "next" /\ x = [run[r] EXCEPT !.pc = "lease"]
             \/ run[r].pc # "next" /\ x = [run[r] EXCEPT !.pc = "execute"]
      PROVE  Reports(x)
  <2>1. /\ x \in EvaluationsOfSets /\ x.gen = run[r].gen /\ x.profile = run[r].profile
        /\ x.print = run[r].print /\ x.result = run[r].result /\ x.policy = run[r].policy
        /\ x.pc \in {"admit", "lease", "execute"} /\ x.sample \in Samples
    BY <1>1, <1>2 DEF Reports, EvaluationsOfSets
  <2> QED
    BY <1>1, <2>1 DEF Reports
<1>3. ASSUME NEW x, run[r].pc = "next", x = [run[r] EXCEPT !.pc = "saved"] PROVE Reports(x)
  <2>1. /\ x \in EvaluationsOfSets /\ x.gen = run[r].gen /\ x.profile = run[r].profile
        /\ x.print = run[r].print /\ x.result = run[r].result /\ x.policy = run[r].policy
        /\ x.pc = "saved"
    BY <1>1, <1>3 DEF Reports, EvaluationsOfSets
  <2> QED
    BY <1>1, <2>1 DEF Reports
<1>4. run[r].pc # "next" => run[r].sample \in Samples
  BY <1>1 DEF Reports
<1> QED
  BY <1>2, <1>3, <1>4

\* A sample is recorded as failed, or as what the runtime of the run answered.
LEMMA SampleRecorded ==
  ASSUME EvaluationsInv, NEW r \in Runs, NEW o \in Outcomes,
         run[r].pc \in {"admit", "lease", "execute"},
         o.ok => /\ o.by = run[r].gen
                 /\ o.thought = Evaluations!Thinks(runtime[run[r].gen].config,
                                                   run[r].profile.override)
  PROVE  Reports(Evaluations!Recorded(r, o))
<1> DEFINE x == Evaluations!Recorded(r, o)
<1>1. Reports(run[r]) /\ run[r].sample \in Samples
  BY DEF EvaluationsInv, Reports
<1>2. PICK f : f = [i \in DOMAIN run[r].result \cup {run[r].sample} |->
                      IF i = run[r].sample THEN o ELSE run[r].result[i]]
  OBVIOUS
<1>3. f \in Scores
  BY <1>1, <1>2, ScoresGrow DEF Reports, EvaluationsOfSets
<1>4. x = [run[r] EXCEPT !.pc = "next", !.sample = Evaluations!Unknown, !.result = f]
  BY <1>1, <1>2 DEF Evaluations!Recorded, Reports, EvaluationsOfSets
<1>5. /\ x \in EvaluationsOfSets /\ x.pc = "next" /\ x.gen = run[r].gen
      /\ x.profile = run[r].profile /\ x.print = run[r].print /\ x.policy = run[r].policy
      /\ x.result = f
  BY <1>1, <1>3, <1>4 DEF Reports, EvaluationsOfSets
<1>6. \A s \in DOMAIN f : f[s].ok =>
        /\ f[s].by = run[r].gen
        /\ f[s].thought = Evaluations!Thinks(runtime[run[r].gen].config, run[r].profile.override)
  BY <1>1, <1>2 DEF Reports
<1> QED
  BY <1>1, <1>5, <1>6 DEF Reports

\* One step of a run.
LEMMA RunsReport ==
  ASSUME EvaluationsAssumption, EvaluationsInv, NEW r \in Runs,
         \/ Evaluations!ResolveSet(r) \/ Evaluations!Prepare(r) \/ Evaluations!NextSample(r)
         \/ Evaluations!Admit(r) \/ Evaluations!Lease(r) \/ Evaluations!Execute(r)
         \/ Evaluations!Save(r) \/ Evaluations!Abort(r)
  PROVE  EvaluationsInv'
<1> USE DEF Evaluations!Set, Evaluations!Unchanged
<1>0. Reports(run[r]) /\ Evaluations!Failure \in Outcomes /\ ~Evaluations!Failure.ok
  BY DEF EvaluationsInv, Outcomes, Evaluations!Failure, Evaluations!Cold
<1>1. CASE Evaluations!ResolveSet(r)
  <2>1. PICK policy \in Evaluations!Policies :
          run' = [run EXCEPT ![r] = [Evaluations!NoRun EXCEPT !.pc = "resolve",
                                                  !.policy = policy, !.data = data]]
    BY <1>1 DEF Evaluations!ResolveSet, EvaluationsAssumption
  <2>2. Reports([Evaluations!NoRun EXCEPT !.pc = "resolve", !.policy = policy, !.data = data])
    BY ScoresGrow DEF Reports, EvaluationsOfSets, EvaluationsInv
  <2> QED
    BY <1>1, <2>1, <2>2, RunSteps DEF Evaluations!ResolveSet
<1>2. CASE Evaluations!Prepare(r)
  <2>1. Reports([Evaluations!NoRun EXCEPT !.pc = "refused"])
    BY ScoresGrow DEF Reports, EvaluationsOfSets
  <2>2. CASE resident # Evaluations!Cold
    <3>1. PICK g \in 1..loads : g = resident
      BY <2>2, RuntimesTyped
    <3>2. /\ runtime[g] \in Generations /\ runtime[g].print \in Prints /\ g \in Nat
          /\ runtime[g].config \in Evaluations!Settings
          /\ NamedBy(runtime[g], runtime[g].print)
      BY <3>1, RuntimesTyped DEF Generations, Identified
    <3>3. PICK p : p = Evaluations!Profile(run[r].policy, runtime[g].config)
      OBVIOUS
    <3>4. p \in Profiles
      BY <1>0, <3>2, <3>3, ProfilesAreTrue DEF Reports, EvaluationsOfSets
    <3> DEFINE x == [run[r] EXCEPT !.pc = "next", !.gen = g, !.print = runtime[g].print,
                       !.profile = p]
    <3>5. x \in EvaluationsOfSets
      BY <1>0, <3>2, <3>4 DEF Reports, EvaluationsOfSets
    <3>6. Reports(x)
      BY <1>0, <1>2, <3>1, <3>2, <3>3, <3>5
      DEF Reports, EvaluationsOfSets, Evaluations!Prepare, EvaluationsInv
    <3>7. CASE run' = [run EXCEPT ![r] = x]
      BY <1>2, <3>6, <3>7, RunSteps DEF Evaluations!Prepare
    <3>8. CASE run' = [run EXCEPT ![r] = [Evaluations!NoRun EXCEPT !.pc = "refused"]]
      BY <1>2, <2>1, <3>8, RunSteps DEF Evaluations!Prepare
    <3> QED
      BY <1>2, <3>1, <3>3, <3>7, <3>8 DEF Evaluations!Prepare, Evaluations!Identity
  <2>3. CASE resident = Evaluations!Cold
    BY <1>2, <2>1, <2>3, RunSteps DEF Evaluations!Prepare
  <2> QED
    BY <2>2, <2>3
<1>3. CASE Evaluations!NextSample(r)
  <2>1. PICK s \in Samples : run' = [run EXCEPT ![r] = [run[r] EXCEPT !.pc = "admit", !.sample = s]]
    BY <1>3 DEF Evaluations!NextSample, Evaluations!Left
  <2>2. Reports([run[r] EXCEPT !.pc = "admit", !.sample = s])
    <3>1. run[r].pc = "next"
      BY <1>3 DEF Evaluations!NextSample
    <3> QED
      BY <3>1, SampleSteps
  <2> QED
    BY <1>3, <2>1, <2>2, RunSteps DEF Evaluations!NextSample
<1>4. CASE Evaluations!Admit(r)
  <2>1. CASE run' = [run EXCEPT ![r] = Evaluations!Recorded(r, Evaluations!Failure)]
    <3>1. Reports(Evaluations!Recorded(r, Evaluations!Failure))
      BY <1>0, <1>4, SampleRecorded DEF Evaluations!Admit
    <3> QED
      BY <1>4, <2>1, <3>1, RunSteps DEF Evaluations!Admit
  <2>2. CASE run' = [run EXCEPT ![r] = [run[r] EXCEPT !.pc = "lease"]]
    <3>1. run[r].pc \in {"admit", "lease"}
      BY <1>4 DEF Evaluations!Admit
    <3>2. Reports([run[r] EXCEPT !.pc = "lease"])
      BY <3>1, SampleSteps
    <3> QED
      BY <1>4, <2>2, <3>2, RunSteps DEF Evaluations!Admit
  <2> QED
    BY <1>4, <2>1, <2>2 DEF Evaluations!Admit
<1>5. CASE Evaluations!Lease(r)
  <2>1. CASE run' = [run EXCEPT ![r] = Evaluations!Recorded(r, Evaluations!Failure)]
    <3>1. Reports(Evaluations!Recorded(r, Evaluations!Failure))
      BY <1>0, <1>5, SampleRecorded DEF Evaluations!Lease
    <3> QED
      BY <1>5, <2>1, <3>1, RunSteps DEF Evaluations!Lease
  <2>2. CASE run' = [run EXCEPT ![r] = [run[r] EXCEPT !.pc = "execute"]]
    <3>1. run[r].pc \in {"admit", "lease"}
      BY <1>5 DEF Evaluations!Lease
    <3>2. Reports([run[r] EXCEPT !.pc = "execute"])
      BY <3>1, SampleSteps
    <3> QED
      BY <1>5, <2>2, <3>2, RunSteps DEF Evaluations!Lease
  <2> QED
    BY <1>5, <2>1, <2>2 DEF Evaluations!Lease
<1>6. CASE Evaluations!Execute(r)
  <2> DEFINE answer == [ok |-> TRUE, by |-> Evaluations!Executor(r),
                        thought |-> Evaluations!Thinks(runtime[Evaluations!Executor(r)].config,
                                                       run[r].profile.override)]
  <2>1. PICK o \in {Evaluations!Failure, answer} : run' = [run EXCEPT ![r] = Evaluations!Recorded(r, o)]
    BY <1>6 DEF Evaluations!Execute
  <2>2. run[r].pc = "execute" /\ run[r].gen \in 1..loads /\ run[r].gen \in Nat
    BY <1>0, <1>6 DEF Evaluations!Execute, Reports, EvaluationsOfSets
  <2>3. runtime[run[r].gen].config \in Evaluations!Settings
    BY <2>2 DEF EvaluationsInv, Identified
  <2>4. Evaluations!Thinks(runtime[run[r].gen].config, run[r].profile.override) \in BOOLEAN
    BY <1>0, <2>3, ProfilesAreTrue DEF Reports, EvaluationsOfSets
  <2>5. answer \in Outcomes
    BY <2>2, <2>4 DEF Outcomes, Evaluations!Executor
  <2>6. Reports(Evaluations!Recorded(r, o))
    BY <1>0, <2>1, <2>2, <2>5, SampleRecorded DEF Evaluations!Executor
  <2> QED
    BY <1>6, <2>1, <2>6, RunSteps DEF Evaluations!Execute
<1>7. CASE Evaluations!Save(r)
  <2>1. run[r].pc = "next"
    BY <1>7 DEF Evaluations!Save
  <2>2. Reports([run[r] EXCEPT !.pc = "saved"])
    BY <2>1, SampleSteps
  <2>3. [run[r] EXCEPT !.pc = "saved"].pc = "saved"
    BY <1>0 DEF Reports, EvaluationsOfSets
  <2> QED
    BY <1>7, <2>1, <2>2, <2>3, RunSteps DEF Evaluations!Save
<1>8. CASE Evaluations!Abort(r)
  <2>1. Reports([Evaluations!NoRun EXCEPT !.pc = "refused"])
    BY ScoresGrow DEF Reports, EvaluationsOfSets
  <2> QED
    BY <1>8, <2>1, RunSteps DEF Evaluations!Abort
<1> QED
  BY <1>1, <1>2, <1>3, <1>4, <1>5, <1>6, <1>7, <1>8

\* What a run has is not touched by loads and identities that come later.
LEMMA RuntimeSteps ==
  ASSUME EvaluationsInv, NEW n \in 0..MaxLoads, NEW m \in 0..n,
         loads \in 0..n, loads' = n, resident' = m,
         runtime' \in [1..MaxLoads -> Generations],
         \A g \in 1..loads : /\ runtime'[g].config = runtime[g].config
                             /\ runtime'[g].file = runtime[g].file
                             /\ runtime[g].moved => runtime'[g].moved,
         \A g \in 1..n : Identified(runtime[g])',
         \A g \in (n + 1)..MaxLoads : runtime'[g].pc = "none",
         current' \in {1, 2}, data' \in TestSets, UNCHANGED <<run, saved>>
  PROVE  EvaluationsInv'
<1>1. ASSUME NEW r \in Runs PROVE Reports(run[r])'
  <2>1. Reports(run[r]) /\ run'[r] = run[r]
    BY DEF EvaluationsInv
  <2>2. loads \in Nat /\ 1..loads \subseteq 1..n
    OBVIOUS
  <2> QED
    BY <2>1, <2>2 DEF Reports, NamedBy
<1> QED
  BY <1>1 DEF EvaluationsInv

\* Runtimes are loaded and identified, while files and test sets are replaced.
LEMMA RuntimesChange ==
  ASSUME EvaluationsAssumption, EvaluationsInv,
         \/ Evaluations!Publish \/ Evaluations!Unload \/ Evaluations!ReplaceFile
         \/ Evaluations!ImportSet \/ \E g \in 1..MaxLoads : Evaluations!Capture(g)
  PROVE  EvaluationsInv'
<1>1. CASE Evaluations!Publish
  <2>0. PICK n : n = loads + 1 /\ n \in 1..MaxLoads
    BY <1>1, RuntimesTyped DEF Evaluations!Publish
  <2>1. PICK c \in Configs :
             /\ loads' = n /\ resident' = n
             /\ runtime' = [runtime EXCEPT ![n] =
                  [config |-> c, file |-> current, print |-> Evaluations!Unknown,
                   moved |-> FALSE,
                   pc |-> IF resident = Evaluations!Cold THEN "published" ELSE "captured"]]
             /\ UNCHANGED <<data, current, run, saved>>
    BY <1>1, <2>0 DEF Evaluations!Publish
  <2>2. PICK x : x = [config |-> c, file |-> current, print |-> Evaluations!Unknown,
                      moved |-> FALSE,
                      pc |-> IF resident = Evaluations!Cold THEN "published" ELSE "captured"]
    OBVIOUS
  <2>3. x \in Generations /\ x.file = current /\ x.print = Evaluations!Unknown
        /\ x.config \in Evaluations!Settings
    BY <2>2 DEF Generations, Prints, EvaluationsInv, EvaluationsAssumption
  <2>4. runtime' = [g \in 1..MaxLoads |-> IF g = n THEN x ELSE runtime[g]]
    BY <2>1, <2>2 DEF EvaluationsInv
  <2>5. \A g \in 1..n : Identified(runtime[g])'
    BY <2>0, <2>1, <2>3, <2>4 DEF EvaluationsInv, Identified, NamedBy
  <2>6. /\ n \in 0..MaxLoads /\ n \in 0..n /\ loads \in 0..n
        /\ runtime' \in [1..MaxLoads -> Generations]
        /\ \A g \in 1..loads : runtime'[g] = runtime[g]
        /\ \A g \in (n + 1)..MaxLoads : runtime'[g].pc = "none"
    BY <2>0, <2>1, <2>3, <2>4 DEF EvaluationsInv
  <2>7. current' \in {1, 2} /\ data' \in TestSets
    BY <2>1 DEF EvaluationsInv
  <2> QED
    BY <2>0, <2>1, <2>5, <2>6, <2>7, RuntimeSteps
<1>2. CASE \E g \in 1..MaxLoads : Evaluations!Capture(g)
  <2>1. PICK g \in 1..MaxLoads : Evaluations!Capture(g)
    BY <1>2
  <2>2. g \in 1..loads
    BY <2>1 DEF Evaluations!Capture, EvaluationsInv, EvaluationsAssumption
  <2> DEFINE d == Evaluations!ArtifactDigest(runtime[g].config)
  <2>3. PICK p \in {Evaluations!Unknown, <<d, runtime[g].config>>} :
          runtime' = [runtime EXCEPT ![g].print = p, ![g].pc = "captured"]
    BY <2>1 DEF Evaluations!Capture
  <2>4. PICK x : x = [runtime[g] EXCEPT !.print = p, !.pc = "captured"]
    OBVIOUS
  <2>5. runtime[g] \in Generations /\ Identified(runtime[g])
    BY <2>2 DEF EvaluationsInv
  <2>6. p \in Prints
    <3>1. d \in {1, 2}
      BY <2>5 DEF Evaluations!ArtifactDigest, Evaluations!NoPin, Evaluations!Settings, Identified,
                  EvaluationsInv
    <3> QED
      BY <2>3, <2>5, <3>1 DEF Prints, Identified
  <2>7. /\ x \in Generations /\ x.config = runtime[g].config /\ x.file = runtime[g].file
        /\ x.print = p /\ x.pc = "captured" /\ x.moved = runtime[g].moved
    BY <2>4, <2>5, <2>6 DEF Generations
  <2>8. runtime' = [i \in 1..MaxLoads |-> IF i = g THEN x ELSE runtime[i]]
    BY <2>3, <2>4, <2>5 DEF EvaluationsInv, Generations
  <2>9. UNCHANGED <<data, current, resident, loads, run, saved>>
    BY <2>1 DEF Evaluations!Capture
  <2>10. \A i \in 1..loads : Identified(runtime[i])'
    <3>1. NamedBy(x, x.print) /\ x.config \in Evaluations!Settings
      <4>1. d = runtime[g].file \/ runtime[g].config.pin # Evaluations!NoPin \/ runtime[g].moved
        BY <2>1, <2>5 DEF Evaluations!ArtifactDigest, Evaluations!Capture, Identified
      <4> QED
        BY <2>3, <2>5, <2>7, <4>1 DEF Identified, NamedBy
    <3>2. \A i \in 1..loads : Identified(runtime[i]) /\ i \in 1..MaxLoads
      BY RuntimesTyped
    <3> QED
      BY <2>7, <2>8, <2>9, <3>1, <3>2 DEF Identified
  <2>11. PICK n, m : n = loads /\ m = resident /\ n \in 0..MaxLoads /\ m \in 0..n
    BY DEF EvaluationsInv
  <2>12. /\ loads \in 0..n /\ runtime' \in [1..MaxLoads -> Generations]
         /\ \A i \in 1..loads : /\ runtime'[i].config = runtime[i].config
                                /\ runtime'[i].file = runtime[i].file
                                /\ runtime'[i].moved = runtime[i].moved
         /\ \A i \in (n + 1)..MaxLoads : runtime'[i].pc = "none"
    <3>1. MaxLoads \in Nat /\ loads \in Nat /\ loads <= MaxLoads
          /\ runtime \in [1..MaxLoads -> Generations]
          /\ \A i \in (loads + 1)..MaxLoads : runtime[i].pc = "none"
      BY RuntimesTyped DEF EvaluationsInv
    <3> QED
      BY <2>2, <2>7, <2>8, <2>11, <3>1
  <2>13. current' \in {1, 2} /\ data' \in TestSets
    BY <2>9 DEF EvaluationsInv
  <2> QED
    BY <2>9, <2>10, <2>11, <2>12, <2>13, RuntimeSteps
<1>3. CASE Evaluations!Unload \/ Evaluations!ImportSet
  <2>1. /\ UNCHANGED <<runtime, current, loads, run, saved>>
        /\ resident' = resident \/ resident' = 0
        /\ current' \in {1, 2} /\ data' \in TestSets
    BY <1>3 DEF Evaluations!Unload, Evaluations!ImportSet, Evaluations!Cold, EvaluationsInv
  <2>2. PICK n, m : n = loads /\ m = resident' /\ n \in 0..MaxLoads /\ m \in 0..n
    BY <2>1 DEF EvaluationsInv
  <2>3. \A g \in 1..n : Identified(runtime[g])'
    BY <2>1, <2>2, RuntimesTyped DEF Identified
  <2>4. /\ loads \in 0..n /\ runtime' \in [1..MaxLoads -> Generations]
        /\ \A g \in (n + 1)..MaxLoads : runtime'[g].pc = "none"
        /\ \A i \in 1..loads : /\ runtime'[i].config = runtime[i].config
                               /\ runtime'[i].file = runtime[i].file
                               /\ runtime'[i].moved = runtime[i].moved
    BY <2>1, <2>2 DEF EvaluationsInv
  <2> QED
    BY <2>1, <2>2, <2>3, <2>4, RuntimeSteps
<1>4. CASE Evaluations!ReplaceFile
  <2>1. /\ UNCHANGED <<data, resident, loads, run, saved>> /\ current' = 3 - current
        /\ runtime' = [g \in 1..MaxLoads |->
              [runtime[g] EXCEPT !.moved = @ \/ runtime[g].pc = "published"]]
    BY <1>4 DEF Evaluations!ReplaceFile
  <2>2. current' \in {1, 2} /\ data' \in TestSets
    BY <2>1 DEF EvaluationsInv
  <2>3. ASSUME NEW g \in 1..MaxLoads
        PROVE  /\ runtime'[g] \in Generations /\ runtime'[g].pc = runtime[g].pc
               /\ runtime'[g].config = runtime[g].config /\ runtime'[g].file = runtime[g].file
               /\ runtime'[g].print = runtime[g].print
               /\ runtime[g].moved => runtime'[g].moved
               /\ runtime[g].pc = "published" => runtime'[g].moved
    <3>1. PICK x : x = runtime[g] /\ x \in Generations
      BY DEF EvaluationsInv
    <3>2. PICK b \in BOOLEAN : b <=> x.moved \/ x.pc = "published"
      OBVIOUS
    <3>3. x.moved \in BOOLEAN
      BY <3>1 DEF Generations
    <3>4. (x.moved \/ x.pc = "published") = b
      BY <3>2, <3>3
    <3>5. runtime'[g] = [x EXCEPT !.moved = b]
      BY <2>1, <3>1, <3>4
    <3> QED
      BY <3>1, <3>2, <3>5 DEF Generations
  <2>4. PICK n, m : n = loads /\ m = resident /\ n \in 0..MaxLoads /\ m \in 0..n
    BY DEF EvaluationsInv
  <2>5. ASSUME NEW g \in 1..n PROVE Identified(runtime[g])'
    <3>1. g \in 1..MaxLoads /\ Identified(runtime[g])
      BY <2>4, RuntimesTyped
    <3> QED
      BY <2>3, <3>1 DEF Identified, NamedBy
  <2>6. /\ loads \in 0..n /\ \A g \in 1..loads : g \in 1..MaxLoads
        /\ \A g \in (n + 1)..MaxLoads : runtime'[g].pc = "none" /\ g \in 1..MaxLoads
    <3>1. \A g \in (n + 1)..MaxLoads : runtime[g].pc = "none" /\ g \in 1..MaxLoads
      BY <2>4, RuntimesTyped DEF EvaluationsInv
    <3> QED
      BY <2>3, <2>4, <3>1, RuntimesTyped
  <2>7. runtime' \in [1..MaxLoads -> Generations]
    BY <2>1, <2>3
  <2> QED
    BY <2>1, <2>2, <2>3, <2>4, <2>5, <2>6, <2>7, RuntimeSteps
<1> QED
  BY <1>1, <1>2, <1>3, <1>4

\* The invariant holds in every behaviour.
LEMMA EvaluationsInvHolds ==
  ASSUME EvaluationsAssumption
  PROVE  KeptSpec => [](component = "evaluations" => EvaluationsInv)
<1>1. ASSUME EvaluationsInv, Evaluations!Next PROVE EvaluationsInv'
  BY <1>1, RunsReport, RuntimesChange DEF Evaluations!Next
<1>2. ASSUME EvaluationsInv, UNCHANGED Evaluations!vars PROVE EvaluationsInv'
  BY <1>2 DEF Evaluations!vars, EvaluationsInv, Identified, Reports
<1>3. EvaluationsInv /\ [Evaluations!Next]_(Evaluations!vars) => EvaluationsInv'
  BY <1>1, <1>2
<1>4. KeptInit => (component = "evaluations" => EvaluationsInv)
  BY EvaluationsInit DEF KeptInit
<1>5. (component = "evaluations" => EvaluationsInv) /\ [KeptNext]_storesVars
         => (component = "evaluations" => EvaluationsInv)'
  BY <1>3, SameStore
<1> QED
  BY <1>4, <1>5, PTL DEF KeptSpec

\* Of two reports that the comparison calls attribution_safe every answer is of the engine of
\* the run's manifest, of the configuration that both name and of the file that both name,
\* unless the digest is configured or the file was replaced before the engine was identified;
\* it thought as both say, whatever was loaded, reloaded, replaced or imported while they were
\* made (evaluation_history.py, compare; evaluation.py; runtime_identity_capture.py).
THEOREM AttributionsAreSound ==
  ASSUME EvaluationsAssumption
  PROVE  KeptSpec => []AttributionIsSound
<1>1. ASSUME EvaluationsInv, NEW a \in saved, NEW b \in saved,
             Evaluations!AttributionSafe(Evaluations!Summary(a), Evaluations!Summary(b)),
             NEW r \in {a, b}, NEW x \in Evaluations!Answers(r)
      PROVE  /\ x.by = run[r].gen
             /\ runtime[x.by].config = run[a].print[2]
             /\ runtime[x.by].file = run[a].print[1] \/ Evaluations!Vouched(x.by)
             /\ x.thought = (run[a].profile.effective = "on")
  <2>1. /\ run[a].print = run[b].print /\ run[a].print # Evaluations!Unknown
        /\ run[a].profile = run[b].profile
    BY <1>1 DEF Evaluations!AttributionSafe, Evaluations!Summary, Evaluations!EvidenceGrade
  <2>2. Reports(run[r]) /\ run[r].pc = "saved" /\ run[r].gen \in 1..loads
    BY <1>1 DEF EvaluationsInv, Reports
  <2>3. PICK s \in DOMAIN run[r].result : x = run[r].result[s] /\ x.ok
    BY <1>1 DEF Evaluations!Answers
  <2>4. /\ x.by = run[r].gen
        /\ x.thought = Evaluations!Thinks(runtime[run[r].gen].config, run[r].profile.override)
        /\ run[r].profile = Evaluations!Profile(run[r].policy, runtime[run[r].gen].config)
        /\ NamedBy(runtime[run[r].gen], run[r].print)
    BY <2>2, <2>3 DEF Reports
  <2>5. runtime[run[r].gen].config \in Evaluations!Settings
    BY <1>1, <2>2 DEF EvaluationsInv, Identified
  <2>6. run[r].policy \in Evaluations!Policies
    BY <2>2 DEF Reports, EvaluationsOfSets
  <2>7. x.thought = (run[r].profile.effective = "on")
    BY <2>4, <2>5, <2>6, ProfilesAreTrue
  <2> QED
    BY <2>1, <2>4, <2>7 DEF NamedBy, Evaluations!Vouched
<1>2. ASSUME EvaluationsInv, NEW a \in saved, NEW b \in saved,
             Evaluations!AttributionSafe(Evaluations!Summary(a), Evaluations!Summary(b))
      PROVE  run[a].data = run[b].data
  BY <1>2 DEF Evaluations!AttributionSafe, Evaluations!Summary, Evaluations!EvidenceGrade,
              Evaluations!Comparable
<1>3. (component = "evaluations" => EvaluationsInv) => AttributionIsSound
  BY <1>1, <1>2 DEF AttributionIsSound, Evaluations!AttributionIsSound
<1> QED
  BY <1>3, EvaluationsInvHolds, PTL

-----------------------------------------------------------------------------
(* ModelSources: the configuration and the engine find the same files.       *)

\* Vision servers are registered for models that take images (models_registry.yaml); for
\* others the configuration does not ask for the processor that the server wants.
SourcesAssumption == \A e \in Entries : e.kind = "mlx_vlm_server" => e.multimodal

\* What the configuration shows as downloaded is what the engine asks for.
ConfiguredIsReady ==
    /\ cfg.local /\ cfg.place \in Sources!Places /\ cfg.mmproj \in Sources!Places
    /\ entry.kind \in Sources!HubKinds => Sources!Usable(disk[cfg.place])
    /\ entry.kind \notin Sources!HubKinds /\ ~Sources!ProjectorUnseen =>
          \A w \in Sources!Wanted : w[2] \in disk[w[1]]

SourcesInv ==
    /\ entry \in Entries
    /\ DOMAIN disk = Sources!Places /\ disk = [p \in Sources!Places |-> disk[p]]
    /\ cfg.downloaded /\ kept => ConfiguredIsReady
    /\ Sources!SourcesAgree

\* The instance counts as finite sets are counted.
LEMMA SourcesCardinality == \A S : Sources!Cardinality(S) = Cardinality(S)
BY DEF Sources!Cardinality, Cardinality

\* What is complete for the configuration is for the engine.
LEMMA ShownIsUsable ==
  ASSUME SourcesAssumption, entry \in Entries, NEW p, Sources!Shown(p)
  PROVE  /\ entry.kind \in Sources!HubKinds => Sources!Usable(disk[p])
         /\ entry.kind \notin Sources!HubKinds => <<"model", 0>> \in disk[p]
<1>1. entry.kind = "mlx_vlm_server" => entry.multimodal
  BY DEF SourcesAssumption
<1>2. CASE entry.kind \in Sources!MLX
  BY <1>1, <1>2
  DEF Sources!Shown, Sources!Usable, Sources!CompleteLocal, Sources!CompleteMLX, Sources!MLX,
      Sources!HubKinds
<1>3. CASE entry.kind \in {"diffusers_image", "mflux_image"}
  BY <1>3
  DEF Sources!Shown, Sources!Usable, Sources!CompleteLocal, Sources!MLX, Sources!HubKinds
<1>4. CASE entry.kind \notin Sources!HubKinds
  <2>1. Sources!Has(disk[p], {"model"})
    BY <1>4 DEF Sources!Shown, Sources!CompleteLocal, Sources!MLX, Sources!HubKinds
  <2> QED
    BY <1>4, <2>1 DEF Sources!Has, Sources!Plain
<1> QED
  BY <1>2, <1>3, <1>4 DEF Sources!HubKinds

\* What the engine starts on has one of the layouts that its loader reads.
LEMMA UsableHasLayout ==
  ASSUME NEW fs, entry.kind \in Sources!HubKinds, Sources!Usable(fs)
  PROVE  \E l \in Sources!Layouts : l \subseteq fs
<1>1. CASE entry.kind \in {"mlx", "mlx_vlm_server"}
  <2>1. PICK eyes : eyes = IF entry.kind = "mlx_vlm_server" THEN {"processor"} ELSE {}
    OBVIOUS
  <2>2. Sources!Layouts = {Sources!Plain({"config", "tokenizer"} \cup eyes \cup {"whole"}),
                           Sources!Plain({"config", "tokenizer"} \cup eyes \cup {"index", "shard"})}
    BY <1>1, <2>1 DEF Sources!Layouts, Sources!MLX
  <2>3. Sources!CompleteMLX(fs, entry.kind = "mlx_vlm_server")
    BY <1>1 DEF Sources!Usable, Sources!CompleteLocal, Sources!MLX
  <2>4. Sources!Plain({"config", "tokenizer"}) \subseteq fs
    BY <2>3 DEF Sources!CompleteMLX, Sources!Has
  <2>5. Sources!Plain(eyes) \subseteq fs
    BY <2>1, <2>3 DEF Sources!CompleteMLX, Sources!Has, Sources!Plain
  <2>6. Sources!Plain({"whole"}) \subseteq fs \/ Sources!Plain({"index", "shard"}) \subseteq fs
    BY <2>3 DEF Sources!CompleteMLX, Sources!Has
  <2>7. \A names : Sources!Plain({"config", "tokenizer"} \cup eyes \cup names) =
             Sources!Plain({"config", "tokenizer"}) \cup Sources!Plain(eyes) \cup Sources!Plain(names)
    BY DEF Sources!Plain
  <2> QED
    BY <2>2, <2>4, <2>5, <2>6, <2>7
<1>2. CASE entry.kind = "diffusers_image"
  <2>1. Sources!Layouts = {Sources!FilesOf(entry.kind)}
    BY <1>2 DEF Sources!Layouts, Sources!MLX
  <2>2. Sources!FilesOf(entry.kind) = Sources!Plain({"index", "component", "weights"})
    BY <1>2 DEF Sources!FilesOf, Sources!MLX
  <2>3. Sources!Plain({"index", "component", "weights"}) \subseteq fs
    BY <1>2 DEF Sources!Usable, Sources!CompleteLocal, Sources!Has, Sources!MLX
  <2> QED
    BY <2>1, <2>2, <2>3
<1>3. CASE entry.kind = "mflux_image"
  <2>1. Sources!CompleteMFlux(fs, entry.bits)
    BY <1>3 DEF Sources!Usable, Sources!CompleteLocal, Sources!MLX
  <2>2. PICK b : Sources!Levels(fs) = {b}
    <3>1. Sources!Levels(fs) \in SUBSET {4, 8} /\ Cardinality(Sources!Levels(fs)) = 1
      BY <2>1, SourcesCardinality DEF Sources!CompleteMFlux, Sources!Levels
    <3>2. IsFiniteSet(Sources!Levels(fs))
      <4>1. IsFiniteSet({4} \cup {8})
        BY FS_Singleton, FS_Union
      <4>2. {4, 8} = {4} \cup {8}
        OBVIOUS
      <4>3. IsFiniteSet({4, 8})
        BY <4>1, <4>2
      <4> QED
        BY <3>1, <4>3, FS_Subset
    <3> QED
      BY <3>1, <3>2, FS_Singleton
  <2>3. b \in {4, 8} /\ (entry.bits # 0 => b = entry.bits)
    BY <2>1, <2>2 DEF Sources!CompleteMFlux, Sources!Levels
  <2>4. Sources!Weights \X {b} \subseteq fs
    BY <2>1, <2>2 DEF Sources!CompleteMFlux, Sources!Levels
  <2>5. Sources!Plain({"processor"}) \subseteq fs
    BY <2>1 DEF Sources!CompleteMFlux, Sources!Has
  <2>6. Sources!Weights \X {b} \cup Sources!Plain({"processor"}) \in Sources!Layouts
    BY <1>3, <2>3 DEF Sources!Layouts, Sources!MLX
  <2> QED
    BY <2>4, <2>5, <2>6
<1> QED
  BY <1>1, <1>2, <1>3 DEF Sources!HubKinds, Sources!MLX

\* The files an engine asks for one by one are a layout of its loader.
LEMMA WantedIsLayout ==
  ASSUME entry.kind \notin Sources!HubKinds
  PROVE  {w[2] : w \in Sources!Wanted} \in Sources!Layouts
<1>1. CASE entry.kind = "stable_diffusion_cpp_image"
  <2>1. Sources!Layouts = {Sources!Plain(Sources!Weights)}
    BY <1>1 DEF Sources!Layouts, Sources!MLX
  <2>2. Sources!Wanted = {<<cfg.place, <<w, 0>>>> : w \in Sources!Weights}
    BY <1>1 DEF Sources!Wanted
  <2>3. {w[2] : w \in Sources!Wanted} = Sources!Plain(Sources!Weights)
    <3>1. ASSUME NEW f \in Sources!Plain(Sources!Weights) PROVE f \in {w[2] : w \in Sources!Wanted}
      <4>1. PICK n \in Sources!Weights : f = <<n, 0>>
        BY DEF Sources!Plain
      <4>2. <<cfg.place, f>> \in Sources!Wanted
        BY <2>2, <4>1
      <4>3. <<cfg.place, f>>[2] = f
        OBVIOUS
      <4> QED
        BY <4>2, <4>3
    <3>2. ASSUME NEW w \in Sources!Wanted PROVE w[2] \in Sources!Plain(Sources!Weights)
      BY <2>2 DEF Sources!Plain
    <3> QED
      BY <3>1, <3>2
  <2> QED
    BY <2>1, <2>3
<1>2. CASE entry.kind # "stable_diffusion_cpp_image"
  <2>1. Sources!Layouts = {Sources!Plain({"model"} \cup IF entry.mmproj THEN {"mmproj"} ELSE {})}
    BY <1>2 DEF Sources!Layouts, Sources!HubKinds, Sources!MLX
  <2>2. CASE entry.mmproj
    <3>1. {w[2] : w \in Sources!Wanted} = {<<"model", 0>>, <<"mmproj", 0>>}
      BY <1>2, <2>2 DEF Sources!Wanted
    <3> QED
      BY <2>1, <2>2, <3>1 DEF Sources!Plain
  <2>3. CASE ~entry.mmproj
    <3>1. {w[2] : w \in Sources!Wanted} = {<<"model", 0>>}
      BY <1>2, <2>3 DEF Sources!Wanted
    <3> QED
      BY <2>1, <2>3, <3>1 DEF Sources!Plain
  <2> QED
    BY <2>2, <2>3
<1> QED
  BY <1>1, <1>2

\* What is resolved as downloaded is ready.
LEMMA ResolvedIsReady ==
  ASSUME SourcesAssumption, entry \in Entries, cfg' = Sources!Resolution,
         UNCHANGED <<entry, disk>>, cfg'.downloaded
  PROVE  ConfiguredIsReady'
<1>1. CASE entry.kind = "stable_diffusion_cpp_image"
  <2>1. PICK p \in Sources!Places, s \in {"explicit", "managed"} :
          cfg' = Sources!In(p, s, Sources!Has(disk[p], Sources!Weights))
    BY <1>1 DEF Sources!Resolution, Sources!Places
  <2>2. /\ cfg'.local /\ cfg'.place = p /\ cfg'.mmproj \in Sources!Places
        /\ Sources!Has(disk[p], Sources!Weights)
    BY <2>1 DEF Sources!In, Sources!Places
  <2>3. Sources!Wanted' = {<<p, <<w, 0>>>> : w \in Sources!Weights}
    BY <1>1, <2>2 DEF Sources!Wanted
  <2> QED
    BY <1>1, <2>2, <2>3
    DEF ConfiguredIsReady, Sources!Has, Sources!Plain, Sources!HubKinds, Sources!MLX
<1>2. CASE entry.kind # "stable_diffusion_cpp_image"
  <2>1. PICK p \in Sources!Places, s \in {"explicit", "lmstudio", "managed", "huggingface", "unresolved"} :
          /\ cfg'.local /\ cfg'.place = p /\ cfg'.source = s /\ Sources!Shown(p)
          /\ s \in {"lmstudio", "managed"} => Sources!Projected(p) /\ cfg'.mmproj = p
          /\ cfg'.mmproj \in {p, "managed"}
    BY <1>2 DEF Sources!Resolution, Sources!Places, Sources!In, Sources!FromHub
  <2>2. /\ entry.kind \in Sources!HubKinds => Sources!Usable(disk[p])
        /\ entry.kind \notin Sources!HubKinds => <<"model", 0>> \in disk[p]
    BY <2>1, ShownIsUsable
  <2>3. ASSUME entry.kind \notin Sources!HubKinds, ~Sources!ProjectorUnseen',
               NEW w \in Sources!Wanted'
        PROVE  w[2] \in disk[w[1]]
    <3>1. CASE w = <<p, <<"model", 0>>>>
      BY <2>2, <2>3, <3>1
    <3>2. CASE w # <<p, <<"model", 0>>>>
      <4>1. entry.mmproj /\ w = <<cfg'.mmproj, <<"mmproj", 0>>>>
        BY <1>2, <2>1, <2>3, <3>2 DEF Sources!Wanted
      <4>2. s \in {"lmstudio", "managed"}
        BY <2>1, <2>3, <4>1 DEF Sources!ProjectorUnseen
      <4>3. <<"mmproj", 0>> \in disk[p]
        BY <2>1, <4>1, <4>2 DEF Sources!Projected, Sources!Has, Sources!Plain
      <4> QED
        BY <2>1, <4>1, <4>2, <4>3
    <3> QED
      BY <3>1, <3>2
  <2>4. entry.kind \in Sources!HubKinds => Sources!Usable(disk[p])'
    BY <2>2 DEF Sources!Usable
  <2> QED
    BY <2>1, <2>3, <2>4 DEF ConfiguredIsReady, Sources!Usable, Sources!Places
<1> QED
  BY <1>1, <1>2

\* The fields of an engine that started, and of one that did not.
LEMMA EngineFields ==
  ASSUME NEW p, NEW fs, NEW network
  PROVE  /\ Sources!Started(p, fs, network) =>
              /\ engine'.state = "started" /\ engine'.place = p
              /\ engine'.files = fs /\ engine'.network = network
         /\ Sources!Refused(network) => engine'.state = "refused" /\ engine'.network = network
<1>1. Sources!Started(p, fs, network) =>
         /\ engine'.state = "started" /\ engine'.place = p
         /\ engine'.files = fs /\ engine'.network = network
  BY DEF Sources!Started
<1>2. ASSUME Sources!Refused(network)
      PROVE  engine'.state = "refused" /\ engine'.network = network
  <2>1. PICK r : r = [Sources!NoEngine EXCEPT !.state = "refused"]
    OBVIOUS
  <2>2. r = [state |-> "refused", place |-> "none", files |-> {}, network |-> FALSE]
    BY <2>1 DEF Sources!NoEngine
  <2>3. engine' = [r EXCEPT !.network = network]
    BY <1>2, <2>1 DEF Sources!Refused
  <2> QED
    BY <2>2, <2>3
<1> QED
  BY <1>1, <1>2

\* The files of the runtime that starts are whole, and those that were shown.
LEMMA StartAgrees ==
  ASSUME SourcesInv, NEW n \in BOOLEAN, Sources!Start(n)
  PROVE  SourcesInv'
<1>1. /\ engine.state = "none" /\ entry \in Entries
      /\ UNCHANGED <<entry, explicit, offered, cfg, kept, changes>>
      /\ cfg.downloaded /\ kept => ConfiguredIsReady
  BY DEF Sources!Start, SourcesInv
<1> DEFINE shown == cfg.downloaded /\ kept /\ ~Sources!ProjectorUnseen
<1>2. Sources!ProjectorUnseen' = Sources!ProjectorUnseen /\ Sources!Layouts' = Sources!Layouts
  BY <1>1 DEF Sources!ProjectorUnseen, Sources!Layouts, Sources!FilesOf
<1>3. CASE entry.kind \in Sources!HubKinds
  <2>1. Sources!StartFromPath \/ Sources!StartFromCache \/ Sources!StartWithout(n)
           \/ Sources!StartDownloading(n)
    BY <1>3 DEF Sources!Start
  <2>2. cfg.downloaded /\ kept => cfg.local /\ Sources!Usable(disk[cfg.place])
    BY <1>1, <1>3 DEF ConfiguredIsReady
  <2>3. /\ engine'.state \in {"started", "refused"}
        /\ engine'.state = "started" => Sources!Usable(engine'.files)
        /\ cfg.downloaded /\ kept =>
             /\ UNCHANGED disk
             /\ engine'.state # "refused" /\ ~engine'.network /\ engine'.place = cfg.place
    <3>1. CASE Sources!StartFromPath
      <4>1. CASE Sources!Usable(disk[cfg.place])
        BY <3>1, <4>1, EngineFields DEF Sources!StartFromPath
      <4>2. CASE ~Sources!Usable(disk[cfg.place])
        BY <2>2, <3>1, <4>2, EngineFields DEF Sources!StartFromPath
      <4> QED
        BY <4>1, <4>2
    <3>2. CASE Sources!StartFromCache
      <4>1. Sources!Usable(disk["hub"]) /\ ~(cfg.downloaded /\ kept)
        BY <2>2, <3>2 DEF Sources!StartFromCache
      <4>2. engine'.state = "started" /\ engine'.files = disk["hub"]
        BY <3>2, EngineFields DEF Sources!StartFromCache
      <4> QED
        BY <4>1, <4>2
    <3>3. CASE Sources!StartWithout(n)
      BY <2>2, <3>3, EngineFields DEF Sources!StartWithout
    <3>4. CASE Sources!StartDownloading(n)
      <4>1. ~(cfg.downloaded /\ kept)
        BY <2>2, <3>4 DEF Sources!StartDownloading
      <4>2. CASE Sources!Usable(offered)
        BY <3>4, <4>1, <4>2, EngineFields DEF Sources!StartDownloading
      <4>3. CASE ~Sources!Usable(offered)
        BY <3>4, <4>1, <4>3, EngineFields DEF Sources!StartDownloading
      <4> QED
        BY <4>2, <4>3
    <3> QED
      BY <2>1, <3>1, <3>2, <3>3, <3>4
  <2>4. DOMAIN disk' = Sources!Places /\ disk' = [p \in Sources!Places |-> disk'[p]]
    BY <2>1
    DEF SourcesInv, Sources!StartFromPath, Sources!StartFromCache, Sources!StartWithout,
        Sources!StartDownloading
  <2>5. (cfg.downloaded /\ kept => ConfiguredIsReady)'
    BY <1>1, <1>3, <2>3
    DEF ConfiguredIsReady, Sources!Usable, Sources!ProjectorUnseen, Sources!Wanted
  <2>6. engine'.state = "started" => \E l \in Sources!Layouts : l \subseteq engine'.files
    BY <1>3, <2>3, UsableHasLayout
  <2>7. Sources!SourcesAgree'
    BY <1>1, <1>2, <2>3, <2>6 DEF Sources!SourcesAgree
  <2> QED
    BY <1>1, <2>4, <2>5, <2>7 DEF SourcesInv
<1>4. CASE entry.kind \notin Sources!HubKinds
  <2> DEFINE missing == {w \in Sources!Wanted : w[2] \notin disk[w[1]]}
  <2>1. PICK network, got :
          /\ network = (missing # {} /\ ~n)
          /\ got = IF network THEN {w \in missing : w[2] \in offered} ELSE {}
          /\ disk' = [p \in Sources!Places |-> disk[p] \cup {w[2] : w \in {v \in got : v[1] = p}}]
          /\ IF got = missing THEN Sources!Started(cfg.place, {w[2] : w \in Sources!Wanted}, network)
             ELSE Sources!Refused(network)
    BY <1>4 DEF Sources!Start, Sources!StartFiles
  <2>2. /\ DOMAIN disk' = Sources!Places /\ disk' = [p \in Sources!Places |-> disk'[p]]
        /\ \A p \in Sources!Places : disk[p] \subseteq disk'[p]
    BY <2>1
  <2>3. \A w \in Sources!Wanted : w[1] \in {cfg.place, cfg.mmproj}
    BY DEF Sources!Wanted
  <2>4. shown => missing = {}
    BY <1>1, <1>4 DEF ConfiguredIsReady
  <2>5. ASSUME shown
        PROVE  /\ engine'.state = "started" /\ ~engine'.network /\ engine'.place = cfg.place
               /\ disk' = disk
    <3>1. missing = {} /\ ~network /\ got = {}
      BY <2>1, <2>4, <2>5
    <3>2. \A p : {w[2] : w \in {v \in got : v[1] = p}} = {}
      BY <3>1
    <3>3. disk' = [p \in Sources!Places |-> disk[p]]
      BY <2>1, <3>2
    <3> QED
      <4>1. Sources!Started(cfg.place, {w[2] : w \in Sources!Wanted}, network)
        BY <2>1, <3>1
      <4>2. disk' = disk
        BY <3>3 DEF SourcesInv
      <4> QED
        BY <3>1, <4>1, <4>2, EngineFields
  <2>6. (cfg.downloaded /\ kept => ConfiguredIsReady)'
    <3>1. CASE Sources!ProjectorUnseen
      BY <1>1, <1>2, <1>4, <3>1 DEF ConfiguredIsReady
    <3>2. CASE ~Sources!ProjectorUnseen
      BY <1>1, <1>2, <1>4, <2>5, <3>2 DEF ConfiguredIsReady, Sources!Wanted
    <3> QED
      BY <3>1, <3>2
  <2>7. engine'.state = "started" => engine'.files \in Sources!Layouts
    <3>1. CASE got = missing
      BY <1>4, <2>1, <3>1, WantedIsLayout, EngineFields
    <3>2. CASE got # missing
      BY <2>1, <3>2, EngineFields
    <3> QED
      BY <3>1, <3>2
  <2>8. Sources!SourcesAgree'
    BY <1>1, <1>2, <2>5, <2>7 DEF Sources!SourcesAgree
  <2> QED
    BY <1>1, <2>2, <2>6, <2>8 DEF SourcesInv
<1> QED
  BY <1>3, <1>4

\* A file that comes where none of its name was leaves a complete model complete.
LEMMA GrowthIsUsable ==
  ASSUME NEW fs, NEW name, NEW b, Sources!Usable(fs), entry.kind \in Sources!HubKinds,
         \A g \in fs : g[1] # name
  PROVE  Sources!Usable(fs \cup {<<name, b>>})
<1> DEFINE more == fs \cup {<<name, b>>}
<1>1. \A names : Sources!Has(fs, names) => Sources!Has(more, names)
  BY DEF Sources!Has
<1>2. CASE entry.kind \in Sources!MLX \/ entry.kind = "diffusers_image"
  BY <1>1, <1>2
  DEF Sources!Usable, Sources!CompleteLocal, Sources!CompleteMLX, Sources!MLX
<1>3. CASE entry.kind = "mflux_image"
  <2>1. Sources!CompleteMFlux(fs, entry.bits)
    BY <1>3 DEF Sources!Usable, Sources!CompleteLocal, Sources!MLX
  <2>2. name \notin Sources!Weights
    BY <2>1 DEF Sources!CompleteMFlux
  <2>3. Sources!Levels(more) = Sources!Levels(fs)
    BY <2>2 DEF Sources!Levels
  <2>4. Sources!CompleteMFlux(more, entry.bits)
    BY <1>1, <2>1, <2>3 DEF Sources!CompleteMFlux
  <2> QED
    BY <1>3, <2>4 DEF Sources!Usable, Sources!CompleteLocal, Sources!MLX
<1> QED
  BY <1>2, <1>3 DEF Sources!HubKinds

\* Files come, and what is shown stays ready as long as none has gone.
LEMMA FilesComeAndGo ==
  ASSUME SourcesInv, NEW p \in Sources!Places, NEW name, NEW b,
         Sources!Comes(p, <<name, b>>) \/ Sources!Goes(p, <<name, b>>)
  PROVE  SourcesInv'
<1>1. UNCHANGED <<entry, explicit, offered, cfg, engine>> /\ entry \in Entries
  BY DEF Sources!Comes, Sources!Goes, SourcesInv
<1>2. DOMAIN disk' = Sources!Places /\ disk' = [q \in Sources!Places |-> disk'[q]]
  BY DEF Sources!Comes, Sources!Goes, SourcesInv
<1>3. kept' => kept /\ Sources!Comes(p, <<name, b>>) /\ \A g \in disk[p] : g[1] # name
  BY DEF Sources!Comes, Sources!Goes
<1>4. ASSUME kept'
      PROVE  \A q \in Sources!Places : disk'[q] = IF q = p THEN disk[p] \cup {<<name, b>>} ELSE disk[q]
  <2>1. disk' = [disk EXCEPT ![p] = {g \in disk[p] : g[1] # name} \cup {<<name, b>>}]
    BY <1>3, <1>4 DEF Sources!Comes
  <2>2. {g \in disk[p] : g[1] # name} = disk[p]
    BY <1>3, <1>4
  <2> QED
    BY <2>1, <2>2 DEF SourcesInv
<1>5. ASSUME cfg'.downloaded, kept' PROVE ConfiguredIsReady'
  <2>1. ConfiguredIsReady
    BY <1>1, <1>3, <1>5 DEF SourcesInv
  <2>2. entry.kind \in Sources!HubKinds => Sources!Usable(disk'[cfg.place])
    <3>1. CASE cfg.place = p
      <4>1. disk'[cfg.place] = disk[p] \cup {<<name, b>>}
        BY <1>4, <1>5, <3>1
      <4>2. \A g \in disk[p] : g[1] # name
        BY <1>3, <1>5
      <4>3. ASSUME entry.kind \in Sources!HubKinds
            PROVE  Sources!Usable(disk[p] \cup {<<name, b>>})
        <5>1. Sources!Usable(disk[p])
          BY <2>1, <3>1, <4>3 DEF ConfiguredIsReady
        <5> QED
          BY <4>2, <4>3, <5>1, GrowthIsUsable
      <4> QED
        BY <4>1, <4>3
    <3>2. CASE cfg.place # p
      BY <1>4, <1>5, <2>1, <3>2 DEF ConfiguredIsReady
    <3> QED
      BY <3>1, <3>2
  <2>3. (entry.kind \in Sources!HubKinds => Sources!Usable(disk[cfg.place]))'
    BY <1>1, <2>2 DEF Sources!Usable
  <2>4. ASSUME entry.kind \notin Sources!HubKinds, ~Sources!ProjectorUnseen, NEW w \in Sources!Wanted
        PROVE  w[2] \in disk'[w[1]]
    <3>1. w[2] \in disk[w[1]]
      BY <2>1, <2>4 DEF ConfiguredIsReady
    <3>2. w[1] \in Sources!Places
      BY <2>1, <2>4 DEF ConfiguredIsReady, Sources!Wanted, Sources!Places
    <3> QED
      BY <1>4, <1>5, <3>1, <3>2
  <2> QED
    BY <1>1, <2>1, <2>3, <2>4 DEF ConfiguredIsReady, Sources!ProjectorUnseen, Sources!Wanted
<1>6. Sources!SourcesAgree'
  BY <1>1, <1>3
  DEF SourcesInv, Sources!SourcesAgree, Sources!Layouts, Sources!FilesOf, Sources!ProjectorUnseen
<1> QED
  BY <1>1, <1>2, <1>5, <1>6 DEF SourcesInv


\* A resolution shows what the engine will find.
LEMMA ConfigureAgrees ==
  ASSUME SourcesAssumption, SourcesInv, Sources!Configure PROVE SourcesInv'
<1>1. /\ cfg' = Sources!Resolution /\ UNCHANGED <<entry, disk>> /\ entry \in Entries
      /\ engine' = Sources!NoEngine
  BY DEF Sources!Configure, SourcesInv
<1>2. cfg'.downloaded => ConfiguredIsReady'
  BY <1>1, ResolvedIsReady
<1>3. Sources!SourcesAgree'
  BY <1>1 DEF Sources!SourcesAgree, Sources!NoEngine
<1> QED
  BY <1>1, <1>2, <1>3 DEF SourcesInv

\* A stopped engine leaves the files.
LEMMA StopAgrees ==
  ASSUME SourcesInv, Sources!Stop PROVE SourcesInv'
<1>1. UNCHANGED <<entry, disk, cfg, kept>> /\ engine' = Sources!NoEngine
  BY DEF Sources!Stop
<1>2. ConfiguredIsReady' = ConfiguredIsReady
  BY <1>1 DEF ConfiguredIsReady, Sources!Usable, Sources!ProjectorUnseen, Sources!Wanted
<1>3. Sources!SourcesAgree'
  BY <1>1 DEF Sources!SourcesAgree, Sources!NoEngine
<1> QED
  BY <1>1, <1>2, <1>3 DEF SourcesInv

\* Nothing is shown before the first resolution.
LEMMA SourcesInitially == Sources!Init => SourcesInv
<1> SUFFICES ASSUME Sources!Init PROVE SourcesInv
  OBVIOUS
<1>1. PICK there, fs : disk = [p \in Sources!Places |-> IF p \in there THEN fs ELSE {}]
  BY DEF Sources!Init
<1>2. entry \in Entries /\ ~cfg.downloaded /\ engine.state = "none"
  BY DEF Sources!Init, Sources!Unresolved, Sources!NoEngine
<1>3. DOMAIN disk = Sources!Places /\ disk = [p \in Sources!Places |-> disk[p]]
  BY <1>1
<1> QED
  BY <1>2, <1>3 DEF SourcesInv, Sources!SourcesAgree

\* The invariant holds in every behaviour of the stores.
LEMMA SourcesInvHolds ==
  ASSUME SourcesAssumption PROVE KeptSpec => [](component = "sources" => SourcesInv)
<1>1. ASSUME SourcesInv, Sources!Next PROVE SourcesInv'
  <2>1. ASSUME NEW p \in Sources!Places, NEW f \in {g[1] : g \in Sources!FilesOf(entry.kind)},
               NEW b \in {0, 4, 8}, Sources!Comes(p, <<f, b>>) \/ Sources!Goes(p, <<f, b>>)
        PROVE  SourcesInv'
    BY <1>1, <2>1, FilesComeAndGo
  <2> QED
    BY <1>1, <2>1, ConfigureAgrees, StartAgrees, StopAgrees DEF Sources!Next
<1>2. ASSUME SourcesInv, UNCHANGED Sources!vars PROVE SourcesInv'
  <2>1. UNCHANGED <<entry, disk, cfg, kept, engine>>
    BY <1>2 DEF Sources!vars
  <2>2. ConfiguredIsReady' = ConfiguredIsReady
    BY <2>1 DEF ConfiguredIsReady, Sources!Usable, Sources!ProjectorUnseen, Sources!Wanted
  <2>3. Sources!SourcesAgree' = Sources!SourcesAgree
    BY <2>1
    DEF Sources!SourcesAgree, Sources!Layouts, Sources!FilesOf, Sources!ProjectorUnseen
  <2> QED
    BY <1>2, <2>1, <2>2, <2>3 DEF SourcesInv
<1>3. SourcesInv /\ [Sources!Next]_(Sources!vars) => SourcesInv'
  BY <1>1, <1>2
<1>4. KeptInit => (component = "sources" => SourcesInv)
  BY SourcesInitially DEF KeptInit
<1>5. (component = "sources" => SourcesInv) /\ [KeptNext]_storesVars
         => (component = "sources" => SourcesInv)'
  BY <1>3, SameStore
<1> QED
  BY <1>4, <1>5, PTL DEF KeptSpec

\* An engine starts on a whole model, and one that the configuration shows as downloaded
\* starts on those files, without network, as long as none has gone, whatever came
\* meanwhile, for every backend, source and form of --model-path (model_sources.py).
THEOREM ResolutionsAgree ==
  ASSUME SourcesAssumption PROVE KeptSpec => []SourcesAgree
<1>1. (component = "sources" => SourcesInv) => SourcesAgree
  BY DEF SourcesInv, SourcesAgree
<1> QED
  BY <1>1, SourcesInvHolds, PTL

-----------------------------------------------------------------------------
(* MultiModelEvidence: what a complete report says has happened.               *)

\* A report has a cycle, and the review asks for some number of reports and of cycles.
MultiModelAssumption ==
    ReportCycles \in Nat \ {0} /\ MinReports \in Nat /\ MinCycles \in Nat

CycleRecords == [complete : BOOLEAN, verified : BOOLEAN, clean : BOOLEAN,
                 prints : [MultiModel!Models -> Nat], overlap : BOOLEAN]

ReportRecords == [cycles : Seq(CycleRecords), overlaps : Seq(BOOLEAN),
                  first : {"clean", "incomplete"}, retained : BOOLEAN, accounted : BOOLEAN,
                  complete : BOOLEAN, refused : BOOLEAN, lost : Nat]

Ledgers == SUBSET ({"resident", "transient"} \X MultiModel!Models)

ManagerRecords == [state : [MultiModel!Models -> {"none", "ready", "failed"}],
                   pending : SUBSET MultiModel!Models, ledger : Ledgers, peak : Nat,
                   prints : [MultiModel!Models -> Nat], held : BOOLEAN, overlap : BOOLEAN]

WorldRecords == [identity : Nat, lost : Nat, faults : Nat, changes : Nat]

MultiModelTyped ==
    /\ stage = <<stage[1], stage[2]>> /\ manager \in ManagerRecords
    /\ report \in ReportRecords /\ reports \in Seq(ReportRecords) /\ world \in WorldRecords

\* An overlap that was counted took place, an engine that was not published is on its way
\* out, and the runtime that is held, or failed to close, is in the ledger.
ManagerIsTrue ==
    /\ manager.peak >= 2 => manager.overlap
    /\ manager.pending # {} => stage[2] = "final"
    /\ stage[1] = "shutdown" /\ stage[2] \in {"load b", "hold", "close a"} =>
          <<"resident", "a">> \in manager.ledger
    /\ stage[1] = "shutdown" /\ stage[2] \in {"close b", "look"}
          /\ manager.state["a"] = "failed" => <<"resident", "a">> \in manager.ledger

\* Complete cycles have had their overlap and lost nothing; a complete procedure ends
\* without engines.
ReportIsTrue ==
    /\ Len(report.cycles) = Len(report.overlaps)
    /\ \A i \in 1..Len(report.cycles) : report.cycles[i].complete => report.overlaps[i]
    /\ (\A i \in 1..Len(report.cycles) : report.cycles[i].complete) => report.lost = 0
    /\ report.retained => report.accounted
    /\ report.complete =>
          stage[1] = "shutdown" /\ stage[2] = "final" /\ report.retained /\ MultiModel!Engines = {}
    /\ stage[1] = "cycle" /\ stage[2] = "final" =>
          /\ Len(report.cycles) # 0
          /\ report.cycles[Len(report.cycles)].complete => MultiModel!Engines = {}
    /\ stage[1] = "report" => stage[2] = "begin" /\ report.lost = 0

\* What a complete report says, and that engines are lost by reports that say so.
Earned(r) ==
    r.complete => /\ Len(r.overlaps) = ReportCycles
                  /\ \A i \in 1..ReportCycles : r.overlaps[i]
                  /\ r.lost = 0 /\ r.retained /\ r.accounted

ReportsAreTrue ==
    /\ \A i \in 1..Len(reports) : Earned(reports[i])
    /\ (\A i \in 1..Len(reports) : reports[i].lost = 0) /\ report.lost = 0 => world.lost = 0

MultiModelInv == MultiModelTyped /\ ManagerIsTrue /\ ReportIsTrue /\ ReportsAreTrue

\* The steps of one runtime.
LEMMA StepsOfModels ==
  ASSUME NEW m \in MultiModel!Models
  PROVE  \/ /\ m = "a" /\ MultiModel!LoadOf[m] = "load a"
            /\ MultiModel!UnloadOf[m] = "unload a" /\ MultiModel!CloseOf[m] = "close a"
         \/ /\ m = "b" /\ MultiModel!LoadOf[m] = "load b"
            /\ MultiModel!UnloadOf[m] = "unload b" /\ MultiModel!CloseOf[m] = "close b"
<1>1. CASE m = "a"
  BY <1>1 DEF MultiModel!LoadOf, MultiModel!UnloadOf, MultiModel!CloseOf
<1>2. CASE m = "b"
  BY <1>2 DEF MultiModel!LoadOf, MultiModel!UnloadOf, MultiModel!CloseOf
<1> QED
  BY <1>1, <1>2 DEF MultiModel!Models

\* Faults are counted.
LEMMA FaultLosesNothing ==
  ASSUME MultiModelTyped, MultiModel!Fault \/ UNCHANGED world
  PROVE  world' \in WorldRecords /\ world'.lost = world.lost
BY DEF MultiModelTyped, WorldRecords, MultiModel!Fault

\* Both runtimes hold memory whenever two were counted.
LEMMA AccountingIsTrue ==
  ASSUME MultiModelInv, NEW l \in Ledgers
  PROVE  /\ MultiModel!Accounting(l) \in ManagerRecords
         /\ MultiModel!Accounting(l).ledger = l
         /\ MultiModel!Accounting(l).state = manager.state
         /\ MultiModel!Accounting(l).pending = manager.pending
         /\ MultiModel!Accounting(l).peak >= 2 => MultiModel!Accounting(l).overlap
<1>1. manager \in ManagerRecords /\ (manager.peak >= 2 => manager.overlap)
  BY DEF MultiModelInv, MultiModelTyped, ManagerIsTrue
<1>2. PICK t : t = MultiModel!Transient(l)
  OBVIOUS
<1>3. /\ t \subseteq MultiModel!Models /\ MultiModel!Cardinality(t) \in Nat
      /\ MultiModel!Cardinality(t) >= 2 => t = MultiModel!Models
  <2>1. t \subseteq {"a", "b"}
    BY <1>2 DEF MultiModel!Transient, MultiModel!Models
  <2>2. MultiModel!Cardinality(t) = Cardinality(t)
    BY DEF MultiModel!Cardinality, Cardinality
  <2>3. t = {} \/ t = {"a"} \/ t = {"b"} \/ t = {"a", "b"}
    BY <2>1
  <2>4. Cardinality({}) = 0 /\ Cardinality({"a"}) = 1 /\ Cardinality({"b"}) = 1
    BY FS_EmptySet, FS_Singleton
  <2>5. IsFiniteSet({"a"}) /\ IsFiniteSet({"b"})
    BY FS_Singleton
  <2>6. {"a", "b"} = {"a"} \cup {"b"}
    OBVIOUS
  <2>7. Cardinality({"a", "b"}) \in Nat
    BY <2>5, <2>6, FS_Union, FS_CardinalityType
  <2>8. Cardinality(t) \in Nat /\ (Cardinality(t) >= 2 => t = {"a", "b"})
    <3>1. CASE t = {}
      BY <2>4, <3>1
    <3>2. CASE t = {"a"}
      BY <2>4, <3>2
    <3>3. CASE t = {"b"}
      BY <2>4, <3>3
    <3>4. CASE t = {"a", "b"}
      BY <2>7, <3>4
    <3> QED
      BY <2>3, <3>1, <3>2, <3>3, <3>4
  <2> QED
    BY <2>1, <2>2, <2>8 DEF MultiModel!Models
<1>4. PICK p : p = MultiModel!Recorded(manager.peak, l)
  OBVIOUS
<1>5. p \in Nat /\ (p >= 2 => manager.peak >= 2 \/ t = MultiModel!Models)
  BY <1>1, <1>2, <1>3, <1>4 DEF MultiModel!Recorded, ManagerRecords
<1>6. PICK x : x = MultiModel!Accounting(l)
  OBVIOUS
<1>7. PICK o : o = (manager.overlap \/ t = MultiModel!Models)
  OBVIOUS
<1>8. x = [manager EXCEPT !.ledger = l, !.peak = p, !.overlap = o]
  BY <1>1, <1>2, <1>4, <1>6, <1>7 DEF MultiModel!Accounting, ManagerRecords
<1>9. /\ x \in ManagerRecords /\ x.ledger = l /\ x.state = manager.state
      /\ x.pending = manager.pending /\ x.peak = p /\ x.overlap = o
  BY <1>1, <1>5, <1>7, <1>8 DEF ManagerRecords
<1> QED
  BY <1>1, <1>5, <1>6, <1>7, <1>9

\* A step between the first and the last of a procedure leaves the report as it is.
LEMMA StepIsTrue ==
  ASSUME MultiModelInv, NEW s, stage' = <<stage[1], s>>, stage[1] # "report",
         stage[2] # "final", s = "final" => stage[1] = "shutdown",
         UNCHANGED <<report, reports>>, world' \in WorldRecords, world'.lost = world.lost,
         manager' \in ManagerRecords, ManagerIsTrue'
  PROVE  MultiModelInv'
<1>1. MultiModelTyped'
  BY DEF MultiModelInv, MultiModelTyped
<1>2. ~report.complete
  BY DEF MultiModelInv, ReportIsTrue
<1>3. ReportIsTrue'
  BY <1>2 DEF MultiModelInv, ReportIsTrue
<1>4. ReportsAreTrue'
  BY DEF MultiModelInv, ReportsAreTrue, Earned
<1> QED
  BY <1>1, <1>3, <1>4 DEF MultiModelInv

\* A cycle that ends as complete has seen an overlap and leaves no engine.
LEMMA CycleIsTrue ==
  ASSUME MultiModelInv, stage[1] = "cycle", stage[2] # "final",
         NEW c \in BOOLEAN, NEW v \in BOOLEAN, NEW k \in BOOLEAN, MultiModel!CycleEnds(c, v, k),
         UNCHANGED reports, world' \in WorldRecords, world'.lost = world.lost,
         manager' \in ManagerRecords, manager'.peak >= 2 => manager'.overlap,
         c => manager.peak >= 2 /\ (MultiModel!Engines = {})'
  PROVE  MultiModelInv'
<1>1. /\ manager \in ManagerRecords /\ report \in ReportRecords /\ ~report.complete
      /\ stage' = <<"cycle", "final">>
  BY DEF MultiModelInv, MultiModelTyped, ReportIsTrue, MultiModel!CycleEnds, MultiModel!GoTo
<1>2. PICK y : y = [complete |-> c, verified |-> v, clean |-> k, prints |-> manager.prints,
                    overlap |-> manager.peak >= 2]
  OBVIOUS
<1>3. y \in CycleRecords /\ y.complete = c /\ (c => manager.overlap) /\ manager.overlap \in BOOLEAN
  BY <1>1, <1>2 DEF CycleRecords, ManagerRecords, MultiModelInv, ManagerIsTrue
<1>4. PICK cs, os : cs = Append(report.cycles, y) /\ os = Append(report.overlaps, manager.overlap)
  OBVIOUS
<1>5. report' = [report EXCEPT !.cycles = cs, !.overlaps = os]
  BY <1>1, <1>2, <1>4 DEF MultiModel!CycleEnds, ReportRecords
<1>6. /\ report' \in ReportRecords /\ report'.cycles = cs /\ report'.overlaps = os
      /\ report'.lost = report.lost /\ report'.retained = report.retained
      /\ report'.accounted = report.accounted /\ ~report'.complete
  <2>1. cs \in Seq(CycleRecords) /\ os \in Seq(BOOLEAN)
    <3>1. report.cycles \in Seq(CycleRecords) /\ report.overlaps \in Seq(BOOLEAN)
      BY <1>1 DEF ReportRecords
    <3> QED
      BY <1>3, <1>4, <3>1
  <2>2. PICK r : r = [report EXCEPT !.cycles = cs]
    OBVIOUS
  <2>3. /\ r \in ReportRecords /\ r.cycles = cs /\ r.lost = report.lost
        /\ r.retained = report.retained /\ r.accounted = report.accounted
        /\ r.complete = report.complete
    BY <1>1, <2>1, <2>2 DEF ReportRecords
  <2>4. report' = [r EXCEPT !.overlaps = os]
    BY <1>5, <2>2
  <2> QED
    BY <1>1, <2>1, <2>3, <2>4 DEF ReportRecords
<1>7. /\ report.cycles \in Seq(CycleRecords) /\ report.overlaps \in Seq(BOOLEAN)
      /\ Len(report.cycles) = Len(report.overlaps)
  BY <1>1 DEF ReportRecords, MultiModelInv, ReportIsTrue
<1>8. PICK n \in Nat : n = Len(report.cycles)
  BY <1>7
<1>9. /\ Len(cs) = n + 1 /\ Len(os) = n + 1 /\ cs[n + 1] = y /\ os[n + 1] = manager.overlap
      /\ \A i \in 1..n : cs[i] = report.cycles[i] /\ os[i] = report.overlaps[i]
  BY <1>3, <1>4, <1>7, <1>8
<1>10. /\ \A i \in 1..n : report.cycles[i].complete => report.overlaps[i]
       /\ (\A i \in 1..n : report.cycles[i].complete) => report.lost = 0
  BY <1>8 DEF MultiModelInv, ReportIsTrue
<1>11. /\ \A i \in 1..(n + 1) : cs[i].complete => os[i]
       /\ (\A i \in 1..(n + 1) : cs[i].complete) => report.lost = 0
  <2>1. \A i \in 1..(n + 1) : i = n + 1 \/ i \in 1..n
    BY <1>8
  <2>2. \A i \in 1..n : i \in 1..(n + 1)
    BY <1>8
  <2> QED
    BY <1>3, <1>9, <1>10, <2>1, <2>2
<1>12. ReportIsTrue'
  <2>1. (report.retained => report.accounted)'
    BY <1>6 DEF MultiModelInv, ReportIsTrue
  <2>2. n + 1 # 0
    BY <1>8
  <2> QED
    BY <1>1, <1>3, <1>6, <1>9, <1>11, <2>1, <2>2 DEF ReportIsTrue
<1>13. MultiModelTyped'
  BY <1>1, <1>6 DEF MultiModelInv, MultiModelTyped
<1>14. ManagerIsTrue'
  BY <1>1 DEF ManagerIsTrue
<1>15. ReportsAreTrue'
  BY <1>6 DEF MultiModelInv, ReportsAreTrue, Earned
<1> QED
  BY <1>12, <1>13, <1>14, <1>15 DEF MultiModelInv

\* An error ends a cycle that is not complete, or the procedure of the shutdown.
LEMMA RaiseIsTrue ==
  ASSUME MultiModelInv, MultiModel!Raise, stage[1] \in {"cycle", "shutdown"}, stage[2] # "final",
         UNCHANGED reports, world' \in WorldRecords, world'.lost = world.lost,
         manager' \in ManagerRecords, manager'.peak >= 2 => manager'.overlap
  PROVE  MultiModelInv'
<1>1. CASE stage[1] = "cycle"
  BY <1>1, CycleIsTrue DEF MultiModel!Raise
<1>2. CASE stage[1] = "shutdown"
  <2>1. stage' = <<stage[1], "final">> /\ UNCHANGED report
    BY <1>2 DEF MultiModel!Raise, MultiModel!GoTo
  <2>2. ManagerIsTrue'
    BY <2>1 DEF ManagerIsTrue
  <2> QED
    BY <1>2, <2>1, <2>2, StepIsTrue
<1> QED
  BY <1>1, <1>2

\* Two runtimes are loaded one after the other; a load that fails is the end.
LEMMA LoadIsTrue ==
  ASSUME MultiModelInv, NEW m \in MultiModel!Models, MultiModel!Load(m)
  PROVE  MultiModelInv'
<1>1. PICK l : l = manager.ledger \cup {<<"resident", m>>}
  OBVIOUS
<1>2. manager \in ManagerRecords /\ world.identity \in Nat /\ l \in Ledgers
  BY <1>1 DEF MultiModelInv, MultiModelTyped, ManagerRecords, WorldRecords, Ledgers
<1>3. PICK x : x = MultiModel!Accounting(l)
  OBVIOUS
<1>4. x \in ManagerRecords /\ x.ledger = l /\ x.pending = manager.pending
      /\ (x.peak >= 2 => x.overlap)
  BY <1>2, <1>3, AccountingIsTrue
<1>5. PICK print \in Nat : manager' = [x EXCEPT !.state[m] = "ready", !.prints[m] = print]
  <2>1. MultiModel!Unidentified \in Nat
    BY DEF MultiModel!Unidentified
  <2> QED
    BY <1>1, <1>2, <1>3, <2>1 DEF MultiModel!Load
<1>6. PICK y : y = [x EXCEPT !.state[m] = "ready"]
  OBVIOUS
<1>7. y \in ManagerRecords /\ y.ledger = l /\ y.pending = manager.pending
      /\ (y.peak >= 2 => y.overlap)
  BY <1>4, <1>6 DEF ManagerRecords
<1>8. manager' \in ManagerRecords /\ manager'.ledger = l /\ manager'.pending = manager.pending
      /\ (manager'.peak >= 2 => manager'.overlap)
  <2>1. manager' = [y EXCEPT !.prints[m] = print]
    BY <1>5, <1>6
  <2> QED
    BY <1>7, <2>1 DEF ManagerRecords
<1>9. PICK s : /\ m = "a" => s = "load b"
               /\ m = "b" /\ stage[1] = "cycle" => s = "ask"
               /\ m = "b" /\ stage[1] # "cycle" => s = "hold"
               /\ stage' = <<stage[1], s>>
  <2>1. CASE m = "a"
    <3>1. stage' = <<stage[1], "load b">>
      BY <2>1 DEF MultiModel!Load, MultiModel!GoTo
    <3> QED
      BY <2>1, <3>1
  <2>2. CASE m # "a" /\ stage[1] = "cycle"
    <3>1. stage' = <<stage[1], "ask">>
      BY <2>2 DEF MultiModel!Load, MultiModel!GoTo
    <3> QED
      BY <2>2, <3>1
  <2>3. CASE m # "a" /\ stage[1] # "cycle"
    <3>1. stage' = <<stage[1], "hold">>
      BY <2>3 DEF MultiModel!Load, MultiModel!GoTo
    <3> QED
      BY <2>3, <3>1
  <2> QED
    BY <2>1, <2>2, <2>3
<1>10. /\ stage[1] \in {"cycle", "shutdown"} /\ m \in {"a", "b"}
       /\ m = "a" => stage[2] = "load a"
       /\ m = "b" => stage[2] = "load b"
       /\ UNCHANGED <<report, reports, world>>
  BY StepsOfModels DEF MultiModel!Load, MultiModel!At, MultiModel!Models
<1>11. ManagerIsTrue'
  <2>1. manager'.pending = {}
    BY <1>8, <1>10 DEF MultiModelInv, ManagerIsTrue
  <2>2. stage[1] = "shutdown" => <<"resident", "a">> \in l
    BY <1>1, <1>10 DEF MultiModelInv, ManagerIsTrue, MultiModel!Models
  <2> QED
    BY <1>8, <1>9, <2>1, <2>2 DEF ManagerIsTrue
<1>12. world \in WorldRecords
  BY DEF MultiModelInv, MultiModelTyped
<1> QED
  BY <1>8, <1>9, <1>10, <1>11, <1>12, StepIsTrue

\* A load that fails may leave an engine, and ends the procedure.
LEMMA FailedLoadIsTrue ==
  ASSUME MultiModelInv, NEW m \in MultiModel!Models, MultiModel!LoadFails(m)
  PROVE  MultiModelInv'
<1>1. PICK l : l = manager.ledger \cup {<<"resident", m>>}
  OBVIOUS
<1>2. manager \in ManagerRecords /\ l \in Ledgers /\ (manager.peak >= 2 => manager.overlap)
  <2>1. manager \in ManagerRecords /\ (manager.peak >= 2 => manager.overlap)
    BY DEF MultiModelInv, MultiModelTyped, ManagerIsTrue
  <2>2. manager.ledger \in Ledgers
    BY <2>1 DEF ManagerRecords
  <2>3. l \in Ledgers
    BY <1>1, <2>2 DEF Ledgers
  <2> QED
    BY <2>1, <2>3
<1>3. manager' \in ManagerRecords /\ (manager'.peak >= 2 => manager'.overlap)
  <2>1. CASE UNCHANGED manager
    BY <1>2, <2>1
  <2>2. CASE ~UNCHANGED manager
    <3>1. PICK x : x = MultiModel!Accounting(l)
      OBVIOUS
    <3>2. x \in ManagerRecords /\ (x.peak >= 2 => x.overlap)
      BY <1>2, <3>1, AccountingIsTrue
    <3>3. manager' = [x EXCEPT !.pending = @ \cup {m}]
      BY <1>1, <2>2, <3>1 DEF MultiModel!LoadFails
    <3> QED
      BY <3>2, <3>3 DEF ManagerRecords
  <2> QED
    BY <2>1, <2>2
<1>4. /\ stage[1] \in {"cycle", "shutdown"} /\ stage[2] # "final"
      /\ MultiModel!Fault /\ MultiModel!Raise /\ UNCHANGED reports
  BY StepsOfModels DEF MultiModel!LoadFails, MultiModel!At
<1>5. world' \in WorldRecords /\ world'.lost = world.lost
  BY <1>4, FaultLosesNothing DEF MultiModelInv
<1> QED
  BY <1>3, <1>4, <1>5, RaiseIsTrue

\* The two requests hold their memory, or have answered, while the runtimes stay.
LEMMA RequestsAreTrue ==
  ASSUME MultiModelInv, NEW m \in MultiModel!Models,
         MultiModel!Reserve(m) \/ MultiModel!Answer(m)
  PROVE  MultiModelInv'
<1>1. /\ stage[1] = "cycle" /\ stage[2] = "ask" /\ stage' = <<stage[1], "ask">>
      /\ UNCHANGED <<report, reports>> /\ (MultiModel!Fault \/ UNCHANGED world)
  BY DEF MultiModel!Reserve, MultiModel!Answer, MultiModel!At, MultiModelInv, MultiModelTyped
<1>2. PICK l \in Ledgers : manager' = MultiModel!Accounting(l)
  <2>1. manager.ledger \in Ledgers
    BY DEF MultiModelInv, MultiModelTyped, ManagerRecords
  <2>2. /\ manager.ledger \cup {<<"transient", m>>} \in Ledgers
        /\ manager.ledger \ {<<"transient", m>>} \in Ledgers
    BY <2>1 DEF Ledgers
  <2> QED
    BY <2>2 DEF MultiModel!Reserve, MultiModel!Answer
<1>3. manager' \in ManagerRecords /\ manager'.pending = manager.pending
      /\ (manager'.peak >= 2 => manager'.overlap)
  BY <1>2, AccountingIsTrue
<1>4. ManagerIsTrue'
  BY <1>1, <1>3 DEF ManagerIsTrue, MultiModelInv
<1>5. world' \in WorldRecords /\ world'.lost = world.lost
  BY <1>1, FaultLosesNothing DEF MultiModelInv
<1> QED
  BY <1>1, <1>3, <1>4, <1>5, StepIsTrue

\* The two requests have been answered.
LEMMA AskedIsTrue ==
  ASSUME MultiModelInv, MultiModel!Asked PROVE MultiModelInv'
<1>1. /\ stage[1] = "cycle" /\ stage[2] = "ask" /\ UNCHANGED <<manager, reports, world>>
      /\ MultiModel!Raise \/ (stage' = <<stage[1], "unload a">> /\ UNCHANGED report)
  BY DEF MultiModel!Asked, MultiModel!At, MultiModel!GoTo
<1>2. /\ manager' \in ManagerRecords /\ (manager'.peak >= 2 => manager'.overlap)
      /\ world' \in WorldRecords /\ world'.lost = world.lost
  BY <1>1 DEF MultiModelInv, MultiModelTyped, ManagerIsTrue
<1>3. CASE MultiModel!Raise
  BY <1>1, <1>2, <1>3, RaiseIsTrue
<1>4. CASE stage' = <<stage[1], "unload a">> /\ UNCHANGED report
  <2>1. ManagerIsTrue'
    BY <1>1, <1>4 DEF MultiModelInv, ManagerIsTrue
  <2> QED
    BY <1>1, <1>2, <1>4, <2>1, StepIsTrue
<1> QED
  BY <1>1, <1>3, <1>4

\* A runtime that is unloaded leaves the ledger; one that is not ends the cycle.
LEMMA UnloadIsTrue ==
  ASSUME MultiModelInv, NEW m \in MultiModel!Models, MultiModel!Unload(m)
  PROVE  MultiModelInv'
<1>1. /\ stage[1] = "cycle" /\ stage[2] # "final" /\ UNCHANGED reports
      /\ manager \in ManagerRecords /\ (manager.peak >= 2 => manager.overlap)
      /\ manager.pending = {}
  BY StepsOfModels DEF MultiModel!Unload, MultiModel!At, MultiModelInv, MultiModelTyped, ManagerIsTrue
<1>2. CASE UNCHANGED world
  <2>1. PICK l : l = manager.ledger \ {<<"resident", m>>}
    OBVIOUS
  <2>2. l \in Ledgers
    BY <1>1, <2>1 DEF ManagerRecords, Ledgers
  <2>3. PICK x : x = MultiModel!Accounting(l)
    OBVIOUS
  <2>4. x \in ManagerRecords /\ x.pending = manager.pending /\ (x.peak >= 2 => x.overlap)
    BY <2>2, <2>3, AccountingIsTrue
  <2>5. \/ /\ manager' = [x EXCEPT !.state[m] = "none"] /\ UNCHANGED report
           /\ stage' = <<stage[1], IF m = "a" THEN "unload b" ELSE "settle">>
        \/ MultiModel!Fault /\ MultiModel!Raise /\ manager' = [manager EXCEPT !.state[m] = "failed"]
    BY <2>1, <2>3 DEF MultiModel!Unload, MultiModel!GoTo
  <2>6. CASE /\ manager' = [x EXCEPT !.state[m] = "none"] /\ UNCHANGED report
             /\ stage' = <<stage[1], IF m = "a" THEN "unload b" ELSE "settle">>
    <3>1. manager' \in ManagerRecords /\ manager'.pending = {} /\ (manager'.peak >= 2 => manager'.overlap)
      BY <1>1, <2>4, <2>6 DEF ManagerRecords
    <3>2. PICK s \in {"unload b", "settle"} : stage' = <<stage[1], s>>
      BY <2>6
    <3>3. ManagerIsTrue'
      BY <1>1, <3>1, <3>2 DEF ManagerIsTrue
    <3>4. world' \in WorldRecords /\ world'.lost = world.lost
      BY <1>2 DEF MultiModelInv, MultiModelTyped
    <3> QED
      BY <1>1, <2>6, <3>1, <3>2, <3>3, <3>4, StepIsTrue
  <2>7. CASE MultiModel!Fault /\ MultiModel!Raise /\ manager' = [manager EXCEPT !.state[m] = "failed"]
    <3>1. manager' \in ManagerRecords /\ (manager'.peak >= 2 => manager'.overlap)
      BY <1>1, <2>7 DEF ManagerRecords
    <3>2. world' \in WorldRecords /\ world'.lost = world.lost
      BY <2>7, FaultLosesNothing DEF MultiModelInv
    <3> QED
      BY <1>1, <2>7, <3>1, <3>2, RaiseIsTrue
  <2> QED
    BY <2>5, <2>6, <2>7
<1>3. CASE ~UNCHANGED world
  <2>1. MultiModel!Fault /\ MultiModel!Raise /\ manager' = [manager EXCEPT !.state[m] = "failed"]
    BY <1>3 DEF MultiModel!Unload
  <2>2. manager' \in ManagerRecords /\ (manager'.peak >= 2 => manager'.overlap)
    BY <1>1, <2>1 DEF ManagerRecords
  <2>3. world' \in WorldRecords /\ world'.lost = world.lost
    BY <2>1, FaultLosesNothing DEF MultiModelInv
  <2> QED
    BY <1>1, <2>1, <2>2, <2>3, RaiseIsTrue
<1> QED
  BY <1>2, <1>3

\* A cycle is complete when both runtimes are gone and nothing is accounted.
LEMMA SettleIsTrue ==
  ASSUME MultiModelInv, MultiModel!Settle PROVE MultiModelInv'
<1>1. PICK v, k, c :
        /\ v = (\A m \in MultiModel!Models : manager.prints[m] # MultiModel!Unidentified)
        /\ k = (manager.ledger = {} /\ \A m \in MultiModel!Models : manager.state[m] = "none")
        /\ c = (/\ \A m \in MultiModel!Models : asked[m] = "ok"
                /\ manager.peak >= 2 /\ k /\ v)
        /\ MultiModel!CycleEnds(c, v, k)
  BY DEF MultiModel!Settle
<1>2. c \in BOOLEAN /\ v \in BOOLEAN /\ k \in BOOLEAN
  BY <1>1
<1>3. /\ stage[1] = "cycle" /\ stage[2] = "settle" /\ UNCHANGED <<manager, reports, world>>
  BY DEF MultiModel!Settle, MultiModel!At
<1>4. /\ manager' \in ManagerRecords /\ (manager'.peak >= 2 => manager'.overlap)
      /\ world' \in WorldRecords /\ world'.lost = world.lost /\ manager.pending = {}
  BY <1>3 DEF MultiModelInv, MultiModelTyped, ManagerIsTrue
<1>5. c => manager.peak >= 2 /\ (MultiModel!Engines = {})'
  BY <1>1, <1>3, <1>4 DEF MultiModel!Engines
<1> QED
  BY <1>1, <1>2, <1>3, <1>4, <1>5, CycleIsTrue

\* A further report that is earned, and says what it has lost.
LEMMA AppendedIsTrue ==
  ASSUME MultiModelInv, NEW r \in ReportRecords, Earned(r), reports' = Append(reports, r),
         r.lost = 0 /\ report.lost = 0 => world'.lost = world.lost,
         r.lost = 0 => report.lost = 0
  PROVE  ReportsAreTrue'
<1>1. /\ reports \in Seq(ReportRecords) /\ \A i \in 1..Len(reports) : Earned(reports[i])
      /\ (\A i \in 1..Len(reports) : reports[i].lost = 0) /\ report.lost = 0 => world.lost = 0
  BY DEF MultiModelInv, MultiModelTyped, ReportsAreTrue
<1>2. PICK n \in Nat : n = Len(reports)
  BY <1>1
<1>3. PICK rs : rs = Append(reports, r)
  OBVIOUS
<1>4. Len(rs) = n + 1 /\ rs[n + 1] = r /\ \A i \in 1..n : rs[i] = reports[i]
  BY <1>1, <1>2, <1>3
<1>5. \A i \in 1..(n + 1) : i = n + 1 \/ i \in 1..n
  BY <1>2
<1>6. n + 1 \in 1..(n + 1) /\ \A i \in 1..n : i \in 1..(n + 1)
  BY <1>2
<1>7. \A i \in 1..(n + 1) : Earned(rs[i])
  BY <1>1, <1>2, <1>4, <1>5
<1>8. (\A i \in 1..(n + 1) : rs[i].lost = 0) => world'.lost = 0
  <2>1. SUFFICES ASSUME \A i \in 1..(n + 1) : rs[i].lost = 0 PROVE world'.lost = 0
    OBVIOUS
  <2>2. r.lost = 0 /\ \A i \in 1..n : reports[i].lost = 0
    BY <1>4, <1>6, <2>1
  <2> QED
    BY <1>1, <1>2, <2>2
<1>9. reports' = rs
  BY <1>3
<1> QED
  BY <1>4, <1>7, <1>8, <1>9 DEF ReportsAreTrue, Earned

\* A procedure begins with a manager of its own; a refusal is a report without cycles.
LEMMA BeginIsTrue ==
  ASSUME MultiModelInv, MultiModel!Begin PROVE MultiModelInv'
<1>1. stage[1] = "report" /\ stage[2] = "begin" /\ UNCHANGED manager /\ report.lost = 0
  BY DEF MultiModel!Begin, MultiModel!At, MultiModelInv, ReportIsTrue
<1>2. manager \in ManagerRecords /\ manager.pending = {} /\ (manager.peak >= 2 => manager.overlap)
  BY <1>1 DEF MultiModelInv, MultiModelTyped, ManagerIsTrue
<1>3. PICK n : n = MultiModel!NoReport
  OBVIOUS
<1>4. /\ n \in ReportRecords /\ n.cycles = <<>> /\ n.overlaps = <<>> /\ n.lost = 0
      /\ ~n.complete /\ ~n.retained
  BY <1>3 DEF MultiModel!NoReport, ReportRecords
<1>5. CASE stage' = <<"cycle", "load a">> /\ report' = n /\ UNCHANGED <<reports, world>>
  <2>1. MultiModelTyped'
    BY <1>1, <1>2, <1>4, <1>5 DEF MultiModelInv, MultiModelTyped
  <2>2. ManagerIsTrue'
    BY <1>1, <1>2, <1>5 DEF ManagerIsTrue
  <2>3. ReportIsTrue'
    <3>1. Len(report'.cycles) = 0 /\ Len(report'.overlaps) = 0
      BY <1>4, <1>5
    <3>2. \A i \in 1..0 : report'.cycles[i].complete => report'.overlaps[i]
      OBVIOUS
    <3>3. /\ report'.lost = 0 /\ ~report'.complete /\ ~report'.retained
          /\ stage'[1] = "cycle" /\ stage'[2] = "load a"
      BY <1>4, <1>5
    <3> QED
      BY <3>1, <3>2, <3>3 DEF ReportIsTrue
  <2>4. ReportsAreTrue'
    BY <1>1, <1>4, <1>5 DEF MultiModelInv, ReportsAreTrue, Earned
  <2> QED
    BY <2>1, <2>2, <2>3, <2>4 DEF MultiModelInv
<1>6. CASE ~(stage' = <<"cycle", "load a">> /\ report' = n /\ UNCHANGED <<reports, world>>)
  <2>1. PICK r : r = [n EXCEPT !.refused = TRUE]
    OBVIOUS
  <2>2. /\ MultiModel!Fault /\ reports' = Append(reports, r) /\ UNCHANGED <<stage, report>>
    BY <1>3, <1>6, <2>1 DEF MultiModel!Begin
  <2>3. r \in ReportRecords /\ r.lost = 0 /\ ~r.complete
    BY <1>4, <2>1 DEF ReportRecords
  <2>4. world' \in WorldRecords /\ world'.lost = world.lost
    BY <2>2, FaultLosesNothing DEF MultiModelInv
  <2>5. MultiModelTyped'
    BY <1>1, <1>2, <2>2, <2>3, <2>4 DEF MultiModelInv, MultiModelTyped
  <2>6. ManagerIsTrue' /\ ReportIsTrue'
    BY <1>1, <2>2 DEF MultiModelInv, ManagerIsTrue, ReportIsTrue, MultiModel!Engines
  <2>7. ReportsAreTrue'
    <3>1. Earned(r)
      BY <2>3 DEF Earned
    <3> QED
      BY <1>1, <2>2, <2>3, <2>4, <3>1, AppendedIsTrue
  <2> QED
    BY <2>5, <2>6, <2>7 DEF MultiModelInv
<1> QED
  BY <1>5, <1>6

\* A runtime is held, or released, and nothing else.
LEMMA HeldIsTrue ==
  ASSUME MultiModelInv, MultiModel!Hold \/ MultiModel!Release
  PROVE  MultiModelInv'
<1>1. manager \in ManagerRecords /\ (manager.peak >= 2 => manager.overlap) /\ world \in WorldRecords
  BY DEF MultiModelInv, MultiModelTyped, ManagerIsTrue
<1>2. PICK s \in {"close a", "retry"}, h \in BOOLEAN :
        /\ stage[1] = "shutdown" /\ stage' = <<stage[1], s>> /\ (s = "close a" => stage[2] = "hold")
        /\ stage[2] # "final" /\ manager' = [manager EXCEPT !.held = h]
        /\ UNCHANGED <<report, reports, world>>
  BY DEF MultiModel!Hold, MultiModel!Release, MultiModel!At, MultiModel!GoTo
<1>3. /\ manager' \in ManagerRecords /\ manager'.peak = manager.peak
      /\ manager'.overlap = manager.overlap /\ manager'.pending = manager.pending
      /\ manager'.ledger = manager.ledger
  BY <1>1, <1>2 DEF ManagerRecords
<1>4. ManagerIsTrue'
  BY <1>2, <1>3 DEF MultiModelInv, ManagerIsTrue
<1> QED
  BY <1>1, <1>2, <1>3, <1>4, StepIsTrue

\* The holder may give up anywhere.
LEMMA LapseIsTrue ==
  ASSUME MultiModelInv, MultiModel!Lapse PROVE MultiModelInv'
<1>1. manager \in ManagerRecords /\ UNCHANGED <<stage, report, reports, world>>
      /\ manager' = [manager EXCEPT !.held = FALSE]
  BY DEF MultiModel!Lapse, MultiModelInv, MultiModelTyped
<1>2. /\ manager' \in ManagerRecords /\ manager'.peak = manager.peak
      /\ manager'.overlap = manager.overlap /\ manager'.pending = manager.pending
      /\ manager'.ledger = manager.ledger /\ manager'.state = manager.state
  BY <1>1 DEF ManagerRecords
<1>3. MultiModelTyped'
  BY <1>1, <1>2 DEF MultiModelInv, MultiModelTyped
<1>4. ManagerIsTrue'
  BY <1>1, <1>2 DEF MultiModelInv, ManagerIsTrue
<1>5. (MultiModel!Engines)' = MultiModel!Engines
  BY <1>2 DEF MultiModel!Engines
<1>6. ReportIsTrue'
  BY <1>1, <1>5 DEF MultiModelInv, ReportIsTrue
<1>7. ReportsAreTrue'
  BY <1>1 DEF MultiModelInv, ReportsAreTrue, Earned
<1> QED
  BY <1>3, <1>4, <1>6, <1>7 DEF MultiModelInv

\* A step of the shutdown that only says in the report what it has found.
LEMMA NotedIsTrue ==
  ASSUME MultiModelInv, NEW s, stage[1] = "shutdown", stage[2] # "final",
         stage' = <<"shutdown", s>>, UNCHANGED reports,
         NEW f \in {"clean", "incomplete"}, NEW k \in BOOLEAN, NEW o \in BOOLEAN,
         NEW c \in BOOLEAN, k => o,
         report'.cycles = report.cycles, report'.overlaps = report.overlaps,
         report'.lost = report.lost, report'.retained = k, report'.accounted = o,
         report'.complete = c, report' \in ReportRecords,
         c => k /\ s = "final" /\ (MultiModel!Engines = {})',
         world' \in WorldRecords, world'.lost = world.lost,
         manager' \in ManagerRecords, ManagerIsTrue'
  PROVE  MultiModelInv'
<1>1. MultiModelTyped'
  BY DEF MultiModelInv, MultiModelTyped
<1>2. ReportIsTrue'
  BY DEF MultiModelInv, ReportIsTrue
<1>3. ReportsAreTrue'
  BY DEF MultiModelInv, ReportsAreTrue, Earned
<1> QED
  BY <1>1, <1>2, <1>3 DEF MultiModelInv

\* A runtime that is held, or does not close, remains in the ledger.
LEMMA CloseIsTrue ==
  ASSUME MultiModelInv, NEW m \in MultiModel!Models, MultiModel!CloseFirst(m)
  PROVE  MultiModelInv'
<1>1. /\ manager \in ManagerRecords /\ (manager.peak >= 2 => manager.overlap)
      /\ world \in WorldRecords /\ report \in ReportRecords
      /\ stage[1] = "shutdown" /\ UNCHANGED reports
      /\ \/ m = "a" /\ stage[2] = "close a"
         \/ m = "b" /\ stage[2] = "close b"
  BY StepsOfModels DEF MultiModelInv, MultiModelTyped, ManagerIsTrue, MultiModel!CloseFirst, MultiModel!At
<1>2. PICK s \in {"close b", "look"} : /\ stage' = <<"shutdown", s>> /\ (s = "close b" <=> m = "a")
  <2>1. CASE m = "a"
    BY <1>1, <2>1 DEF MultiModel!CloseFirst, MultiModel!GoTo
  <2>2. CASE m # "a"
    BY <1>1, <2>2 DEF MultiModel!CloseFirst, MultiModel!GoTo
  <2> QED
    BY <2>1, <2>2
<1>3. /\ manager.pending = {} /\ ~report.complete /\ (report.retained => report.accounted)
      /\ m = "a" => <<"resident", "a">> \in manager.ledger
      /\ m = "b" /\ manager.state["a"] = "failed" => <<"resident", "a">> \in manager.ledger
  BY <1>1 DEF MultiModelInv, ManagerIsTrue, ReportIsTrue
<1>4. PICK l : l = manager.ledger \ {<<"resident", m>>}
  OBVIOUS
<1>5. l \in Ledgers /\ (m = "b" /\ <<"resident", "a">> \in manager.ledger => <<"resident", "a">> \in l)
  <2>1. manager.ledger \in Ledgers
    BY <1>1 DEF ManagerRecords
  <2> QED
    BY <1>4, <2>1 DEF Ledgers
<1>6. PICK x : x = MultiModel!Accounting(l)
  OBVIOUS
<1>7. /\ x \in ManagerRecords /\ x.ledger = l /\ x.state = manager.state
      /\ x.pending = manager.pending /\ (x.peak >= 2 => x.overlap)
  BY <1>5, <1>6, AccountingIsTrue
<1>8. CASE manager' = [x EXCEPT !.state[m] = "none"] /\ UNCHANGED <<report, world>>
  <2>1. /\ manager' \in ManagerRecords /\ manager'.ledger = l /\ manager'.pending = {}
        /\ (manager'.peak >= 2 => manager'.overlap)
        /\ m = "a" => manager'.state["a"] = "none"
        /\ m = "b" => manager'.state["a"] = manager.state["a"]
    BY <1>1, <1>3, <1>7, <1>8 DEF ManagerRecords, MultiModel!Models
  <2>2. ManagerIsTrue'
    BY <1>1, <1>2, <1>3, <1>5, <2>1 DEF ManagerIsTrue
  <2>3. s # "final"
    BY <1>2
  <2> QED
    BY <1>1, <1>2, <1>8, <2>1, <2>2, <2>3, StepIsTrue
<1>9. CASE /\ manager' = [manager EXCEPT !.state[m] = "failed"]
           /\ report' = [report EXCEPT !.first = "incomplete"]
           /\ MultiModel!Fault \/ UNCHANGED world
  <2>1. /\ manager' \in ManagerRecords /\ manager'.ledger = manager.ledger /\ manager'.pending = {}
        /\ (manager'.peak >= 2 => manager'.overlap)
        /\ m = "b" => manager'.state["a"] = manager.state["a"]
    BY <1>1, <1>3, <1>9 DEF ManagerRecords, MultiModel!Models
  <2>2. ManagerIsTrue'
    BY <1>1, <1>2, <1>3, <2>1 DEF ManagerIsTrue
  <2>3. /\ report' \in ReportRecords
        /\ report'.cycles = report.cycles /\ report'.overlaps = report.overlaps
        /\ report'.lost = report.lost /\ report'.retained = report.retained
        /\ report'.accounted = report.accounted /\ report'.complete = report.complete
    BY <1>1, <1>9 DEF ReportRecords
  <2>4. report.retained \in BOOLEAN /\ report.accounted \in BOOLEAN /\ report.complete \in BOOLEAN
    BY <1>1 DEF ReportRecords
  <2>5. world' \in WorldRecords /\ world'.lost = world.lost
    BY <1>9, FaultLosesNothing DEF MultiModelInv
  <2>6. stage[2] # "final"
    BY <1>1
  <2> QED
    BY <1>1, <1>2, <1>3, <2>1, <2>2, <2>3, <2>4, <2>5, <2>6, NotedIsTrue
<1> QED
  BY <1>4, <1>6, <1>8, <1>9 DEF MultiModel!CloseFirst

\* What is retained is accounted.
LEMMA LookIsTrue ==
  ASSUME MultiModelInv, MultiModel!Look PROVE MultiModelInv'
<1>1. /\ manager \in ManagerRecords /\ world \in WorldRecords /\ report \in ReportRecords
      /\ stage[1] = "shutdown" /\ stage[2] = "look" /\ stage' = <<"shutdown", "release">>
      /\ UNCHANGED <<manager, reports, world>> /\ ~report.complete
  BY DEF MultiModelInv, MultiModelTyped, ReportIsTrue, MultiModel!Look, MultiModel!At, MultiModel!GoTo
<1>2. PICK k, o : /\ k = (manager.state["a"] = "failed" /\ manager.held)
                  /\ o = (\E m \in MultiModel!Models : <<"resident", m>> \in manager.ledger)
  OBVIOUS
<1>3. /\ k \in BOOLEAN /\ o \in BOOLEAN
      /\ report' = [report EXCEPT !.retained = k, !.accounted = o]
  BY <1>2 DEF MultiModel!Look
<1>4. k => o
  <2>1. manager.state["a"] = "failed" => <<"resident", "a">> \in manager.ledger
    BY <1>1 DEF MultiModelInv, ManagerIsTrue
  <2> QED
    BY <1>2, <2>1 DEF MultiModel!Models
<1>5. PICK r : r = [report EXCEPT !.retained = k]
  OBVIOUS
<1>6. /\ r \in ReportRecords /\ r.cycles = report.cycles /\ r.overlaps = report.overlaps
      /\ r.lost = report.lost /\ r.retained = k /\ r.complete = report.complete
  BY <1>1, <1>3, <1>5 DEF ReportRecords
<1>7. report' = [r EXCEPT !.accounted = o]
  BY <1>3, <1>5
<1>8. /\ report' \in ReportRecords
      /\ report'.cycles = report.cycles /\ report'.overlaps = report.overlaps
      /\ report'.lost = report.lost /\ report'.retained = k
      /\ report'.accounted = o /\ report'.complete = FALSE
  BY <1>1, <1>3, <1>6, <1>7 DEF ReportRecords
<1>9. ManagerIsTrue'
  BY <1>1 DEF MultiModelInv, ManagerIsTrue
<1> QED
  BY <1>1, <1>3, <1>4, <1>8, <1>9, NotedIsTrue

\* A procedure that is complete has closed both runtimes.
LEMMA RetryIsTrue ==
  ASSUME MultiModelInv, MultiModel!Retry PROVE MultiModelInv'
<1>1. /\ manager \in ManagerRecords /\ world \in WorldRecords /\ report \in ReportRecords
      /\ stage[1] = "shutdown" /\ stage[2] = "retry" /\ stage' = <<"shutdown", "final">>
      /\ UNCHANGED reports /\ ~report.complete /\ (report.retained => report.accounted)
      /\ manager.pending = {}
  BY DEF MultiModelInv, MultiModelTyped, ReportIsTrue, ManagerIsTrue,
         MultiModel!Retry, MultiModel!At, MultiModel!GoTo
<1>2. PICK failing \in SUBSET MultiModel!Engines :
        /\ manager' = [MultiModel!Accounting({each \in manager.ledger : each[2] \in failing}) EXCEPT
                         !.state = [m \in MultiModel!Models |-> IF m \in failing THEN "failed" ELSE "none"]]
        /\ IF failing = {}
           THEN /\ report' = [report EXCEPT !.complete = report.first = "incomplete"
                                                         /\ report.retained]
                /\ UNCHANGED world
           ELSE MultiModel!Fault /\ UNCHANGED report
  BY DEF MultiModel!Retry
<1>3. PICK l : l = {each \in manager.ledger : each[2] \in failing}
  OBVIOUS
<1>4. l \in Ledgers
  <2>1. manager.ledger \in Ledgers
    BY <1>1 DEF ManagerRecords
  <2> QED
    BY <1>3, <2>1 DEF Ledgers
<1>5. PICK x : x = MultiModel!Accounting(l)
  OBVIOUS
<1>6. x \in ManagerRecords /\ x.pending = {} /\ (x.peak >= 2 => x.overlap)
  BY <1>1, <1>4, <1>5, AccountingIsTrue
<1>7. PICK st : st = [m \in MultiModel!Models |-> IF m \in failing THEN "failed" ELSE "none"]
  OBVIOUS
<1>8. st \in [MultiModel!Models -> {"none", "ready", "failed"}]
      /\ (failing = {} => \A m \in MultiModel!Models : st[m] = "none")
  BY <1>7
<1>9. /\ manager' \in ManagerRecords /\ manager'.pending = {} /\ manager'.state = st
      /\ (manager'.peak >= 2 => manager'.overlap)
  <2>1. manager' = [x EXCEPT !.state = st]
    BY <1>2, <1>3, <1>5, <1>7
  <2> QED
    BY <1>6, <1>8, <2>1 DEF ManagerRecords
<1>10. failing = {} => (MultiModel!Engines = {})'
  BY <1>8, <1>9 DEF MultiModel!Engines
<1>11. ManagerIsTrue'
  BY <1>1, <1>9 DEF ManagerIsTrue
<1>12. CASE failing = {}
  <2>1. PICK c : c = (report.first = "incomplete" /\ report.retained)
    OBVIOUS
  <2>2. c \in BOOLEAN /\ (c => report.retained)
    BY <1>1, <2>1 DEF ReportRecords
  <2>3. report' = [report EXCEPT !.complete = c]
    BY <1>2, <1>12, <2>1
  <2>4. /\ report' \in ReportRecords
        /\ report'.cycles = report.cycles /\ report'.overlaps = report.overlaps
        /\ report'.lost = report.lost /\ report'.retained = report.retained
        /\ report'.accounted = report.accounted /\ report'.complete = c
        /\ report.retained \in BOOLEAN /\ report.accounted \in BOOLEAN
    BY <1>1, <2>2, <2>3 DEF ReportRecords
  <2>5. world' \in WorldRecords /\ world'.lost = world.lost
    BY <1>1, <1>2, <1>12
  <2>6. stage[2] # "final"
    BY <1>1
  <2> QED
    BY <1>1, <1>9, <1>10, <1>11, <1>12, <2>2, <2>4, <2>5, <2>6, NotedIsTrue
<1>13. CASE failing # {}
  <2>1. MultiModel!Fault /\ UNCHANGED report
    BY <1>2, <1>13
  <2>2. world' \in WorldRecords /\ world'.lost = world.lost
    BY <2>1, FaultLosesNothing DEF MultiModelInv
  <2> QED
    BY <1>1, <1>9, <1>11, <2>1, <2>2, StepIsTrue
<1> QED
  BY <1>12, <1>13

\* What the runtimes are identified by is nobody's loss.
LEMMA ChangeIsTrue ==
  ASSUME MultiModelInv, MultiModel!Change PROVE MultiModelInv'
<1>1. /\ UNCHANGED <<stage, manager, report, reports>>
      /\ world' = [world EXCEPT !.identity = @ + 1, !.changes = @ + 1]
      /\ world \in WorldRecords
  BY DEF MultiModel!Change, MultiModelInv, MultiModelTyped
<1>2. PICK w : w = [world EXCEPT !.identity = @ + 1]
  OBVIOUS
<1>3. w \in WorldRecords /\ w.lost = world.lost
  BY <1>1, <1>2 DEF WorldRecords
<1>4. world' \in WorldRecords /\ world'.lost = world.lost
  <2>1. world' = [w EXCEPT !.changes = @ + 1]
    BY <1>1, <1>2 DEF WorldRecords
  <2> QED
    BY <1>3, <2>1 DEF WorldRecords
<1>5. (MultiModel!Engines)' = MultiModel!Engines
  BY <1>1 DEF MultiModel!Engines
<1> QED
  BY <1>1, <1>4, <1>5 DEF MultiModelInv, MultiModelTyped, ManagerIsTrue, ReportIsTrue,
                          ReportsAreTrue, Earned

\* A report is finished with what its managers have left behind.
LEMMA FinalIsTrue ==
  ASSUME MultiModelAssumption, MultiModelInv, MultiModel!Final
  PROVE  MultiModelInv'
<1>1. /\ manager \in ManagerRecords /\ world \in WorldRecords /\ report \in ReportRecords
      /\ reports \in Seq(ReportRecords) /\ ReportIsTrue
      /\ stage[1] \in {"cycle", "shutdown"} /\ stage[2] = "final" /\ manager' = MultiModel!NewManager
  BY DEF MultiModelInv, MultiModelTyped, MultiModel!Final, MultiModel!At
<1>2. PICK survivors \in SUBSET MultiModel!Engines :
        /\ world' = [world EXCEPT !.lost = @ + MultiModel!Cardinality(survivors),
                                  !.faults = @ + MultiModel!Cardinality(survivors)]
        /\ LET all == /\ Len(report.cycles) = ReportCycles
                      /\ \A i \in 1..ReportCycles : report.cycles[i].complete
               done == [report EXCEPT !.lost = @ + MultiModel!Cardinality(survivors)]
           IN IF stage[1] = "cycle"
              THEN /\ stage' = <<IF MultiModel!Last(report.cycles).complete
                                    /\ Len(report.cycles) < ReportCycles
                                 THEN "cycle" ELSE "shutdown", "load a">>
                   /\ report' = done /\ UNCHANGED reports
              ELSE /\ reports' = Append(reports, [done EXCEPT !.complete = all /\ @])
                   /\ report' = MultiModel!NoReport /\ stage' = <<"report", "begin">>
  BY DEF MultiModel!Final
<1>3. PICK lost : lost = MultiModel!Cardinality(survivors)
  OBVIOUS
<1>4. lost \in Nat /\ (MultiModel!Engines = {} => lost = 0)
  <2>1. survivors \subseteq MultiModel!Models
    BY <1>1 DEF MultiModel!Engines, ManagerRecords
  <2>2. lost = Cardinality(survivors)
    BY <1>3 DEF MultiModel!Cardinality, Cardinality
  <2>3. IsFiniteSet({"a"}) /\ IsFiniteSet({"b"}) /\ {"a", "b"} = {"a"} \cup {"b"}
    BY FS_Singleton
  <2>4. IsFiniteSet({"a", "b"})
    BY <2>3, FS_Union
  <2>5. IsFiniteSet(survivors)
    BY <2>1, <2>4, FS_Subset DEF MultiModel!Models
  <2>6. lost \in Nat
    BY <2>2, <2>5, FS_CardinalityType
  <2>7. survivors = {} => lost = 0
    BY <2>2, FS_EmptySet
  <2> QED
    BY <2>6, <2>7
<1>5. world' \in WorldRecords /\ world'.lost = world.lost + lost
  <2>1. PICK w : w = [world EXCEPT !.lost = @ + lost]
    OBVIOUS
  <2>2. w \in WorldRecords /\ w.lost = world.lost + lost
    BY <1>1, <1>4, <2>1 DEF WorldRecords
  <2>3. world' = [w EXCEPT !.faults = @ + lost]
    BY <1>1, <1>2, <1>3, <2>1 DEF WorldRecords
  <2> QED
    BY <1>4, <2>2, <2>3 DEF WorldRecords
<1>6. PICK done : done = [report EXCEPT !.lost = @ + lost]
  OBVIOUS
<1>7. /\ done \in ReportRecords /\ done.cycles = report.cycles /\ done.overlaps = report.overlaps
      /\ done.lost = report.lost + lost /\ done.retained = report.retained
      /\ done.accounted = report.accounted /\ done.complete = report.complete
  <2>1. PICK total : total = report.lost + lost
    OBVIOUS
  <2>2. report.lost \in Nat
    BY <1>1 DEF ReportRecords
  <2>3. total \in Nat
    BY <1>4, <2>1, <2>2
  <2>4. done = [report EXCEPT !.lost = total]
    BY <1>1, <1>6, <2>1
  <2> QED
    BY <1>1, <2>1, <2>3, <2>4 DEF ReportRecords
<1>9. PICK new : new = MultiModel!NewManager
  OBVIOUS
<1>10. new \in ManagerRecords /\ new.pending = {} /\ new.peak = 0
  BY <1>9 DEF MultiModel!NewManager, ManagerRecords, Ledgers, MultiModel!Unidentified
<1>11. report.lost \in Nat /\ world.lost \in Nat
  BY <1>1 DEF ReportRecords, WorldRecords
<1>12. CASE stage[1] = "cycle"
  <2>1. PICK p \in {"cycle", "shutdown"} : stage' = <<p, "load a">>
    BY <1>2, <1>12
  <2>2. report' = done /\ UNCHANGED reports
    BY <1>2, <1>3, <1>6, <1>12
  <2>3. MultiModelTyped'
    BY <1>1, <1>5, <1>7, <1>9, <1>10, <2>1, <2>2 DEF MultiModelTyped
  <2>4. ManagerIsTrue'
    <3>1. manager'.pending = {} /\ ~(manager'.peak >= 2) /\ stage'[1] = p /\ stage'[2] = "load a"
      <4>1. manager' = new /\ ~(0 >= 2)
        BY <1>1, <1>9
      <4>2. manager'.pending = {} /\ manager'.peak = 0
        BY <1>10, <4>1
      <4> QED
        BY <2>1, <4>1, <4>2
    <3> QED
      BY <3>1 DEF ManagerIsTrue
  <2>5. ~report.complete /\ Len(report.cycles) \in Nat
    BY <1>1, <1>12 DEF ReportIsTrue, ReportRecords
  <2>6. (\A i \in 1..Len(report.cycles) : report.cycles[i].complete) => report.lost + lost = 0
    <3>1. SUFFICES ASSUME \A i \in 1..Len(report.cycles) : report.cycles[i].complete
                   PROVE  report.lost + lost = 0
      OBVIOUS
    <3>2. report.lost = 0 /\ Len(report.cycles) # 0
      BY <1>1, <1>12, <3>1 DEF ReportIsTrue
    <3>3. Len(report.cycles) \in 1..Len(report.cycles)
      BY <2>5, <3>2
    <3>4. MultiModel!Engines = {}
      BY <1>1, <1>12, <3>1, <3>3 DEF ReportIsTrue
    <3> QED
      BY <1>4, <3>2, <3>4
  <2>7. ReportIsTrue'
    <3>1. /\ Len(done.cycles) = Len(done.overlaps)
          /\ \A i \in 1..Len(done.cycles) : done.cycles[i].complete => done.overlaps[i]
          /\ (\A i \in 1..Len(done.cycles) : done.cycles[i].complete) => done.lost = 0
          /\ done.retained => done.accounted
          /\ ~done.complete
      BY <1>1, <1>7, <2>5, <2>6 DEF ReportIsTrue
    <3> QED
      BY <2>1, <2>2, <3>1 DEF ReportIsTrue
  <2>8. ReportsAreTrue'
    <3>1. /\ \A i \in 1..Len(reports) : Earned(reports[i])
          /\ (\A i \in 1..Len(reports) : reports[i].lost = 0) /\ report.lost = 0 => world.lost = 0
      BY DEF MultiModelInv, ReportsAreTrue
    <3>2. report.lost + lost = 0 => report.lost = 0 /\ lost = 0
      BY <1>4, <1>11
    <3> QED
      BY <1>5, <1>7, <1>11, <2>2, <3>1, <3>2 DEF ReportsAreTrue, Earned
  <2> QED
    BY <2>3, <2>4, <2>7, <2>8 DEF MultiModelInv
<1>13. CASE stage[1] = "shutdown"
  <2>1. PICK all : all = (/\ Len(report.cycles) = ReportCycles
                          /\ \A i \in 1..ReportCycles : report.cycles[i].complete)
    OBVIOUS
  <2>2. all \in BOOLEAN
    BY <2>1
  <2>3. PICK r : r = [done EXCEPT !.complete = all /\ @]
    OBVIOUS
  <2>4. /\ r \in ReportRecords /\ r.overlaps = report.overlaps
        /\ r.lost = report.lost + lost /\ r.retained = report.retained
        /\ r.accounted = report.accounted /\ (r.complete => all /\ report.complete)
    BY <1>7, <2>2, <2>3 DEF ReportRecords
  <2>5. reports' = Append(reports, r) /\ stage' = <<"report", "begin">>
        /\ report' = MultiModel!NoReport
    <3>1. stage[1] # "cycle"
      BY <1>13
    <3> QED
      BY <1>2, <1>3, <1>6, <2>1, <2>3, <3>1
  <2>6. Earned(r)
    <3>1. SUFFICES ASSUME r.complete PROVE Earned(r)
      BY DEF Earned
    <3>2. /\ Len(report.cycles) = ReportCycles /\ report.retained /\ report.accounted
          /\ \A i \in 1..ReportCycles : report.cycles[i].complete
      BY <1>1, <2>1, <2>4, <3>1 DEF ReportIsTrue
    <3>3. /\ Len(report.overlaps) = ReportCycles /\ report.lost = 0
          /\ \A i \in 1..ReportCycles : report.overlaps[i]
      BY <1>1, <3>2 DEF ReportIsTrue
    <3>4. lost = 0
      BY <1>1, <1>4, <2>4, <3>1 DEF ReportIsTrue
    <3> QED
      BY <2>4, <3>2, <3>3, <3>4 DEF Earned
  <2>7. PICK n : n = MultiModel!NoReport
    OBVIOUS
  <2>8. /\ n \in ReportRecords /\ n.cycles = <<>> /\ n.overlaps = <<>> /\ n.lost = 0
        /\ ~n.complete /\ ~n.retained
    BY <2>7 DEF MultiModel!NoReport, ReportRecords
  <2>9. MultiModelTyped'
    BY <1>1, <1>5, <1>9, <1>10, <2>4, <2>5, <2>7, <2>8 DEF MultiModelTyped
  <2>10. ManagerIsTrue'
    BY <1>1, <1>9, <1>10, <2>5 DEF ManagerIsTrue
  <2>11. ReportIsTrue'
    <3>1. Len(report'.cycles) = 0 /\ Len(report'.overlaps) = 0
      BY <2>5, <2>7, <2>8
    <3>2. \A i \in 1..0 : report'.cycles[i].complete => report'.overlaps[i]
      OBVIOUS
    <3> QED
      BY <2>5, <2>7, <2>8, <3>1, <3>2 DEF ReportIsTrue
  <2>12. ReportsAreTrue'
    <3>1. report.lost + lost = 0 => report.lost = 0 /\ world.lost + lost = world.lost
      <4>1. PICK o \in Nat, w \in Nat : o = report.lost /\ w = world.lost
        BY <1>11
      <4>2. o + lost = 0 => o = 0 /\ w + lost = w
        BY <1>4
      <4> QED
        BY <4>1, <4>2
    <3>2. r.lost = 0 => report.lost = 0 /\ world'.lost = world.lost
      BY <1>5, <2>4, <3>1
    <3> QED
      BY <2>4, <2>5, <2>6, <3>2, AppendedIsTrue
  <2> QED
    BY <2>9, <2>10, <2>11, <2>12 DEF MultiModelInv
<1> QED
  BY <1>1, <1>12, <1>13

\* Nothing is reported before the first procedure.
LEMMA FirstReportIsTrue ==
  ASSUME MultiModel!Init PROVE MultiModelInv
<1>1. /\ stage = <<"report", "begin">> /\ reports = <<>>
      /\ world = [identity |-> 1, lost |-> 0, faults |-> 0, changes |-> 0]
  BY DEF MultiModel!Init
<1>2. PICK n : n = MultiModel!NoReport
  OBVIOUS
<1>3. /\ n \in ReportRecords /\ n.cycles = <<>> /\ n.overlaps = <<>> /\ n.lost = 0
      /\ ~n.complete /\ ~n.retained
  BY <1>2 DEF MultiModel!NoReport, ReportRecords
<1>4. PICK new : new = MultiModel!NewManager
  OBVIOUS
<1>5. new \in ManagerRecords /\ new.pending = {} /\ new.peak = 0
  BY <1>4 DEF MultiModel!NewManager, ManagerRecords, Ledgers, MultiModel!Unidentified
<1>6. manager = new /\ report = n
  BY <1>2, <1>4 DEF MultiModel!Init
<1>7. MultiModelTyped
  BY <1>1, <1>3, <1>5, <1>6 DEF MultiModelTyped, WorldRecords
<1>8. ManagerIsTrue
  <2>1. manager.pending = {} /\ ~(manager.peak >= 2) /\ stage[1] = "report"
    BY <1>1, <1>5, <1>6
  <2> QED
    BY <2>1 DEF ManagerIsTrue
<1>9. ReportIsTrue
  <2>1. Len(report.cycles) = 0 /\ Len(report.overlaps) = 0
    BY <1>3, <1>6
  <2>2. \A i \in 1..0 : report.cycles[i].complete => report.overlaps[i]
    OBVIOUS
  <2> QED
    BY <1>1, <1>3, <1>6, <2>1, <2>2 DEF ReportIsTrue
<1>10. ReportsAreTrue
  <2>1. Len(reports) = 0 /\ \A i \in 1..0 : Earned(reports[i])
    BY <1>1
  <2> QED
    BY <1>1, <2>1 DEF ReportsAreTrue
<1> QED
  BY <1>7, <1>8, <1>9, <1>10 DEF MultiModelInv

\* Each step of the procedure keeps what its reports say true.
LEMMA MultiModelStep ==
  ASSUME MultiModelAssumption, MultiModelInv, MultiModel!Next PROVE MultiModelInv'
<1>1. \A m \in MultiModel!Models :
        MultiModel!Load(m) \/ MultiModel!LoadFails(m) \/ MultiModel!Reserve(m)
        \/ MultiModel!Answer(m) \/ MultiModel!Unload(m) \/ MultiModel!CloseFirst(m) => MultiModelInv'
  BY LoadIsTrue, FailedLoadIsTrue, RequestsAreTrue, UnloadIsTrue, CloseIsTrue
<1>2. MultiModel!Begin \/ MultiModel!Final \/ MultiModel!Asked \/ MultiModel!Settle => MultiModelInv'
  BY BeginIsTrue, FinalIsTrue, AskedIsTrue, SettleIsTrue
<1>3. MultiModel!Hold \/ MultiModel!Release \/ MultiModel!Lapse => MultiModelInv'
  BY HeldIsTrue, LapseIsTrue
<1>4. MultiModel!Look \/ MultiModel!Retry \/ MultiModel!Change => MultiModelInv'
  BY LookIsTrue, RetryIsTrue, ChangeIsTrue
<1> QED
  BY <1>1, <1>2, <1>3, <1>4 DEF MultiModel!Next

\* The invariant holds in every behaviour of the procedure.
LEMMA MultiModelInvHolds ==
  ASSUME MultiModelAssumption
  PROVE  KeptSpec => [](component = "multimodel" => MultiModelInv)
<1>1. ASSUME MultiModelInv, UNCHANGED MultiModel!vars PROVE MultiModelInv'
  <2>1. UNCHANGED <<stage, manager, report, reports, world>>
    BY <1>1 DEF MultiModel!vars
  <2>2. (MultiModel!Engines)' = MultiModel!Engines
    BY <2>1 DEF MultiModel!Engines
  <2> QED
    BY <1>1, <2>1, <2>2 DEF MultiModelInv, MultiModelTyped, ManagerIsTrue, ReportIsTrue,
                            ReportsAreTrue, Earned
<1>2. MultiModelInv /\ [MultiModel!Next]_(MultiModel!vars) => MultiModelInv'
  BY <1>1, MultiModelStep
<1>3. KeptInit => (component = "multimodel" => MultiModelInv)
  BY FirstReportIsTrue DEF KeptInit
<1>4. (component = "multimodel" => MultiModelInv) /\ [KeptNext]_storesVars
         => (component = "multimodel" => MultiModelInv)'
  BY <1>2, SameStore
<1> QED
  BY <1>3, <1>4, PTL DEF KeptSpec

\* The cycles of some reports are at most as many as those reports have.
LEMMA CyclesOfReports ==
  ASSUME MultiModelAssumption, NEW n \in Nat, NEW rs, Len(rs) = n
  PROVE  /\ MultiModel!Cardinality(MultiModel!CompleteCycles(rs)) \in Nat
         /\ MultiModel!Cardinality(MultiModel!CompleteCycles(rs)) <= n * ReportCycles
<1>1. PICK cs : cs = MultiModel!CompleteCycles(rs)
  OBVIOUS
<1>2. cs \subseteq (1..n) \X (1..ReportCycles)
  BY <1>1 DEF MultiModel!CompleteCycles
<1>3. ReportCycles \in Nat
  BY DEF MultiModelAssumption
<1>4. /\ IsFiniteSet(1..n) /\ Cardinality(1..n) = n
      /\ IsFiniteSet(1..ReportCycles) /\ Cardinality(1..ReportCycles) = ReportCycles
  BY <1>3, FS_Interval
<1>5. /\ IsFiniteSet((1..n) \X (1..ReportCycles))
      /\ Cardinality((1..n) \X (1..ReportCycles)) = n * ReportCycles
  <2>1. PICK p, q : p = 1..n /\ q = 1..ReportCycles
    OBVIOUS
  <2>2. /\ IsFiniteSet(p) /\ IsFiniteSet(q)
        /\ Cardinality(p) = n /\ Cardinality(q) = ReportCycles
    BY <1>4, <2>1
  <2>3. IsFiniteSet(p \X q) /\ Cardinality(p \X q) = Cardinality(p) * Cardinality(q)
    BY <2>2, FS_Product, Zenon
  <2> QED
    BY <2>1, <2>2, <2>3, Zenon
<1>6. IsFiniteSet(cs) /\ Cardinality(cs) <= n * ReportCycles
  BY <1>2, <1>5, FS_Subset
<1>7. Cardinality(cs) \in Nat
  BY <1>6, FS_CardinalityType
<1>8. MultiModel!Cardinality(cs) = Cardinality(cs)
  BY DEF MultiModel!Cardinality, Cardinality
<1> QED
  BY <1>1, <1>6, <1>7, <1>8

\* A report that counts and is valid has one identity.
LEMMA ReportHasOneIdentity ==
  ASSUME MultiModelAssumption, NEW r \in ReportRecords, MultiModel!Valid(r),
         MultiModel!ReportCounts(r)
  PROVE  MultiModel!Cardinality(MultiModel!PrintsOf(r)) = 1
<1>1. r.cycles \in Seq(CycleRecords) /\ Len(r.cycles) = ReportCycles /\ 1 \in 1..ReportCycles
  BY DEF MultiModel!ReportCounts, ReportRecords, MultiModelAssumption
<1>2. DOMAIN r.cycles = 1..ReportCycles
  BY <1>1
<1>3. PICK cs : cs = {j \in DOMAIN r.cycles : MultiModel!Identified(r.cycles[j])}
  OBVIOUS
<1>4. PICK ps : ps = MultiModel!PrintsOf(r)
  OBVIOUS
<1>5. ps = {r.cycles[i].prints : i \in cs}
  BY <1>3, <1>4 DEF MultiModel!PrintsOf
<1>6. 1 \in cs
  BY <1>1, <1>2, <1>3 DEF MultiModel!ReportCounts, MultiModel!CycleCounts
<1>7. IsFiniteSet(cs)
  <2>1. IsFiniteSet(1..ReportCycles)
    BY <1>1, FS_Interval DEF MultiModelAssumption
  <2> QED
    BY <1>2, <1>3, <2>1, FS_Subset
<1>8. IsFiniteSet(ps)
  <2>1. PICK f : f = [i \in cs |-> r.cycles[i].prints]
    OBVIOUS
  <2>2. f \in Surjection(cs, ps)
    BY <1>5, <2>1 DEF Surjection
  <2> QED
    BY <1>7, <2>2, FS_Surjection
<1>9. ps # {}
  BY <1>5, <1>6
<1>10. MultiModel!Cardinality(ps) = Cardinality(ps)
  BY DEF MultiModel!Cardinality, Cardinality
<1>11. Cardinality(ps) <= 1
  BY <1>4, <1>10 DEF MultiModel!Valid
<1>12. Cardinality(ps) \in Nat /\ Cardinality(ps) # 0
  BY <1>8, <1>9, FS_CardinalityType, FS_EmptySet
<1> QED
  BY <1>4, <1>10, <1>11, <1>12

\* What the review demands of reports that it calls sufficient.
LEMMA SufficientIsStrict ==
  ASSUME NEW rs, MultiModel!Review(rs) = "sufficient"
  PROVE  /\ \A r \in MultiModel!ToSet(rs) : MultiModel!Valid(r) /\ MultiModel!ReportCounts(r)
         /\ MultiModel!ToSet(rs) # {}
         /\ \A r1, r2 \in MultiModel!ToSet(rs) : MultiModel!PrintsOf(r1) = MultiModel!PrintsOf(r2)
         /\ Len(rs) >= MinReports
         /\ MultiModel!Cardinality(MultiModel!CompleteCycles(rs)) >= MinCycles
<1>1. PICK valid : valid = {r \in MultiModel!ToSet(rs) : MultiModel!Valid(r)}
  OBVIOUS
<1>2. PICK differ \in BOOLEAN :
        differ <=> \E r1, r2 \in valid : MultiModel!PrintsOf(r1) # MultiModel!PrintsOf(r2)
  OBVIOUS
<1>3. PICK enough \in BOOLEAN :
        enough <=> /\ valid = MultiModel!ToSet(rs) /\ Len(rs) >= MinReports
                   /\ MultiModel!Cardinality(MultiModel!CompleteCycles(rs)) >= MinCycles
                   /\ \A r \in valid : MultiModel!ReportCounts(r)
  OBVIOUS
<1>4. MultiModel!Review(rs) = CASE valid = {} -> "insufficient"
                                [] differ -> "incompatible"
                                [] OTHER -> IF enough THEN "sufficient" ELSE "insufficient"
  BY <1>1, <1>2, <1>3 DEF MultiModel!Review
<1>5. differ => valid # {}
  BY <1>2
<1>6. valid # {} /\ ~differ /\ enough
  BY <1>4, <1>5
<1> QED
  BY <1>1, <1>2, <1>3, <1>6

\* The invariant says what the reports and their review say.
LEMMA EvidenceOfTwoModels ==
  ASSUME MultiModelAssumption, MultiModelInv PROVE MultiModel!EvidenceIsEarned
<1>1. /\ reports \in Seq(ReportRecords) /\ ReportIsTrue /\ ReportsAreTrue
      /\ MultiModel!ToSet(reports) = {reports[i] : i \in 1..Len(reports)}
  BY DEF MultiModelInv, MultiModelTyped, MultiModel!ToSet
<1>2. PICK n \in Nat : n = Len(reports)
  BY <1>1
<1>3. \A r \in MultiModel!ToSet(reports) : Earned(r) /\ r \in ReportRecords
  BY <1>1 DEF ReportsAreTrue
<1>4. ASSUME MultiModel!Review(reports) = "sufficient"
      PROVE  /\ Len(reports) >= MinReports /\ Len(reports) * ReportCycles >= MinCycles
             /\ \A r \in MultiModel!ToSet(reports) : r.complete
             /\ MultiModel!At({"report"}, "begin") => world.lost = 0
             /\ MultiModel!Cardinality(UNION {MultiModel!PrintsOf(r) : r \in MultiModel!ToSet(reports)}) = 1
  <2>1. /\ \A r \in MultiModel!ToSet(reports) : MultiModel!Valid(r) /\ MultiModel!ReportCounts(r)
        /\ MultiModel!ToSet(reports) # {}
        /\ \A r1, r2 \in MultiModel!ToSet(reports) : MultiModel!PrintsOf(r1) = MultiModel!PrintsOf(r2)
        /\ Len(reports) >= MinReports
        /\ MultiModel!Cardinality(MultiModel!CompleteCycles(reports)) >= MinCycles
    BY <1>4, SufficientIsStrict
  <2>2. Len(reports) * ReportCycles >= MinCycles
    <3>1. PICK c : c = MultiModel!Cardinality(MultiModel!CompleteCycles(reports))
      OBVIOUS
    <3>2. PICK t : t = n * ReportCycles
      OBVIOUS
    <3>3. t \in Nat
      BY <3>2 DEF MultiModelAssumption
    <3>4. c \in Nat /\ c <= t
      BY <1>2, <3>1, <3>2, CyclesOfReports
    <3>5. t >= MinCycles
      BY <2>1, <3>1, <3>3, <3>4 DEF MultiModelAssumption
    <3> QED
      BY <1>2, <3>2, <3>5
  <2>3. \A r \in MultiModel!ToSet(reports) : r.complete
    BY <2>1 DEF MultiModel!ReportCounts
  <2>4. MultiModel!At({"report"}, "begin") => world.lost = 0
    <3>1. \A i \in 1..Len(reports) : reports[i].lost = 0
      BY <1>1, <1>3, <2>3 DEF Earned
    <3> QED
      BY <1>1, <3>1 DEF MultiModel!At, ReportIsTrue, ReportsAreTrue
  <2>5. PICK r0 : r0 \in MultiModel!ToSet(reports)
    BY <2>1
  <2>6. UNION {MultiModel!PrintsOf(r) : r \in MultiModel!ToSet(reports)} = MultiModel!PrintsOf(r0)
    <3>1. {MultiModel!PrintsOf(r) : r \in MultiModel!ToSet(reports)} = {MultiModel!PrintsOf(r0)}
      BY <2>1, <2>5
    <3> QED
      BY <3>1
  <2>7. MultiModel!Cardinality(MultiModel!PrintsOf(r0)) = 1
    BY <1>3, <2>1, <2>5, ReportHasOneIdentity
  <2> QED
    BY <2>1, <2>2, <2>3, <2>4, <2>6, <2>7
<1> QED
  BY <1>3, <1>4 DEF MultiModel!EvidenceIsEarned, Earned
-----------------------------------------------------------------------------
(* EvidenceCampaign: what a complete campaign has done.                        *)

AfterResource == {"bundle", "multimodel"}
AfterReclamation == {"resource"} \cup AfterResource
AfterEvaluation == {"stop", "reclamation"} \cup AfterReclamation
AfterThinking == {"evaluation"} \cup AfterEvaluation
AfterStart == {"thinking"} \cup AfterThinking
AfterSecondary == {"start"} \cup AfterStart
AfterPrimary == {"secondary"} \cup AfterSecondary

TallyRecords == [campaigns : Nat, interrupts : Nat, faults : Nat, workers : Nat]
DraftRecords == [windows : Nat, errors : Nat, cycles : Nat]
Reclamations == {"reclamation a", "reclamation b"}

\* The directory holds reports of this campaign and of earlier ones.
DirectoryTyped ==
    /\ dir = [e \in Campaign!Evidence |-> dir[e]]
    /\ \A e \in Campaign!Evidence : dir[e].by \in Nat /\ dir[e].by <= tally.campaigns
    /\ \A e \in Reclamations : dir[e].by # 0 => dir[e].report.errors \in Nat

CampaignTyped ==
    /\ step = <<step[1], step[2]>>
    /\ step[2] \in Campaign!Phases \cup {"finalize", "leave 1", "leave 130"}
    /\ phases = [p \in Campaign!Phases |-> phases[p]]
    /\ verdict \in [minimum : BOOLEAN, rrg5 : BOOLEAN]
    /\ draft \in DraftRecords /\ tally \in TallyRecords /\ DirectoryTyped

\* The campaign is past a phase, or has been judged.
Passed(later) == step[2] \in later \/ verdict.minimum

OwnPhase(p) == phases[p] = "PASS" /\ dir[p].by = tally.campaigns

\* Every phase that is over has passed with evidence of its own, or has complained.
PhasesAreDone ==
    /\ Passed(AfterPrimary) => phases["primary"] = "PASS"
    /\ Passed(AfterSecondary) => (step[1] = "full" => phases["secondary"] = "PASS")
    /\ Passed(AfterStart) => phases["start"] \in {"PASS", "FAIL"}
    /\ Passed(AfterThinking) =>
         OwnPhase("thinking") \/ phases["thinking"] = "FAIL" \/ phases["start"] = "FAIL"
    /\ Passed(AfterEvaluation) =>
         OwnPhase("evaluation") \/ phases["evaluation"] = "FAIL" \/ phases["start"] = "FAIL"
    /\ Passed(AfterReclamation) =>
         \/ \A e \in Reclamations \cup {"review"} : dir[e].by = tally.campaigns
         \/ phases["reclamation"] \in {"FAIL", "INCONCLUSIVE"}
    /\ Passed(AfterResource) =>
         OwnPhase("resource") \/ phases["resource"] \in {"FAIL", "INCONCLUSIVE"}

\* The verdicts are of what the directory holds, and the exit code is of the verdicts.
VerdictIsKept ==
    /\ verdict.minimum => Campaign!BundleComplete /\ step[2] \in {"multimodel", "finalize"}
    /\ verdict.rrg5 => phases["multimodel"] = "PASS" /\ step[2] = "finalize"
    /\ exit = "0" /\ tally.campaigns > 0 =>
         verdict.minimum /\ (step[1] = "minimum" \/ verdict.rrg5)
    /\ exit = "2" => \A p \in Campaign!Phases : phases[p] # "FAIL"

\* There is a server between its phases, and after them only one that could not be stopped.
ServerIsWatched ==
    /\ step[2] \in {"backend", "preflight", "primary", "secondary", "start"} => server = "none"
    /\ step[2] \in {"reclamation", "resource", "bundle", "multimodel", "finalize"}
         /\ Campaign!Unattended => phases["stop"] = "FAIL"
    /\ step[2] = "leave 1" => tally.faults >= 1
    /\ step[2] = "leave 130" => tally.interrupts >= 1
    /\ exit # "none" /\ Campaign!Unattended =>
         phases["stop"] = "FAIL" \/ (exit = "130" /\ tally.interrupts + tally.faults >= 2)

\* A worker that is left running is an error of a report of this campaign, or of none.
WorkersAreCounted ==
    /\ draft.errors = 0 \/ step[2] \in {"reclamation", "leave 1"}
    /\ phases["reclamation"] = "FAIL" => step[2] \in AfterReclamation \cup {"finalize"}
    /\ dir["reclamation b"].by = tally.campaigns /\ tally.campaigns > 0 =>
         step[2] \in AfterReclamation \cup {"finalize"} /\ phases["reclamation"] # "FAIL"
    /\ tally.workers > 0 =>
         \/ draft.errors > 0 \/ phases["reclamation"] = "FAIL"
         \/ \E e \in Reclamations : dir[e].by = tally.campaigns /\ dir[e].report.errors > 0

CampaignInv ==
    CampaignTyped /\ PhasesAreDone /\ VerdictIsKept /\ ServerIsWatched /\ WorkersAreCounted
        /\ (exit = "none" => tally.campaigns > 0)

\* The order of the phases.
LEMMA OrderOfPhases ==
  /\ Campaign!NextPhase["backend"] = "preflight" /\ Campaign!NextPhase["preflight"] = "primary"
  /\ Campaign!NextPhase["primary"] = "secondary" /\ Campaign!NextPhase["secondary"] = "start"
  /\ Campaign!NextPhase["start"] = "thinking" /\ Campaign!NextPhase["thinking"] = "evaluation"
  /\ Campaign!NextPhase["evaluation"] = "stop" /\ Campaign!NextPhase["stop"] = "reclamation"
  /\ Campaign!NextPhase["reclamation"] = "resource" /\ Campaign!NextPhase["resource"] = "bundle"
  /\ Campaign!NextPhase["bundle"] = "multimodel" /\ Campaign!NextPhase["multimodel"] = "finalize"
<1>1. /\ Campaign!NextPhase["backend"] = "preflight" /\ Campaign!NextPhase["preflight"] = "primary"
      /\ Campaign!NextPhase["primary"] = "secondary"
  BY DEF Campaign!NextPhase, Campaign!Phases
<1>2. /\ Campaign!NextPhase["secondary"] = "start" /\ Campaign!NextPhase["start"] = "thinking"
      /\ Campaign!NextPhase["thinking"] = "evaluation"
  BY DEF Campaign!NextPhase, Campaign!Phases
<1>3. /\ Campaign!NextPhase["evaluation"] = "stop" /\ Campaign!NextPhase["stop"] = "reclamation"
      /\ Campaign!NextPhase["reclamation"] = "resource"
  BY DEF Campaign!NextPhase, Campaign!Phases
<1>4. /\ Campaign!NextPhase["resource"] = "bundle" /\ Campaign!NextPhase["bundle"] = "multimodel"
      /\ Campaign!NextPhase["multimodel"] = "finalize"
  BY DEF Campaign!NextPhase, Campaign!Phases
<1> QED
  BY <1>1, <1>2, <1>3, <1>4

\* The step after a phase.
LEMMA StepAfter ==
  ASSUME CampaignTyped, NEW p, p \in Campaign!Phases, NEW s, Campaign!Record(p, s)
  PROVE  /\ step' = <<step[1], Campaign!NextPhase[p]>>
         /\ \/ p = "backend" /\ step'[2] = "preflight"
            \/ p = "preflight" /\ step'[2] = "primary"
            \/ p = "primary" /\ step'[2] = "secondary"
            \/ p = "secondary" /\ step'[2] = "start"
            \/ p = "start" /\ step'[2] = "thinking"
            \/ p = "thinking" /\ step'[2] = "evaluation"
            \/ p = "evaluation" /\ step'[2] = "stop"
            \/ p = "stop" /\ step'[2] = "reclamation"
            \/ p = "reclamation" /\ step'[2] = "resource"
            \/ p = "resource" /\ step'[2] = "bundle"
            \/ p = "bundle" /\ step'[2] = "multimodel"
            \/ p = "multimodel" /\ step'[2] = "finalize"
         /\ step'[1] = step[1] /\ step' = <<step'[1], step'[2]>>
         /\ phases' = [q \in Campaign!Phases |-> phases'[q]] /\ phases'[p] = s
         /\ \A q \in Campaign!Phases : q # p => phases'[q] = phases[q]
<1>1. step' = <<step[1], Campaign!NextPhase[p]>> /\ phases' = [phases EXCEPT ![p] = s]
  BY DEF Campaign!Record
<1>2. PICK n : n = Campaign!NextPhase[p]
  OBVIOUS
<1>3. step'[1] = step[1] /\ step'[2] = n /\ step' = <<step'[1], step'[2]>>
  BY <1>1, <1>2
<1>4. \/ p = "backend" \/ p = "preflight" \/ p = "primary" \/ p = "secondary"
      \/ p = "start" \/ p = "thinking" \/ p = "evaluation" \/ p = "stop"
      \/ p = "reclamation" \/ p = "resource" \/ p = "bundle" \/ p = "multimodel"
  BY DEF Campaign!Phases
<1>5. /\ phases' = [q \in Campaign!Phases |-> phases'[q]] /\ phases'[p] = s
      /\ \A q \in Campaign!Phases : q # p => phases'[q] = phases[q]
  BY <1>1 DEF CampaignTyped
<1> QED
  BY <1>1, <1>2, <1>3, <1>4, <1>5, OrderOfPhases

\* A fault is counted.
LEMMA FaultOfCampaign ==
  ASSUME CampaignTyped, Campaign!Fault \/ UNCHANGED tally
  PROVE  /\ tally' \in TallyRecords /\ tally'.campaigns = tally.campaigns
         /\ tally'.workers = tally.workers /\ tally'.interrupts = tally.interrupts
         /\ tally'.faults >= tally.faults /\ (Campaign!Fault => tally'.faults >= 1)
<1>1. tally \in TallyRecords
  BY DEF CampaignTyped
<1>2. CASE Campaign!Fault
  <2>1. PICK f : f = tally.faults + 1
    OBVIOUS
  <2>2. tally.faults \in Nat
    BY <1>1 DEF TallyRecords
  <2>3. f \in Nat /\ f >= 1 /\ f >= tally.faults
    BY <2>1, <2>2
  <2>4. tally' = [tally EXCEPT !.faults = f]
    BY <1>1, <1>2, <2>1 DEF Campaign!Fault
  <2> QED
    BY <1>1, <2>3, <2>4 DEF TallyRecords
<1>3. CASE ~Campaign!Fault
  BY <1>1, <1>3 DEF TallyRecords
<1> QED
  BY <1>2, <1>3

\* A phase that is recorded leaves those before it as they are.
LEMMA PhasesStayDone ==
  ASSUME CampaignInv, NEW p, p \in Campaign!Phases, NEW s, Campaign!Record(p, s), step[2] = p,
         tally'.campaigns = tally.campaigns,
         verdict'.minimum => p \in {"bundle", "multimodel"},
         p # "thinking" => dir'["thinking"] = dir["thinking"],
         p # "evaluation" => dir'["evaluation"] = dir["evaluation"],
         p # "resource" => dir'["resource"] = dir["resource"],
         p # "reclamation" => \A e \in Reclamations \cup {"review"} : dir'[e] = dir[e],
         p = "primary" => s = "PASS",
         p = "secondary" /\ step[1] = "full" => s = "PASS",
         p = "start" => s \in {"PASS", "FAIL"},
         p \in {"thinking", "evaluation"} =>
            OwnPhase(p)' \/ s = "FAIL" \/ phases["start"] = "FAIL",
         p = "reclamation" =>
            \/ \A e \in Reclamations \cup {"review"} : dir'[e].by = tally.campaigns
            \/ s \in {"FAIL", "INCONCLUSIVE"},
         p = "resource" => OwnPhase(p)' \/ s \in {"FAIL", "INCONCLUSIVE"}
  PROVE  PhasesAreDone'
<1>1. CampaignTyped /\ PhasesAreDone
  BY DEF CampaignInv
<1>2. /\ \/ p = "backend" /\ step'[2] = "preflight"
         \/ p = "preflight" /\ step'[2] = "primary"
         \/ p = "primary" /\ step'[2] = "secondary"
         \/ p = "secondary" /\ step'[2] = "start"
         \/ p = "start" /\ step'[2] = "thinking"
         \/ p = "thinking" /\ step'[2] = "evaluation"
         \/ p = "evaluation" /\ step'[2] = "stop"
         \/ p = "stop" /\ step'[2] = "reclamation"
         \/ p = "reclamation" /\ step'[2] = "resource"
         \/ p = "resource" /\ step'[2] = "bundle"
         \/ p = "bundle" /\ step'[2] = "multimodel"
         \/ p = "multimodel" /\ step'[2] = "finalize"
      /\ step'[1] = step[1] /\ phases'[p] = s
      /\ \A q \in Campaign!Phases : q # p => phases'[q] = phases[q]
  BY <1>1, StepAfter
<1>3. {"primary", "secondary", "start", "thinking", "evaluation", "reclamation", "resource"}
        \subseteq Campaign!Phases
  BY DEF Campaign!Phases
<1> USE DEF Passed, AfterPrimary, AfterSecondary, AfterStart, AfterThinking, AfterEvaluation,
            AfterReclamation, AfterResource
<1>4. (Passed(AfterPrimary) => phases["primary"] = "PASS")'
  BY <1>1, <1>2, <1>3 DEF PhasesAreDone
<1>5. (Passed(AfterSecondary) => (step[1] = "full" => phases["secondary"] = "PASS"))'
  BY <1>1, <1>2, <1>3 DEF PhasesAreDone
<1>6. (Passed(AfterStart) => phases["start"] \in {"PASS", "FAIL"})'
  BY <1>1, <1>2, <1>3 DEF PhasesAreDone
<1>7. (Passed(AfterThinking) =>
         OwnPhase("thinking") \/ phases["thinking"] = "FAIL" \/ phases["start"] = "FAIL")'
  <2>1. CASE p = "thinking"
    BY <1>2, <1>3, <2>1
  <2>2. CASE p # "thinking"
    BY <1>1, <1>2, <1>3, <2>2 DEF PhasesAreDone, OwnPhase
  <2> QED
    BY <2>1, <2>2
<1>8. (Passed(AfterEvaluation) =>
         OwnPhase("evaluation") \/ phases["evaluation"] = "FAIL" \/ phases["start"] = "FAIL")'
  <2>1. CASE p = "evaluation"
    BY <1>2, <1>3, <2>1
  <2>2. CASE p # "evaluation"
    BY <1>1, <1>2, <1>3, <2>2 DEF PhasesAreDone, OwnPhase
  <2> QED
    BY <2>1, <2>2
<1>9. (Passed(AfterReclamation) =>
         \/ \A e \in Reclamations \cup {"review"} : dir[e].by = tally.campaigns
         \/ phases["reclamation"] \in {"FAIL", "INCONCLUSIVE"})'
  <2>1. CASE p = "reclamation"
    BY <1>2, <1>3, <2>1
  <2>2. CASE p # "reclamation"
    BY <1>1, <1>2, <1>3, <2>2 DEF PhasesAreDone
  <2> QED
    BY <2>1, <2>2
<1>10. (Passed(AfterResource) =>
          OwnPhase("resource") \/ phases["resource"] \in {"FAIL", "INCONCLUSIVE"})'
  <2>1. CASE p = "resource"
    BY <1>2, <1>3, <2>1
  <2>2. CASE p # "resource"
    BY <1>1, <1>2, <1>3, <2>2 DEF PhasesAreDone, OwnPhase
  <2> QED
    BY <2>1, <2>2
<1> QED
  BY <1>4, <1>5, <1>6, <1>7, <1>8, <1>9, <1>10 DEF PhasesAreDone

\* While the evidence is gathered there is no verdict.
LEMMA NoVerdictBefore ==
  ASSUME CampaignInv, exit = "none", exit' = "none", step[2] \notin {"multimodel", "finalize"},
         UNCHANGED verdict
  PROVE  VerdictIsKept' /\ ~verdict'.minimum
<1>1. ~verdict.minimum /\ ~verdict.rrg5
  BY DEF CampaignInv, VerdictIsKept
<1> QED
  BY <1>1 DEF VerdictIsKept

\* A phase that does not concern the server leaves it as it is.
LEMMA ServerStays ==
  ASSUME CampaignInv, NEW p, p \in Campaign!Phases, p \notin {"start", "stop"}, NEW s,
         Campaign!Record(p, s), step[2] = p, exit' = "none", UNCHANGED server
  PROVE  ServerIsWatched'
<1>1. CampaignTyped /\ ServerIsWatched
  BY DEF CampaignInv
<1>2. /\ \/ p = "backend" /\ step'[2] = "preflight"
         \/ p = "preflight" /\ step'[2] = "primary"
         \/ p = "primary" /\ step'[2] = "secondary"
         \/ p = "secondary" /\ step'[2] = "start"
         \/ p = "thinking" /\ step'[2] = "evaluation"
         \/ p = "evaluation" /\ step'[2] = "stop"
         \/ p = "reclamation" /\ step'[2] = "resource"
         \/ p = "resource" /\ step'[2] = "bundle"
         \/ p = "bundle" /\ step'[2] = "multimodel"
         \/ p = "multimodel" /\ step'[2] = "finalize"
      /\ phases'["stop"] = phases["stop"]
  <2>1. "stop" \in Campaign!Phases
    BY DEF Campaign!Phases
  <2> QED
    BY <1>1, <2>1, StepAfter
<1>3. (Campaign!Unattended)' = Campaign!Unattended
  BY DEF Campaign!Unattended
<1> QED
  BY <1>1, <1>2, <1>3 DEF ServerIsWatched

\* A phase other than the reclamation leaves its reports, and its workers.
LEMMA WorkersStay ==
  ASSUME CampaignInv, NEW p, p \in Campaign!Phases, p # "reclamation", NEW s,
         Campaign!Record(p, s), step[2] = p, draft'.errors \in {0, draft.errors},
         tally'.campaigns = tally.campaigns, tally'.workers = tally.workers,
         \A e \in Reclamations : dir'[e] = dir[e]
  PROVE  WorkersAreCounted'
<1>1. CampaignTyped /\ WorkersAreCounted
  BY DEF CampaignInv
<1>2. /\ \/ p = "backend" /\ step'[2] = "preflight"
         \/ p = "preflight" /\ step'[2] = "primary"
         \/ p = "primary" /\ step'[2] = "secondary"
         \/ p = "secondary" /\ step'[2] = "start"
         \/ p = "start" /\ step'[2] = "thinking"
         \/ p = "thinking" /\ step'[2] = "evaluation"
         \/ p = "evaluation" /\ step'[2] = "stop"
         \/ p = "stop" /\ step'[2] = "reclamation"
         \/ p = "resource" /\ step'[2] = "bundle"
         \/ p = "bundle" /\ step'[2] = "multimodel"
         \/ p = "multimodel" /\ step'[2] = "finalize"
      /\ phases'["reclamation"] = phases["reclamation"]
  <2>1. "reclamation" \in Campaign!Phases
    BY DEF Campaign!Phases
  <2> QED
    BY <1>1, <2>1, StepAfter
<1>3. draft.errors = 0 /\ draft'.errors = 0
  BY <1>1, <1>2 DEF WorkersAreCounted
<1> USE DEF AfterReclamation, AfterResource, Reclamations
<1>4. (phases["reclamation"] = "FAIL" => step[2] \in AfterReclamation \cup {"finalize"})'
  BY <1>1, <1>2 DEF WorkersAreCounted
<1>5. (dir["reclamation b"].by = tally.campaigns /\ tally.campaigns > 0 =>
         step[2] \in AfterReclamation \cup {"finalize"} /\ phases["reclamation"] # "FAIL")'
  BY <1>1, <1>2 DEF WorkersAreCounted
<1>6. (tally.workers > 0 =>
         \/ draft.errors > 0 \/ phases["reclamation"] = "FAIL"
         \/ \E e \in Reclamations : dir[e].by = tally.campaigns /\ dir[e].report.errors > 0)'
  BY <1>1, <1>2, <1>3 DEF WorkersAreCounted
<1> QED
  BY <1>3, <1>4, <1>5, <1>6 DEF WorkersAreCounted

\* The directory with another report of this campaign.
LEMMA WrittenIsOwn ==
  ASSUME CampaignTyped, NEW e \in Campaign!Evidence, NEW w, w.by = tally.campaigns,
         dir' = [dir EXCEPT ![e] = w], tally'.campaigns = tally.campaigns,
         e \in Reclamations => w.report.errors \in Nat
  PROVE  /\ DirectoryTyped' /\ dir'[e] = w
         /\ \A d \in Campaign!Evidence : d # e => dir'[d] = dir[d]
<1>1. DirectoryTyped /\ tally.campaigns \in Nat
  BY DEF CampaignTyped, TallyRecords
<1>2. /\ dir' = [d \in Campaign!Evidence |-> dir'[d]] /\ dir'[e] = w
      /\ \A d \in Campaign!Evidence : d # e => dir'[d] = dir[d]
  BY <1>1 DEF DirectoryTyped
<1>3. \A d \in Campaign!Evidence : dir'[d].by \in Nat /\ dir'[d].by <= tally'.campaigns
  BY <1>1, <1>2 DEF DirectoryTyped
<1>4. Reclamations \subseteq Campaign!Evidence
  BY DEF Reclamations, Campaign!Evidence
<1>5. \A d \in Reclamations : dir'[d].by # 0 => dir'[d].report.errors \in Nat
  BY <1>1, <1>2, <1>4 DEF DirectoryTyped
<1> QED
  BY <1>2, <1>3, <1>5 DEF DirectoryTyped

\* A directory that stays as it is.
LEMMA DirectoryStays ==
  ASSUME CampaignTyped, UNCHANGED dir, tally'.campaigns = tally.campaigns
  PROVE  DirectoryTyped'
BY DEF CampaignTyped, DirectoryTyped

\* The other variables after a phase.
LEMMA TypedAfter ==
  ASSUME CampaignInv, NEW p, p \in Campaign!Phases, NEW s, Campaign!Record(p, s),
         verdict' \in [minimum : BOOLEAN, rrg5 : BOOLEAN], draft' \in DraftRecords,
         tally' \in TallyRecords, tally'.campaigns = tally.campaigns, exit = "none",
         DirectoryTyped'
  PROVE  CampaignTyped' /\ (exit = "none" => tally.campaigns > 0)'
<1>1. CampaignTyped /\ tally.campaigns > 0
  BY DEF CampaignInv
<1>2. step' = <<step'[1], step'[2]>> /\ phases' = [q \in Campaign!Phases |-> phases'[q]]
  BY <1>1, StepAfter
<1>3. step'[2] \in Campaign!Phases \cup {"finalize", "leave 1", "leave 130"}
  BY <1>1, StepAfter DEF Campaign!Phases
<1> QED
  BY <1>1, <1>2, <1>3 DEF CampaignTyped

\* What has to hold before anything is started.
LEMMA PrepareIsTrue ==
  ASSUME CampaignInv, NEW p \in {"backend", "preflight", "primary", "secondary"},
         Campaign!Prepare(p)
  PROVE  CampaignInv'
<1>1. /\ CampaignTyped /\ exit = "none" /\ exit' = "none" /\ step[2] = p /\ p \in Campaign!Phases
      /\ UNCHANGED <<verdict, dir, server, draft>> /\ (Campaign!Fault \/ UNCHANGED tally)
  BY DEF CampaignInv, Campaign!Prepare, Campaign!At, Campaign!Running, Campaign!Phases
<1>2. /\ tally' \in TallyRecords /\ tally'.campaigns = tally.campaigns
      /\ tally'.workers = tally.workers
  BY <1>1, FaultOfCampaign
<1>3. VerdictIsKept' /\ ~verdict'.minimum
  BY <1>1, NoVerdictBefore
<1>4. DirectoryTyped' /\ verdict \in [minimum : BOOLEAN, rrg5 : BOOLEAN] /\ draft \in DraftRecords
  BY <1>1, <1>2, DirectoryStays DEF CampaignTyped
<1>5. ASSUME NEW s, Campaign!Record(p, s), p = "primary" => s = "PASS",
             p = "secondary" /\ step[1] = "full" => s = "PASS"
      PROVE  CampaignInv'
  <2>1. PhasesAreDone'
    BY <1>1, <1>2, <1>3, <1>5, PhasesStayDone
  <2>2. ServerIsWatched'
    BY <1>1, <1>5, ServerStays
  <2>3. WorkersAreCounted'
    BY <1>1, <1>2, <1>5, WorkersStay
  <2>4. CampaignTyped' /\ (exit = "none" => tally.campaigns > 0)'
    BY <1>1, <1>2, <1>4, <1>5, TypedAfter
  <2> QED
    BY <1>3, <2>1, <2>2, <2>3, <2>4 DEF CampaignInv
<1>6. CASE phases' = [phases EXCEPT ![p] = "INCONCLUSIVE"] /\ step' = <<step[1], "finalize">>
  <2>1. /\ phases' = [q \in Campaign!Phases |-> phases'[q]]
        /\ phases'["reclamation"] = phases["reclamation"]
    BY <1>1, <1>6 DEF CampaignTyped, Campaign!Phases
  <2>2. CampaignTyped' /\ (exit = "none" => tally.campaigns > 0)'
    BY <1>1, <1>2, <1>4, <1>6, <2>1 DEF CampaignInv, CampaignTyped
  <2>3. PhasesAreDone'
    BY <1>3, <1>6 DEF PhasesAreDone, Passed, AfterPrimary, AfterSecondary, AfterStart,
                      AfterThinking, AfterEvaluation, AfterReclamation, AfterResource
  <2>4. ServerIsWatched'
    BY <1>1, <1>6 DEF CampaignInv, ServerIsWatched, Campaign!Unattended
  <2>5. WorkersAreCounted'
    BY <1>1, <1>2, <1>6, <2>1
    DEF CampaignInv, WorkersAreCounted, AfterReclamation, AfterResource, Reclamations
  <2> QED
    BY <1>3, <2>2, <2>3, <2>4, <2>5 DEF CampaignInv
<1>7. CASE Campaign!Record(p, "SKIPPED") /\ p = "secondary" /\ step[1] = "minimum"
  BY <1>5, <1>7
<1>8. CASE Campaign!Record(p, "PASS")
  BY <1>5, <1>8
<1> QED
  BY <1>6, <1>7, <1>8 DEF Campaign!Prepare

\* A phase that gathers one piece of evidence passes with it, or says that it has not.
LEMMA EvidenceIsGathered ==
  ASSUME CampaignInv, NEW p \in {"thinking", "evaluation", "resource"}, NEW s,
         Campaign!Record(p, s), step[2] = p, exit = "none", exit' = "none",
         UNCHANGED <<verdict, server>>, draft' = draft \/ draft' = Campaign!NoDraft,
         Campaign!Fault \/ UNCHANGED tally,
         \/ UNCHANGED dir
            /\ (s = "FAIL" \/ (p # "resource" /\ phases["start"] = "FAIL")
                \/ (p = "resource" /\ s = "INCONCLUSIVE"))
         \/ \E r : /\ dir' = [dir EXCEPT ![p] = Campaign!Written(r)]
                   /\ s \in {"PASS", "FAIL"}
  PROVE  CampaignInv'
<1>1. CampaignTyped /\ p \in Campaign!Phases /\ p \in Campaign!Evidence /\ p \notin Reclamations
      /\ Reclamations \cup {"review", "thinking", "evaluation", "resource"} \subseteq Campaign!Evidence
  BY DEF CampaignInv, Campaign!Phases, Campaign!Evidence, Reclamations
<1>2. /\ tally' \in TallyRecords /\ tally'.campaigns = tally.campaigns
      /\ tally'.workers = tally.workers
  BY <1>1, FaultOfCampaign
<1>3. VerdictIsKept' /\ ~verdict'.minimum
  BY NoVerdictBefore
<1>4. verdict' \in [minimum : BOOLEAN, rrg5 : BOOLEAN] /\ draft' \in DraftRecords
      /\ draft'.errors \in {0, draft.errors}
  <2>1. verdict \in [minimum : BOOLEAN, rrg5 : BOOLEAN] /\ draft \in DraftRecords
    BY <1>1 DEF CampaignTyped
  <2>2. PICK no : no = Campaign!NoDraft
    OBVIOUS
  <2>3. no \in DraftRecords /\ no.errors = 0
    BY <2>2 DEF DraftRecords, Campaign!NoDraft
  <2>4. draft' = draft \/ draft' = no
    BY <2>2
  <2> QED
    BY <2>1, <2>3, <2>4
<1>5. /\ DirectoryTyped' /\ \A d \in Campaign!Evidence : d # p => dir'[d] = dir[d]
      /\ \/ s = "PASS" /\ dir'[p].by = tally'.campaigns
         \/ s = "FAIL" \/ (p # "resource" /\ phases["start"] = "FAIL")
         \/ (p = "resource" /\ s = "INCONCLUSIVE")
  <2>1. CASE /\ UNCHANGED dir
             /\ (s = "FAIL" \/ (p # "resource" /\ phases["start"] = "FAIL")
                 \/ (p = "resource" /\ s = "INCONCLUSIVE"))
    BY <1>1, <1>2, <2>1, DirectoryStays
  <2>2. CASE \E r : /\ dir' = [dir EXCEPT ![p] = Campaign!Written(r)] /\ s \in {"PASS", "FAIL"}
    <3>1. PICK r : dir' = [dir EXCEPT ![p] = Campaign!Written(r)] /\ s \in {"PASS", "FAIL"}
      BY <2>2
    <3>2. PICK w : w = Campaign!Written(r)
      OBVIOUS
    <3>3. w.by = tally.campaigns
      BY <3>2 DEF Campaign!Written
    <3>4. dir' = [dir EXCEPT ![p] = w]
      BY <3>1, <3>2
    <3>5. /\ DirectoryTyped' /\ dir'[p] = w
          /\ \A d \in Campaign!Evidence : d # p => dir'[d] = dir[d]
      BY <1>1, <1>2, <3>3, <3>4, WrittenIsOwn
    <3> QED
      BY <1>2, <3>1, <3>3, <3>5
  <2> QED
    BY <2>1, <2>2
<1>6. /\ phases'[p] = s
  BY <1>1, StepAfter
<1>7. PhasesAreDone'
  <2>1. p \in {"thinking", "evaluation"} => OwnPhase(p)' \/ s = "FAIL" \/ phases["start"] = "FAIL"
    BY <1>5, <1>6 DEF OwnPhase
  <2>2. p = "resource" => OwnPhase(p)' \/ s \in {"FAIL", "INCONCLUSIVE"}
    BY <1>5, <1>6 DEF OwnPhase
  <2>3. /\ p # "thinking" => dir'["thinking"] = dir["thinking"]
        /\ p # "evaluation" => dir'["evaluation"] = dir["evaluation"]
        /\ p # "resource" => dir'["resource"] = dir["resource"]
        /\ p # "reclamation" => \A e \in Reclamations \cup {"review"} : dir'[e] = dir[e]
    BY <1>1, <1>5 DEF Reclamations
  <2> QED
    BY <1>1, <1>2, <1>3, <2>1, <2>2, <2>3, PhasesStayDone
<1>8. ServerIsWatched'
  BY <1>1, ServerStays
<1>9. WorkersAreCounted'
  <2>1. \A e \in Reclamations : dir'[e] = dir[e]
    BY <1>1, <1>5
  <2> QED
    BY <1>1, <1>2, <1>4, <2>1, WorkersStay
<1>10. CampaignTyped' /\ (exit = "none" => tally.campaigns > 0)'
  BY <1>1, <1>2, <1>4, <1>5, TypedAfter
<1> QED
  BY <1>3, <1>7, <1>8, <1>9, <1>10 DEF CampaignInv

\* The server is asked, or is not there.
LEMMA AskingIsTrue ==
  ASSUME CampaignInv, NEW p \in {"thinking", "evaluation"},
         \/ p = "thinking" /\ Campaign!Thinking
         \/ p = "evaluation" /\ Campaign!Evaluation
         \/ Campaign!Skip(p) \/ Campaign!Unreachable(p)
  PROVE  CampaignInv'
<1>1. CampaignTyped /\ PhasesAreDone
  BY DEF CampaignInv
<1>2. ASSUME Campaign!Skip(p) PROVE CampaignInv'
  <2>1. /\ step[2] = p /\ exit = "none" /\ exit' = "none" /\ phases["start"] # "PASS"
        /\ Campaign!Record(p, "SKIPPED") /\ UNCHANGED <<verdict, dir, server, draft, tally>>
    BY <1>2 DEF Campaign!Skip, Campaign!At, Campaign!Running
  <2>2. phases["start"] = "FAIL"
    BY <1>1, <2>1 DEF PhasesAreDone, Passed, AfterStart, AfterThinking
  <2> QED
    BY <2>1, <2>2, EvidenceIsGathered
<1>3. ASSUME NEW r, NEW s, Campaign!Asks(p, r, s), Campaign!Fault \/ UNCHANGED tally,
             s = "FAIL" \/ (s = "PASS" /\ r # "missing")
      PROVE  CampaignInv'
  <2>1. /\ step[2] = p /\ exit = "none" /\ exit' = "none"
        /\ Campaign!Record(p, s) /\ UNCHANGED <<verdict, server, draft>>
        /\ IF r = "missing" THEN UNCHANGED dir ELSE dir' = [dir EXCEPT ![p] = Campaign!Written(r)]
    BY <1>3 DEF Campaign!Asks, Campaign!At, Campaign!Running
  <2>2. CASE r = "missing"
    BY <1>3, <2>1, <2>2, EvidenceIsGathered
  <2>3. CASE r # "missing"
    <3>1. s \in {"PASS", "FAIL"} /\ dir' = [dir EXCEPT ![p] = Campaign!Written(r)]
      BY <1>3, <2>1, <2>3
    <3> QED
      BY <1>3, <2>1, <3>1, EvidenceIsGathered
  <2> QED
    BY <2>2, <2>3
<1>4. ASSUME Campaign!Unreachable(p) PROVE CampaignInv'
  BY <1>3, <1>4 DEF Campaign!Unreachable
<1>5. ASSUME p = "thinking", Campaign!Thinking PROVE CampaignInv'
  <2>1. \/ Campaign!Asks(p, "good", "PASS") /\ UNCHANGED tally
        \/ Campaign!Fault /\ \E r : Campaign!Asks(p, r, "FAIL")
    BY <1>5 DEF Campaign!Thinking
  <2> QED
    BY <1>3, <2>1
<1>6. ASSUME p = "evaluation", Campaign!Evaluation PROVE CampaignInv'
  <2>1. \/ Campaign!Asks(p, "good", "PASS") /\ (Campaign!Fault \/ UNCHANGED tally)
        \/ Campaign!Asks(p, "reasoning", "PASS") /\ Campaign!Fault
        \/ Campaign!Fault /\ \E r : Campaign!Asks(p, r, "FAIL")
    BY <1>6 DEF Campaign!Evaluation
  <2> QED
    BY <1>3, <2>1
<1> QED
  BY <1>2, <1>4, <1>5, <1>6

\* The smoke of the resource policy.
LEMMA ResourceIsTrue ==
  ASSUME CampaignInv, Campaign!Resource \/ Campaign!Raises("resource") PROVE CampaignInv'
<1>1. /\ step[2] = "resource" /\ exit = "none" /\ exit' = "none" /\ UNCHANGED <<verdict, server>>
      /\ draft' = draft \/ draft' = Campaign!NoDraft
      /\ Campaign!Fault \/ UNCHANGED tally
  BY DEF Campaign!Resource, Campaign!Raises, Campaign!At, Campaign!Running
<1>2. \/ /\ Campaign!Record("resource", "PASS")
         /\ dir' = [dir EXCEPT !["resource"] = Campaign!Written("good")]
      \/ /\ UNCHANGED dir
         /\ \/ Campaign!Record("resource", "INCONCLUSIVE")
            \/ Campaign!Record("resource", "FAIL")
  BY DEF Campaign!Resource, Campaign!Raises
<1> QED
  BY <1>1, <1>2, EvidenceIsGathered

\* The server is started, or may be left starting.
LEMMA StartIsTrue ==
  ASSUME CampaignInv, Campaign!Start PROVE CampaignInv'
<1>1. /\ CampaignTyped /\ step[2] = "start" /\ exit = "none" /\ exit' = "none"
      /\ UNCHANGED <<verdict, dir, draft>> /\ (Campaign!Fault \/ UNCHANGED tally)
      /\ "start" \in Campaign!Phases
  BY DEF CampaignInv, Campaign!Start, Campaign!At, Campaign!Running, Campaign!Phases
<1>2. PICK s \in {"PASS", "FAIL"} : Campaign!Record("start", s)
  BY DEF Campaign!Start
<1>3. /\ tally' \in TallyRecords /\ tally'.campaigns = tally.campaigns
      /\ tally'.workers = tally.workers
  BY <1>1, FaultOfCampaign
<1>4. VerdictIsKept' /\ ~verdict'.minimum
  BY <1>1, NoVerdictBefore
<1>5. DirectoryTyped' /\ verdict' \in [minimum : BOOLEAN, rrg5 : BOOLEAN] /\ draft' \in DraftRecords
  BY <1>1, <1>3, DirectoryStays DEF CampaignTyped
<1>6. PhasesAreDone'
  BY <1>1, <1>2, <1>3, <1>4, PhasesStayDone
<1>7. WorkersAreCounted'
  BY <1>1, <1>2, <1>3, WorkersStay
<1>8. CampaignTyped' /\ (exit = "none" => tally.campaigns > 0)'
  BY <1>1, <1>2, <1>3, <1>5, TypedAfter
<1>9. step'[2] = "thinking"
  BY <1>1, <1>2, StepAfter
<1>10. ServerIsWatched'
  BY <1>1, <1>9 DEF ServerIsWatched
<1> QED
  BY <1>4, <1>6, <1>7, <1>8, <1>10 DEF CampaignInv

\* The server is stopped, or the phase says that it has not been.
LEMMA StopIsTrue ==
  ASSUME CampaignInv, Campaign!Stop PROVE CampaignInv'
<1>1. /\ CampaignTyped /\ step[2] = "stop" /\ exit = "none" /\ exit' = "none"
      /\ UNCHANGED <<verdict, dir, draft>> /\ (Campaign!Fault \/ UNCHANGED tally)
      /\ "stop" \in Campaign!Phases
  BY DEF CampaignInv, Campaign!Stop, Campaign!StopServer, Campaign!At, Campaign!Running, Campaign!Phases
<1>2. PICK s \in {"PASS", "FAIL"} :
        Campaign!Record("stop", s) /\ (server' \in {"none", "gone"} \/ s = "FAIL")
  BY OrderOfPhases DEF Campaign!Stop, Campaign!StopServer, Campaign!Record
<1>3. /\ tally' \in TallyRecords /\ tally'.campaigns = tally.campaigns
      /\ tally'.workers = tally.workers
  BY <1>1, FaultOfCampaign
<1>4. VerdictIsKept' /\ ~verdict'.minimum
  BY <1>1, NoVerdictBefore
<1>5. DirectoryTyped' /\ verdict' \in [minimum : BOOLEAN, rrg5 : BOOLEAN] /\ draft' \in DraftRecords
  BY <1>1, <1>3, DirectoryStays DEF CampaignTyped
<1>6. PhasesAreDone'
  BY <1>1, <1>2, <1>3, <1>4, PhasesStayDone
<1>7. WorkersAreCounted'
  BY <1>1, <1>2, <1>3, WorkersStay
<1>8. CampaignTyped' /\ (exit = "none" => tally.campaigns > 0)'
  BY <1>1, <1>2, <1>3, <1>5, TypedAfter
<1>9. step'[2] = "reclamation" /\ phases'["stop"] = s
  BY <1>1, <1>2, StepAfter
<1>10. ServerIsWatched'
  BY <1>1, <1>2, <1>9 DEF ServerIsWatched, Campaign!Unattended
<1> QED
  BY <1>4, <1>6, <1>7, <1>8, <1>10 DEF CampaignInv

\* What no phase changes, and no verdict.
LEMMA NothingIsJudged ==
  ASSUME CampaignInv, UNCHANGED <<phases, verdict, dir, draft>>, step'[1] = step[1],
         step' = <<step'[1], step'[2]>>,
         \/ step'[2] = step[2]
         \/ step'[2] \in {"leave 1", "leave 130"}
            /\ step[2] \in {"start", "thinking", "evaluation", "stop", "reclamation"}
            /\ (step[2] = "reclamation" => step'[2] = "leave 1"),
         tally' \in TallyRecords, tally'.campaigns = tally.campaigns, tally'.workers = tally.workers,
         exit' \notin {"0", "2"}, exit = "none"
  PROVE  /\ CampaignTyped' /\ PhasesAreDone' /\ VerdictIsKept' /\ WorkersAreCounted'
         /\ (exit = "none" => tally.campaigns > 0)'
<1>1. CampaignTyped /\ PhasesAreDone /\ VerdictIsKept /\ WorkersAreCounted /\ tally.campaigns > 0
  BY DEF CampaignInv
<1>2. DirectoryTyped'
  BY <1>1, DirectoryStays
<1>3. step'[2] \in Campaign!Phases \cup {"finalize", "leave 1", "leave 130"}
  BY <1>1 DEF CampaignTyped
<1>4. CampaignTyped'
  BY <1>1, <1>2, <1>3 DEF CampaignTyped
<1>5. step'[2] # step[2] => ~verdict.minimum /\ ~verdict.rrg5
  BY <1>1 DEF VerdictIsKept
<1>6. PhasesAreDone'
  <2>1. CASE step'[2] = step[2]
    BY <1>1, <2>1 DEF PhasesAreDone, Passed, OwnPhase
  <2>2. CASE step'[2] # step[2]
    <3>1. ~verdict'.minimum /\ step'[2] \in {"leave 1", "leave 130"}
      BY <1>5, <2>2
    <3> QED
      BY <3>1 DEF PhasesAreDone, Passed, AfterPrimary, AfterSecondary, AfterStart,
                  AfterThinking, AfterEvaluation, AfterReclamation, AfterResource
  <2> QED
    BY <2>1, <2>2
<1>7. (Campaign!BundleComplete)' = Campaign!BundleComplete
  BY DEF Campaign!BundleComplete, Campaign!Accepted, Campaign!ReviewOf
<1>8. VerdictIsKept'
  <2>1. CASE step'[2] = step[2]
    BY <1>1, <1>7, <2>1 DEF VerdictIsKept
  <2>2. CASE step'[2] # step[2]
    BY <1>5, <2>2 DEF VerdictIsKept
  <2> QED
    BY <2>1, <2>2
<1>9. WorkersAreCounted'
  <2>1. CASE step'[2] = step[2]
    BY <1>1, <2>1 DEF WorkersAreCounted
  <2>2. CASE step'[2] # step[2]
    <3>1. /\ step'[2] \in {"leave 1", "leave 130"}
          /\ step[2] \in {"start", "thinking", "evaluation", "stop", "reclamation"}
          /\ (step[2] = "reclamation" => step'[2] = "leave 1")
      BY <2>2
    <3> QED
      BY <1>1, <3>1 DEF WorkersAreCounted, AfterReclamation, AfterResource
  <2> QED
    BY <2>1, <2>2
<1> QED
  BY <1>1, <1>4, <1>6, <1>8, <1>9

\* The server may exit at any time.
LEMMA CrashIsTrue ==
  ASSUME CampaignInv, Campaign!Crash PROVE CampaignInv'
<1>1. /\ CampaignTyped /\ exit = "none" /\ exit' = "none" /\ server' = "gone" /\ server = "ready"
      /\ UNCHANGED <<step, phases, verdict, dir, draft>> /\ Campaign!Fault
  BY DEF CampaignInv, Campaign!Crash, Campaign!Running
<1>2. /\ tally' \in TallyRecords /\ tally'.campaigns = tally.campaigns
      /\ tally'.workers = tally.workers /\ tally'.faults >= 1
      /\ tally'.interrupts = tally.interrupts
  BY <1>1, FaultOfCampaign
<1>3. step'[1] = step[1] /\ step' = <<step'[1], step'[2]>>
  BY <1>1 DEF CampaignTyped
<1>4. /\ CampaignTyped' /\ PhasesAreDone' /\ VerdictIsKept' /\ WorkersAreCounted'
      /\ (exit = "none" => tally.campaigns > 0)'
  BY <1>1, <1>2, <1>3, NothingIsJudged
<1>5. ServerIsWatched'
  BY <1>1, <1>2 DEF CampaignInv, ServerIsWatched, Campaign!Unattended
<1> QED
  BY <1>4, <1>5 DEF CampaignInv

\* The sum of interrupts and faults, where there are some of each.
LEMMA TwoOfTheTally ==
  ASSUME tally' \in TallyRecords, tally'.interrupts >= 1, tally'.faults >= 1
  PROVE  tally'.interrupts + tally'.faults >= 2
<1>1. PICK i \in Nat, f \in Nat : i = tally'.interrupts /\ f = tally'.faults
  BY DEF TallyRecords
<1>2. i >= 1 /\ f >= 1 => i + f >= 2
  OBVIOUS
<1> QED
  BY <1>1, <1>2

\* An interrupt is counted.
LEMMA InterruptIsCounted ==
  ASSUME CampaignTyped, tally' = [tally EXCEPT !.interrupts = @ + 1]
  PROVE  /\ tally' \in TallyRecords /\ tally'.campaigns = tally.campaigns
         /\ tally'.workers = tally.workers /\ tally'.faults = tally.faults
         /\ tally'.interrupts >= 1
         /\ tally.interrupts >= 1 => tally'.interrupts + tally'.faults >= 2
<1>1. tally \in TallyRecords
  BY DEF CampaignTyped
<1>2. PICK i \in Nat, f \in Nat : i = tally.interrupts /\ f = tally.faults
  BY <1>1 DEF TallyRecords
<1>3. i + 1 \in Nat /\ i + 1 >= 1 /\ (i >= 1 => (i + 1) + f >= 2)
  BY <1>2
<1>4. tally' = [tally EXCEPT !.interrupts = i + 1]
  BY <1>1, <1>2
<1>5. /\ tally' \in TallyRecords /\ tally'.campaigns = tally.campaigns
      /\ tally'.workers = tally.workers /\ tally'.faults = tally.faults
      /\ tally'.interrupts = i + 1
  BY <1>1, <1>3, <1>4 DEF TallyRecords
<1> QED
  BY <1>2, <1>3, <1>5

\* A campaign that is interrupted stops its server, or has nothing to stop.
LEMMA InterruptIsTrue ==
  ASSUME CampaignInv, Campaign!Interrupt PROVE CampaignInv'
<1>1. /\ CampaignTyped /\ ServerIsWatched /\ exit = "none"
      /\ tally' = [tally EXCEPT !.interrupts = @ + 1]
      /\ UNCHANGED <<phases, verdict, dir, server, draft>>
  BY DEF CampaignInv, Campaign!Interrupt, Campaign!Running
<1>2. /\ tally' \in TallyRecords /\ tally'.campaigns = tally.campaigns
      /\ tally'.workers = tally.workers /\ tally'.faults = tally.faults
      /\ tally'.interrupts >= 1
      /\ tally.interrupts >= 1 => tally'.interrupts + tally'.faults >= 2
  BY <1>1, InterruptIsCounted
<1>3. \/ step[2] \in {"leave 1", "leave 130"} /\ exit' = "130" /\ UNCHANGED step
      \/ /\ step[2] \in {"start", "thinking", "evaluation", "stop"}
         /\ step' = <<step[1], "leave 130">> /\ exit' = "none"
      \/ /\ step[2] \notin {"start", "thinking", "evaluation", "stop", "leave 1", "leave 130"}
         /\ exit' = "130" /\ UNCHANGED step
  BY <1>1 DEF Campaign!Interrupt, Campaign!Leave
<1>4. step'[1] = step[1] /\ step' = <<step'[1], step'[2]>>
  <2>1. CASE UNCHANGED step
    BY <1>1, <2>1 DEF CampaignTyped
  <2>2. CASE ~UNCHANGED step
    <3>1. PICK l : step' = <<step[1], l>>
      BY <1>3, <2>2
    <3> QED
      BY <3>1
  <2> QED
    BY <2>1, <2>2
<1>5. /\ CampaignTyped' /\ PhasesAreDone' /\ VerdictIsKept' /\ WorkersAreCounted'
      /\ (exit = "none" => tally.campaigns > 0)'
  <2>1. exit' \notin {"0", "2"}
    BY <1>3
  <2>2. \/ step'[2] = step[2]
        \/ step'[2] \in {"leave 1", "leave 130"}
           /\ step[2] \in {"start", "thinking", "evaluation", "stop", "reclamation"}
           /\ (step[2] = "reclamation" => step'[2] = "leave 1")
    <3>1. CASE UNCHANGED step
      BY <3>1
    <3>2. CASE ~UNCHANGED step
      <4>1. PICK l \in {"leave 1", "leave 130"} :
              /\ step' = <<step[1], l>>
              /\ step[2] \in {"start", "thinking", "evaluation", "stop", "reclamation"}
              /\ (step[2] = "reclamation" => l = "leave 1")
        BY <1>3, <3>2
      <4>2. step'[2] = l
        BY <4>1
      <4> QED
        BY <4>1, <4>2
    <3> QED
      BY <3>1, <3>2
  <2> QED
    BY <1>1, <1>2, <1>4, <2>1, <2>2, NothingIsJudged
<1>6. (Campaign!Unattended)' = Campaign!Unattended
  BY <1>1 DEF Campaign!Unattended
<1>7. ServerIsWatched'
  <2>1. CASE step[2] \in {"leave 1", "leave 130"} /\ exit' = "130" /\ UNCHANGED step
    <3>1. tally'.interrupts + tally'.faults >= 2
      BY <1>1, <1>2, <2>1, TwoOfTheTally DEF ServerIsWatched
    <3> QED
      BY <1>1, <1>2, <2>1, <3>1 DEF ServerIsWatched
  <2>2. CASE /\ step[2] \in {"start", "thinking", "evaluation", "stop"}
             /\ step' = <<step[1], "leave 130">> /\ exit' = "none"
    BY <1>2, <2>2 DEF ServerIsWatched
  <2>3. CASE /\ step[2] \notin {"start", "thinking", "evaluation", "stop", "leave 1", "leave 130"}
             /\ exit' = "130" /\ UNCHANGED step
    <3>1. step[2] \in {"backend", "preflight", "primary", "secondary", "reclamation", "resource",
                       "bundle", "multimodel", "finalize"}
      BY <1>1, <2>3 DEF CampaignTyped, Campaign!Phases
    <3>2. Campaign!Unattended => phases["stop"] = "FAIL"
      BY <1>1, <3>1 DEF ServerIsWatched, Campaign!Unattended
    <3> QED
      BY <1>1, <1>2, <1>6, <2>3, <3>2 DEF ServerIsWatched
  <2> QED
    BY <1>3, <2>1, <2>2, <2>3
<1> QED
  BY <1>5, <1>7 DEF CampaignInv

\* An interrupt while the server comes up.
LEMMA InterruptStartIsTrue ==
  ASSUME CampaignInv, Campaign!InterruptStart PROVE CampaignInv'
<1>1. /\ CampaignTyped /\ exit = "none" /\ step[2] = "start"
      /\ tally' = [tally EXCEPT !.interrupts = @ + 1]
      /\ UNCHANGED <<phases, verdict, dir, draft>>
      /\ step' = <<step[1], "leave 130">> /\ exit' = "none"
  BY DEF CampaignInv, Campaign!InterruptStart, Campaign!At, Campaign!Running, Campaign!Leave
<1>2. /\ tally' \in TallyRecords /\ tally'.campaigns = tally.campaigns
      /\ tally'.workers = tally.workers /\ tally'.interrupts >= 1
  BY <1>1, InterruptIsCounted
<1>3. /\ CampaignTyped' /\ PhasesAreDone' /\ VerdictIsKept' /\ WorkersAreCounted'
      /\ (exit = "none" => tally.campaigns > 0)'
  BY <1>1, <1>2, NothingIsJudged
<1>4. ServerIsWatched'
  BY <1>1, <1>2 DEF ServerIsWatched
<1> QED
  BY <1>3, <1>4 DEF CampaignInv

\* A summary that cannot be written ends the campaign, which stops its server.
LEMMA SummaryFailsIsTrue ==
  ASSUME CampaignInv, Campaign!SummaryFails PROVE CampaignInv'
<1>1. /\ CampaignTyped /\ ServerIsWatched /\ exit = "none" /\ Campaign!Fault
      /\ step[2] \in Campaign!Phases /\ UNCHANGED <<phases, verdict, dir, server, draft>>
  BY DEF CampaignInv, Campaign!SummaryFails, Campaign!Running
<1>2. /\ tally' \in TallyRecords /\ tally'.campaigns = tally.campaigns
      /\ tally'.workers = tally.workers /\ tally'.faults >= 1
  BY <1>1, FaultOfCampaign
<1>3. \/ /\ step[2] \in {"thinking", "evaluation", "stop", "reclamation"}
         /\ step' = <<step[1], "leave 1">> /\ exit' = "none"
      \/ /\ step[2] \notin {"thinking", "evaluation", "stop", "reclamation"}
         /\ exit' = "1" /\ UNCHANGED step
  BY <1>1 DEF Campaign!SummaryFails, Campaign!Leave
<1>4. step'[1] = step[1] /\ step' = <<step'[1], step'[2]>>
  <2>1. CASE UNCHANGED step
    BY <1>1, <2>1 DEF CampaignTyped
  <2>2. CASE ~UNCHANGED step
    <3>1. PICK l : step' = <<step[1], l>>
      BY <1>3, <2>2
    <3> QED
      BY <3>1
  <2> QED
    BY <2>1, <2>2
<1>5. /\ CampaignTyped' /\ PhasesAreDone' /\ VerdictIsKept' /\ WorkersAreCounted'
      /\ (exit = "none" => tally.campaigns > 0)'
  <2>1. exit' \notin {"0", "2"}
    BY <1>3
  <2>2. \/ step'[2] = step[2]
        \/ step'[2] \in {"leave 1", "leave 130"}
           /\ step[2] \in {"start", "thinking", "evaluation", "stop", "reclamation"}
           /\ (step[2] = "reclamation" => step'[2] = "leave 1")
    <3>1. CASE UNCHANGED step
      BY <3>1
    <3>2. CASE ~UNCHANGED step
      <4>1. PICK l \in {"leave 1", "leave 130"} :
              /\ step' = <<step[1], l>>
              /\ step[2] \in {"start", "thinking", "evaluation", "stop", "reclamation"}
              /\ (step[2] = "reclamation" => l = "leave 1")
        BY <1>3, <3>2
      <4>2. step'[2] = l
        BY <4>1
      <4> QED
        BY <4>1, <4>2
    <3> QED
      BY <3>1, <3>2
  <2> QED
    BY <1>1, <1>2, <1>4, <2>1, <2>2, NothingIsJudged
<1>6. (Campaign!Unattended)' = Campaign!Unattended
  BY <1>1 DEF Campaign!Unattended
<1>7. ServerIsWatched'
  <2>1. CASE /\ step[2] \in {"thinking", "evaluation", "stop", "reclamation"}
             /\ step' = <<step[1], "leave 1">> /\ exit' = "none"
    BY <1>2, <2>1 DEF ServerIsWatched
  <2>2. CASE /\ step[2] \notin {"thinking", "evaluation", "stop", "reclamation"}
             /\ exit' = "1" /\ UNCHANGED step
    <3>1. step[2] \in {"backend", "preflight", "primary", "secondary", "start", "resource",
                       "bundle", "multimodel"}
      BY <1>1, <2>2 DEF Campaign!Phases
    <3>2. Campaign!Unattended => phases["stop"] = "FAIL"
      BY <1>1, <3>1 DEF ServerIsWatched, Campaign!Unattended
    <3> QED
      BY <1>1, <1>6, <2>2, <3>1, <3>2 DEF ServerIsWatched
  <2> QED
    BY <1>3, <2>1, <2>2
<1> QED
  BY <1>5, <1>7 DEF CampaignInv

\* The `finally` stops the server, or the phase says that it has not been stopped.
LEMMA StopFinallyIsTrue ==
  ASSUME CampaignInv, Campaign!StopFinally PROVE CampaignInv'
<1>1. /\ CampaignTyped /\ PhasesAreDone /\ VerdictIsKept /\ ServerIsWatched /\ WorkersAreCounted
      /\ step[2] \in {"leave 1", "leave 130"} /\ exit = "none" /\ exit' \in {"1", "130"}
      /\ UNCHANGED <<step, verdict, dir, draft>> /\ (Campaign!Fault \/ UNCHANGED tally)
  BY DEF CampaignInv, Campaign!StopFinally, Campaign!StopServer, Campaign!Running
<1>2. /\ tally' \in TallyRecords /\ tally'.campaigns = tally.campaigns
      /\ tally'.workers = tally.workers /\ tally'.faults >= tally.faults
      /\ tally'.interrupts = tally.interrupts /\ tally.faults \in Nat /\ tally'.faults \in Nat
  BY <1>1, FaultOfCampaign DEF CampaignTyped, TallyRecords
<1>3. PICK s \in {"PASS", "FAIL"} :
        phases' = [phases EXCEPT !["stop"] = s] /\ (server' \in {"none", "gone"} \/ s = "FAIL")
  BY DEF Campaign!StopFinally, Campaign!StopServer
<1>4. /\ phases' = [p \in Campaign!Phases |-> phases'[p]] /\ phases'["stop"] = s
      /\ \A p \in Campaign!Phases : p # "stop" => phases'[p] = phases[p]
      /\ {"stop", "reclamation"} \subseteq Campaign!Phases
  BY <1>1, <1>3 DEF CampaignTyped, Campaign!Phases
<1>5. DirectoryTyped'
  BY <1>1, <1>2, DirectoryStays
<1>6. CampaignTyped'
  BY <1>1, <1>2, <1>4, <1>5 DEF CampaignTyped
<1>7. ~verdict.minimum /\ ~verdict.rrg5
  BY <1>1 DEF VerdictIsKept
<1>8. VerdictIsKept'
  BY <1>1, <1>7 DEF VerdictIsKept
<1>9. PhasesAreDone'
  BY <1>1, <1>7 DEF PhasesAreDone, Passed, AfterPrimary, AfterSecondary, AfterStart,
                    AfterThinking, AfterEvaluation, AfterReclamation, AfterResource
<1>10. ServerIsWatched'
  <2>1. step[2] = "leave 1" => tally'.faults >= 1
    <3>1. step[2] = "leave 1" => tally.faults >= 1
      BY <1>1 DEF ServerIsWatched
    <3>2. PICK f \in Nat, g \in Nat : f = tally.faults /\ g = tally'.faults
      BY <1>2
    <3>3. f >= 1 /\ g >= f => g >= 1
      OBVIOUS
    <3> QED
      BY <1>2, <3>1, <3>2, <3>3
  <2>2. step[2] = "leave 130" => tally'.interrupts >= 1
    BY <1>1, <1>2 DEF ServerIsWatched
  <2>3. (Campaign!Unattended)' => phases'["stop"] = "FAIL"
    BY <1>3, <1>4 DEF Campaign!Unattended
  <2> QED
    BY <1>1, <2>1, <2>2, <2>3 DEF ServerIsWatched
<1>11. WorkersAreCounted'
  <2>1. phases'["reclamation"] = phases["reclamation"]
    BY <1>4
  <2> QED
    BY <1>1, <1>2, <2>1 DEF WorkersAreCounted, AfterReclamation, AfterResource
<1> QED
  BY <1>1, <1>6, <1>8, <1>9, <1>10, <1>11 DEF CampaignInv

\* A worker that is left running is an error of the report that is made.
LEMMA CycleOfCampaignIsTrue ==
  ASSUME CampaignInv, Campaign!Cycle PROVE CampaignInv'
<1>1. /\ CampaignTyped /\ PhasesAreDone /\ VerdictIsKept /\ ServerIsWatched /\ WorkersAreCounted
      /\ step[2] = "reclamation" /\ exit = "none" /\ exit' = "none" /\ tally.campaigns > 0
      /\ UNCHANGED <<step, phases, verdict, dir, server>>
  BY DEF CampaignInv, Campaign!Cycle, Campaign!At, Campaign!Running
<1>2. PICK failing \in {"none", "start", "ready", "exercise", "stop"}, leftover \in BOOLEAN :
        /\ leftover => failing \in {"ready", "exercise", "stop"}
        /\ tally' = [tally EXCEPT !.faults = @ + (IF failing = "none" THEN 0 ELSE 1),
                                  !.workers = @ + (IF leftover THEN 1 ELSE 0)]
        /\ draft' = [windows |-> draft.windows + (IF failing \in {"start", "ready"} THEN 0 ELSE 1),
                     errors |-> draft.errors + (IF failing = "none" THEN 0 ELSE 1),
                     cycles |-> draft.cycles + 1]
  BY DEF Campaign!Cycle
<1>3. PICK f \in {0, 1}, w \in {0, 1}, d \in {0, 1} :
        /\ f = (IF failing = "none" THEN 0 ELSE 1) /\ w = (IF leftover THEN 1 ELSE 0)
        /\ d = (IF failing \in {"start", "ready"} THEN 0 ELSE 1)
  OBVIOUS
<1>4. w = 1 => f = 1
  BY <1>2, <1>3
<1>5. PICK fs \in Nat, ws \in Nat : fs = tally.faults /\ ws = tally.workers
  BY <1>1 DEF CampaignTyped, TallyRecords
<1>6. /\ tally' \in TallyRecords /\ tally'.campaigns = tally.campaigns
      /\ tally'.workers = ws + w /\ tally'.interrupts = tally.interrupts /\ tally'.faults = fs + f
  <2>1. PICK t : t = [tally EXCEPT !.faults = fs + f]
    OBVIOUS
  <2>2. /\ t \in TallyRecords /\ t.campaigns = tally.campaigns /\ t.workers = ws
        /\ t.interrupts = tally.interrupts /\ t.faults = fs + f
    BY <1>1, <1>5, <2>1 DEF CampaignTyped, TallyRecords
  <2>3. tally' = [t EXCEPT !.workers = ws + w]
    BY <1>1, <1>2, <1>3, <1>5, <2>1 DEF CampaignTyped, TallyRecords
  <2> QED
    BY <1>5, <2>2, <2>3 DEF TallyRecords
<1>7. draft' \in DraftRecords /\ draft'.errors = draft.errors + f /\ draft.errors \in Nat
  BY <1>1, <1>2, <1>3 DEF CampaignTyped, DraftRecords
<1>8. CampaignTyped'
  <2>1. DirectoryTyped'
    BY <1>1, <1>6, DirectoryStays
  <2> QED
    BY <1>1, <1>6, <1>7, <2>1 DEF CampaignTyped
<1>9. PhasesAreDone'
  BY <1>1, <1>6 DEF PhasesAreDone, Passed, OwnPhase
<1>10. VerdictIsKept'
  BY <1>1 DEF VerdictIsKept
<1>11. ServerIsWatched'
  BY <1>1 DEF ServerIsWatched, Campaign!Unattended
<1>12. WorkersAreCounted'
  <2>1. phases["reclamation"] # "FAIL" /\ dir["reclamation b"].by # tally.campaigns
    BY <1>1 DEF WorkersAreCounted, AfterReclamation, AfterResource
  <2>2. ASSUME tally'.workers > 0
        PROVE  \/ draft'.errors > 0
               \/ \E e \in Reclamations : dir[e].by = tally.campaigns /\ dir[e].report.errors > 0
    <3>1. CASE f = 1
      BY <1>7, <3>1
    <3>2. CASE f = 0
      <4>1. w = 0 /\ draft'.errors = draft.errors /\ tally'.workers = tally.workers
        BY <1>4, <1>5, <1>6, <1>7, <3>2
      <4> QED
        BY <1>1, <2>1, <2>2, <4>1 DEF WorkersAreCounted
    <3> QED
      BY <3>1, <3>2
  <2> QED
    BY <1>1, <1>6, <2>1, <2>2 DEF WorkersAreCounted
<1> QED
  BY <1>1, <1>6, <1>8, <1>9, <1>10, <1>11, <1>12 DEF CampaignInv

\* A report of workers is one of this campaign; with the second the phase is over.
LEMMA ReclaimedIsTrue ==
  ASSUME CampaignInv, Campaign!Reclaimed PROVE CampaignInv'
<1>1. /\ CampaignTyped /\ PhasesAreDone /\ VerdictIsKept /\ ServerIsWatched /\ WorkersAreCounted
      /\ step[2] = "reclamation" /\ exit = "none" /\ exit' = "none" /\ tally.campaigns > 0
      /\ UNCHANGED <<verdict, server, tally>> /\ draft' = Campaign!NoDraft
  BY DEF CampaignInv, Campaign!Reclaimed, Campaign!At, Campaign!Running
<1>2. PICK grade \in {"verified", "exploratory"} :
        LET report1 == [windows |-> draft.windows, errors |-> draft.errors, grade |-> grade]
            review == Campaign!ReviewOf(dir["reclamation a"].report, report1)
        IN IF Campaign!Current = "reclamation a"
           THEN dir' = [dir EXCEPT !["reclamation a"] = Campaign!Written(report1)]
                /\ UNCHANGED <<step, phases>>
           ELSE /\ dir' = [dir EXCEPT !["reclamation b"] = Campaign!Written(report1),
                                      !["review"] = Campaign!Written(review)]
                /\ Campaign!Record("reclamation", IF Campaign!Accepted(review) THEN "PASS" ELSE "INCONCLUSIVE")
  BY DEF Campaign!Reclaimed
<1>3. PICK report1, review, w, v :
        /\ report1 = [windows |-> draft.windows, errors |-> draft.errors, grade |-> grade]
        /\ review = Campaign!ReviewOf(dir["reclamation a"].report, report1)
        /\ w = Campaign!Written(report1) /\ v = Campaign!Written(review)
  OBVIOUS
<1>4. draft.errors \in Nat /\ report1.errors = draft.errors /\ tally.campaigns \in Nat
      /\ tally \in TallyRecords
  BY <1>1, <1>3 DEF CampaignTyped, DraftRecords, TallyRecords
<1>5. w.by = tally.campaigns /\ w.report = report1 /\ v.by = tally.campaigns
  BY <1>3 DEF Campaign!Written
<1>6. /\ {"reclamation a", "reclamation b", "review"} \subseteq Campaign!Evidence
      /\ Reclamations = {"reclamation a", "reclamation b"} /\ "reclamation" \in Campaign!Phases
  BY DEF Campaign!Evidence, Reclamations, Campaign!Phases
<1>7. PICK no : no = Campaign!NoDraft
  OBVIOUS
<1>8. no \in DraftRecords /\ no.errors = 0 /\ draft' = no
  BY <1>1, <1>7 DEF DraftRecords, Campaign!NoDraft
<1>9. /\ phases["reclamation"] # "FAIL" /\ dir["reclamation b"].by # tally.campaigns
      /\ tally.workers > 0 =>
           \/ draft.errors > 0
           \/ dir["reclamation a"].by = tally.campaigns /\ dir["reclamation a"].report.errors > 0
  BY <1>1, <1>6 DEF WorkersAreCounted, AfterReclamation, AfterResource
<1>10. VerdictIsKept' /\ ~verdict'.minimum
  BY <1>1, NoVerdictBefore
<1>11. CASE Campaign!Current = "reclamation a"
  <2>1. dir' = [dir EXCEPT !["reclamation a"] = w] /\ UNCHANGED <<step, phases>>
    BY <1>2, <1>3, <1>11
  <2>2. dir["reclamation a"].by # tally.campaigns
    BY <1>11 DEF Campaign!Current
  <2>3. /\ DirectoryTyped' /\ dir'["reclamation a"] = w
        /\ \A d \in Campaign!Evidence : d # "reclamation a" => dir'[d] = dir[d]
    BY <1>1, <1>4, <1>5, <1>6, <2>1, WrittenIsOwn
  <2>4. CampaignTyped'
    BY <1>1, <1>8, <2>1, <2>3 DEF CampaignTyped
  <2>5. {"thinking", "evaluation", "resource"} \subseteq Campaign!Evidence
    BY DEF Campaign!Evidence
  <2>6. PhasesAreDone'
    <3>1. /\ dir'["thinking"] = dir["thinking"] /\ dir'["evaluation"] = dir["evaluation"]
      BY <2>3, <2>5
    <3>2. ~Passed(AfterReclamation)' /\ ~Passed(AfterResource)'
      BY <1>1, <1>10, <2>1 DEF Passed, AfterReclamation, AfterResource
    <3> QED
      BY <1>1, <2>1, <3>1, <3>2 DEF PhasesAreDone, Passed, OwnPhase
  <2>7. ServerIsWatched'
    BY <1>1, <2>1 DEF ServerIsWatched, Campaign!Unattended
  <2>8. WorkersAreCounted'
    <3>1. dir'["reclamation b"].by # tally.campaigns
      BY <1>6, <1>9, <2>3
    <3>2. tally.workers > 0 => \E e \in Reclamations :
            dir'[e].by = tally.campaigns /\ dir'[e].report.errors > 0
      BY <1>4, <1>5, <1>6, <1>9, <2>2, <2>3
    <3> QED
      BY <1>1, <1>8, <1>9, <2>1, <3>1, <3>2 DEF WorkersAreCounted
  <2> QED
    BY <1>1, <1>10, <2>4, <2>6, <2>7, <2>8 DEF CampaignInv
<1>12. CASE Campaign!Current # "reclamation a"
  <2>1. PICK s \in {"PASS", "INCONCLUSIVE"} : Campaign!Record("reclamation", s)
    <3>1. CASE Campaign!Accepted(review)
      BY <1>2, <1>3, <1>12, <3>1
    <3>2. CASE ~Campaign!Accepted(review)
      BY <1>2, <1>3, <1>12, <3>2
    <3> QED
      BY <3>1, <3>2
  <2>2. dir' = [dir EXCEPT !["reclamation b"] = w, !["review"] = v]
    BY <1>2, <1>3, <1>12
  <2>3. dir["reclamation a"].by = tally.campaigns
    BY <1>12 DEF Campaign!Current
  <2>4. /\ DirectoryTyped /\ dir = [e \in Campaign!Evidence |-> dir[e]]
    BY <1>1 DEF CampaignTyped, DirectoryTyped
  <2>5. /\ dir' = [e \in Campaign!Evidence |-> dir'[e]]
        /\ dir'["reclamation b"] = w /\ dir'["review"] = v
        /\ \A d \in Campaign!Evidence : d \notin {"reclamation b", "review"} => dir'[d] = dir[d]
    BY <1>6, <2>2, <2>4
  <2>6. DirectoryTyped'
    <3>1. \A d \in Campaign!Evidence : dir'[d].by \in Nat /\ dir'[d].by <= tally.campaigns
      <4>1. SUFFICES ASSUME NEW d \in Campaign!Evidence
                     PROVE  dir'[d].by \in Nat /\ dir'[d].by <= tally.campaigns
        OBVIOUS
      <4>2. CASE d \in {"reclamation b", "review"}
        <5>1. dir'[d] = w \/ dir'[d] = v
          BY <2>5, <4>2
        <5>2. PICK n \in Nat : n = tally.campaigns
          BY <1>4
        <5>3. dir'[d].by = n /\ n <= n
          BY <1>5, <5>1, <5>2
        <5> QED
          BY <5>2, <5>3
      <4>3. CASE d \notin {"reclamation b", "review"}
        BY <2>4, <2>5, <4>1, <4>3 DEF DirectoryTyped
      <4> QED
        BY <4>2, <4>3
    <3>2. \A d \in Reclamations : dir'[d].by # 0 => dir'[d].report.errors \in Nat
      BY <1>4, <1>5, <1>6, <2>4, <2>5 DEF DirectoryTyped
    <3> QED
      BY <1>1, <2>5, <3>1, <3>2 DEF DirectoryTyped
  <2>7. \A e \in Reclamations \cup {"review"} : dir'[e].by = tally.campaigns
    BY <1>5, <1>6, <2>3, <2>5
  <2>8. {"thinking", "evaluation", "resource"} \subseteq Campaign!Evidence
    BY DEF Campaign!Evidence
  <2>9. PhasesAreDone'
    BY <1>1, <1>6, <1>10, <2>1, <2>5, <2>7, <2>8, PhasesStayDone
  <2>10. ServerIsWatched'
    BY <1>1, <1>6, <2>1, ServerStays
  <2>11. CampaignTyped' /\ (exit = "none" => tally.campaigns > 0)'
    <3>1. verdict' \in [minimum : BOOLEAN, rrg5 : BOOLEAN]
      BY <1>1 DEF CampaignTyped
    <3> QED
      BY <1>1, <1>4, <1>6, <1>8, <2>1, <2>6, <3>1, TypedAfter
  <2>12. WorkersAreCounted'
    <3>1. step'[2] = "resource" /\ phases'["reclamation"] = s
      BY <1>1, <1>6, <2>1, StepAfter
    <3>2. tally.workers > 0 => \E e \in Reclamations :
            dir'[e].by = tally.campaigns /\ dir'[e].report.errors > 0
      BY <1>4, <1>5, <1>6, <1>9, <2>3, <2>5
    <3> QED
      BY <1>1, <1>8, <3>1, <3>2 DEF WorkersAreCounted, AfterReclamation
  <2> QED
    BY <1>10, <2>9, <2>10, <2>11, <2>12 DEF CampaignInv
<1> QED
  BY <1>11, <1>12

\* A reclamation that raises says so.
LEMMA RaisedReclamationIsTrue ==
  ASSUME CampaignInv, Campaign!Raises("reclamation") PROVE CampaignInv'
<1>1. /\ CampaignTyped /\ WorkersAreCounted
      /\ step[2] = "reclamation" /\ exit = "none" /\ exit' = "none"
      /\ UNCHANGED <<verdict, dir, server>> /\ draft' = Campaign!NoDraft /\ Campaign!Fault
      /\ Campaign!Record("reclamation", "FAIL") /\ "reclamation" \in Campaign!Phases
  BY DEF CampaignInv, Campaign!Raises, Campaign!At, Campaign!Running, Campaign!Phases
<1>2. /\ tally' \in TallyRecords /\ tally'.campaigns = tally.campaigns
      /\ tally'.workers = tally.workers
  BY <1>1, FaultOfCampaign
<1>3. PICK no : no = Campaign!NoDraft
  OBVIOUS
<1>4. no \in DraftRecords /\ no.errors = 0 /\ draft' = no
  BY <1>1, <1>3 DEF DraftRecords, Campaign!NoDraft
<1>5. VerdictIsKept' /\ ~verdict'.minimum
  BY <1>1, NoVerdictBefore
<1>6. PhasesAreDone'
  BY <1>1, <1>2, <1>5, PhasesStayDone
<1>7. ServerIsWatched'
  BY <1>1, ServerStays
<1>8. CampaignTyped' /\ (exit = "none" => tally.campaigns > 0)'
  <2>1. DirectoryTyped' /\ verdict' \in [minimum : BOOLEAN, rrg5 : BOOLEAN]
    BY <1>1, <1>2, DirectoryStays DEF CampaignTyped
  <2> QED
    BY <1>1, <1>2, <1>4, <2>1, TypedAfter
<1>9. WorkersAreCounted'
  <2>1. step'[2] = "resource" /\ phases'["reclamation"] = "FAIL"
    BY <1>1, StepAfter
  <2>2. dir["reclamation b"].by # tally.campaigns \/ ~(tally.campaigns > 0)
    BY <1>1 DEF WorkersAreCounted, AfterReclamation, AfterResource
  <2> QED
    BY <1>1, <1>2, <1>4, <2>1, <2>2 DEF WorkersAreCounted, AfterReclamation
<1> QED
  BY <1>5, <1>6, <1>7, <1>8, <1>9 DEF CampaignInv

\* The bundle is complete when the directory is, whoever wrote it.
LEMMA ValidateIsTrue ==
  ASSUME CampaignInv, Campaign!Validate PROVE CampaignInv'
<1>1. /\ CampaignTyped /\ VerdictIsKept /\ tally.campaigns > 0
      /\ step[2] = "bundle" /\ exit = "none" /\ exit' = "none"
      /\ UNCHANGED <<dir, server, draft, tally>> /\ "bundle" \in Campaign!Phases
  BY DEF CampaignInv, Campaign!Validate, Campaign!At, Campaign!Running, Campaign!Phases
<1>2. PICK c : c = Campaign!BundleComplete
  OBVIOUS
<1>3. c \in BOOLEAN
  BY <1>2 DEF Campaign!BundleComplete, Campaign!Accepted
<1>4. verdict' = [verdict EXCEPT !.minimum = c]
  BY <1>2 DEF Campaign!Validate
<1>5. /\ verdict' \in [minimum : BOOLEAN, rrg5 : BOOLEAN] /\ verdict'.minimum = c
      /\ verdict'.rrg5 = verdict.rrg5 /\ ~verdict.rrg5
  BY <1>1, <1>3, <1>4 DEF CampaignTyped, VerdictIsKept
<1>6. PICK s : Campaign!Record("bundle", s)
  BY DEF Campaign!Validate
<1>7. step'[2] = "multimodel"
  BY <1>1, <1>6, StepAfter
<1>8. (Campaign!BundleComplete)' = Campaign!BundleComplete
  BY <1>1 DEF Campaign!BundleComplete, Campaign!Accepted, Campaign!ReviewOf
<1>9. VerdictIsKept'
  BY <1>1, <1>2, <1>5, <1>7, <1>8 DEF VerdictIsKept
<1>10. PhasesAreDone'
  BY <1>1, <1>6, PhasesStayDone
<1>11. ServerIsWatched'
  BY <1>1, <1>6, ServerStays
<1>12. WorkersAreCounted'
  BY <1>1, <1>6, WorkersStay
<1>13. CampaignTyped' /\ (exit = "none" => tally.campaigns > 0)'
  <2>1. DirectoryTyped' /\ draft' \in DraftRecords /\ tally' \in TallyRecords
    BY <1>1, DirectoryStays DEF CampaignTyped
  <2> QED
    BY <1>1, <1>5, <1>6, <2>1, TypedAfter
<1> QED
  BY <1>9, <1>10, <1>11, <1>12, <1>13 DEF CampaignInv

\* The procedure with two models, or none.
LEMMA MultiModelPhaseIsTrue ==
  ASSUME CampaignInv, Campaign!MultiModel \/ Campaign!Raises("multimodel") PROVE CampaignInv'
<1>1. /\ CampaignTyped /\ VerdictIsKept /\ tally.campaigns > 0
      /\ step[2] = "multimodel" /\ exit = "none" /\ exit' = "none"
      /\ UNCHANGED <<dir, server>> /\ (draft' = draft \/ draft' = Campaign!NoDraft)
      /\ (Campaign!Fault \/ UNCHANGED tally) /\ "multimodel" \in Campaign!Phases
  BY DEF CampaignInv, Campaign!MultiModel, Campaign!Raises, Campaign!At, Campaign!Running,
         Campaign!Phases
<1>2. /\ tally' \in TallyRecords /\ tally'.campaigns = tally.campaigns
      /\ tally'.workers = tally.workers
  BY <1>1, FaultOfCampaign
<1>3. PICK s : /\ Campaign!Record("multimodel", s)
               /\ \/ UNCHANGED verdict
                  \/ s = "PASS" /\ verdict' = [verdict EXCEPT !.rrg5 = TRUE]
  BY DEF Campaign!MultiModel, Campaign!Raises
<1>4. /\ verdict' \in [minimum : BOOLEAN, rrg5 : BOOLEAN] /\ verdict'.minimum = verdict.minimum
      /\ (verdict'.rrg5 => s = "PASS")
  <2>1. verdict \in [minimum : BOOLEAN, rrg5 : BOOLEAN] /\ ~verdict.rrg5
    BY <1>1 DEF CampaignTyped, VerdictIsKept
  <2>2. CASE UNCHANGED verdict
    BY <2>1, <2>2
  <2>3. CASE s = "PASS" /\ verdict' = [verdict EXCEPT !.rrg5 = TRUE]
    BY <2>1, <2>3
  <2> QED
    BY <1>3, <2>2, <2>3
<1>5. step'[2] = "finalize" /\ phases'["multimodel"] = s
  BY <1>1, <1>3, StepAfter
<1>6. (Campaign!BundleComplete)' = Campaign!BundleComplete
  BY <1>1 DEF Campaign!BundleComplete, Campaign!Accepted, Campaign!ReviewOf
<1>7. VerdictIsKept'
  BY <1>1, <1>4, <1>5, <1>6 DEF VerdictIsKept
<1>8. PhasesAreDone'
  BY <1>1, <1>2, <1>3, PhasesStayDone
<1>9. ServerIsWatched'
  BY <1>1, <1>3, ServerStays
<1>10. draft' \in DraftRecords /\ draft'.errors \in {0, draft.errors}
  <2>1. PICK no : no = Campaign!NoDraft
    OBVIOUS
  <2>2. no \in DraftRecords /\ no.errors = 0
    BY <2>1 DEF DraftRecords, Campaign!NoDraft
  <2>3. draft' = draft \/ draft' = no
    BY <1>1, <2>1
  <2> QED
    BY <1>1, <2>2, <2>3 DEF CampaignTyped
<1>11. WorkersAreCounted'
  BY <1>1, <1>2, <1>3, <1>10, WorkersStay
<1>12. CampaignTyped' /\ (exit = "none" => tally.campaigns > 0)'
  <2>1. DirectoryTyped'
    BY <1>1, <1>2, DirectoryStays
  <2> QED
    BY <1>1, <1>2, <1>3, <1>4, <1>10, <2>1, TypedAfter
<1> QED
  BY <1>7, <1>8, <1>9, <1>11, <1>12 DEF CampaignInv

\* The exit code is of the verdicts.
LEMMA FinalizeIsTrue ==
  ASSUME CampaignInv, Campaign!Finalize PROVE CampaignInv'
<1>1. /\ CampaignTyped /\ PhasesAreDone /\ VerdictIsKept /\ ServerIsWatched /\ WorkersAreCounted
      /\ step[2] = "finalize" /\ exit = "none"
      /\ UNCHANGED <<step, phases, verdict, dir, server, draft, tally>>
  BY DEF CampaignInv, Campaign!Finalize, Campaign!At, Campaign!Running
<1>2. PICK complete \in BOOLEAN, failed \in BOOLEAN :
        /\ complete <=> verdict.minimum /\ (step[1] = "minimum" \/ verdict.rrg5)
        /\ failed <=> \E p \in Campaign!Phases : phases[p] = "FAIL"
  OBVIOUS
<1>3. exit' = CASE complete -> "0" [] OTHER -> IF failed THEN "1" ELSE "2"
  BY <1>2 DEF Campaign!Finalize
<1>4. exit' \in {"0", "1", "2"} /\ (exit' = "0" => complete) /\ (exit' = "2" => ~failed)
  BY <1>3
<1>5. (Campaign!BundleComplete)' = Campaign!BundleComplete
  BY <1>1 DEF Campaign!BundleComplete, Campaign!Accepted, Campaign!ReviewOf
<1>6. CampaignTyped'
  BY <1>1, DirectoryStays DEF CampaignTyped
<1>7. PhasesAreDone'
  BY <1>1 DEF PhasesAreDone, Passed, OwnPhase
<1>8. VerdictIsKept'
  BY <1>1, <1>2, <1>4, <1>5 DEF VerdictIsKept
<1>9. ServerIsWatched'
  BY <1>1 DEF ServerIsWatched, Campaign!Unattended
<1>10. WorkersAreCounted'
  BY <1>1 DEF WorkersAreCounted
<1> QED
  BY <1>4, <1>6, <1>7, <1>8, <1>9, <1>10 DEF CampaignInv

\* A further campaign in the directory.
LEMMA BeginOfCampaignIsTrue ==
  ASSUME CampaignInv, NEW scope \in {"minimum", "full"}, Campaign!Begin(scope) PROVE CampaignInv'
<1>1. CampaignTyped /\ tally \in TallyRecords /\ UNCHANGED dir
  BY DEF CampaignInv, CampaignTyped, Campaign!Begin
<1>2. PICK n \in Nat : n = tally.campaigns
  BY <1>1 DEF TallyRecords
<1>3. PICK t : t = [campaigns |-> n + 1, interrupts |-> 0, faults |-> 0, workers |-> 0]
  OBVIOUS
<1>4. PICK no : no = Campaign!NoDraft
  OBVIOUS
<1>5. no \in DraftRecords /\ no.errors = 0 /\ t \in TallyRecords
      /\ t.campaigns = n + 1 /\ t.workers = 0
  BY <1>3, <1>4 DEF DraftRecords, TallyRecords, Campaign!NoDraft
<1>6. PICK b \in {"backend", "preflight"} : step' = <<scope, b>>
  BY DEF Campaign!Begin
<1>7. /\ phases' = [p \in Campaign!Phases |-> "none"]
      /\ verdict' = [minimum |-> FALSE, rrg5 |-> FALSE]
      /\ server' = "none" /\ draft' = no /\ exit' = "none" /\ tally' = t
  BY <1>2, <1>3, <1>4 DEF Campaign!Begin
<1>8. DirectoryTyped'
  <2>1. n \in Nat /\ \A k \in Nat : k <= n => k <= n + 1
    OBVIOUS
  <2>2. \A e \in Campaign!Evidence : dir[e].by \in Nat /\ dir[e].by <= n
    BY <1>1, <1>2 DEF CampaignTyped, DirectoryTyped
  <2>3. \A e \in Campaign!Evidence : dir[e].by \in Nat /\ dir[e].by <= n + 1
    BY <2>1, <2>2
  <2> QED
    BY <1>1, <1>5, <1>7, <2>3 DEF CampaignTyped, DirectoryTyped
<1>9. /\ phases' = [p \in Campaign!Phases |-> phases'[p]]
      /\ step' = <<step'[1], step'[2]>> /\ step'[2] = b
      /\ verdict' \in [minimum : BOOLEAN, rrg5 : BOOLEAN] /\ ~verdict'.minimum /\ ~verdict'.rrg5
      /\ phases'["reclamation"] = "none"
  BY <1>6, <1>7 DEF Campaign!Phases
<1>10. CampaignTyped'
  BY <1>5, <1>7, <1>8, <1>9 DEF CampaignTyped, Campaign!Phases
<1>11. PhasesAreDone'
  BY <1>9 DEF PhasesAreDone, Passed, AfterPrimary, AfterSecondary, AfterStart,
              AfterThinking, AfterEvaluation, AfterReclamation, AfterResource
<1>12. VerdictIsKept'
  BY <1>7, <1>9 DEF VerdictIsKept
<1>13. ServerIsWatched'
  BY <1>7, <1>9 DEF ServerIsWatched, Campaign!Unattended
<1>14. WorkersAreCounted'
  <2>1. "reclamation b" \in Campaign!Evidence
    BY DEF Campaign!Evidence
  <2>2. dir["reclamation b"].by \in Nat /\ dir["reclamation b"].by <= n
    BY <1>1, <1>2, <2>1 DEF CampaignTyped, DirectoryTyped
  <2>3. dir["reclamation b"].by # n + 1 /\ n + 1 > 0 /\ ~(0 > 0)
    <3>1. PICK k \in Nat : k = dir["reclamation b"].by /\ k <= n
      BY <2>2
    <3>2. k # n + 1
      <4>1. \A x \in Nat : x <= n => x # n + 1
        OBVIOUS
      <4> QED
        BY <3>1, <4>1, Zenon
    <3>3. n + 1 > 0
      OBVIOUS
    <3>4. ~(0 > 0)
      OBVIOUS
    <3> QED
      BY <3>1, <3>2, <3>3, <3>4
  <2> QED
    BY <1>1, <1>5, <1>7, <1>9, <2>3 DEF WorkersAreCounted
<1>15. tally'.campaigns > 0
  BY <1>2, <1>5, <1>7
<1> QED
  BY <1>10, <1>11, <1>12, <1>13, <1>14, <1>15 DEF CampaignInv

\* No campaign has been started.
LEMMA CampaignsInitially ==
  ASSUME Campaign!Init PROVE CampaignInv
<1>1. /\ step = <<"full", "finalize">> /\ phases = [p \in Campaign!Phases |-> "none"]
      /\ verdict = [minimum |-> FALSE, rrg5 |-> FALSE]
      /\ dir = [e \in Campaign!Evidence |-> Campaign!Missing]
      /\ server = "none" /\ exit = "0"
      /\ tally = [campaigns |-> 0, interrupts |-> 0, faults |-> 0, workers |-> 0]
  BY DEF Campaign!Init
<1>2. PICK no : no = Campaign!NoDraft
  OBVIOUS
<1>3. no \in DraftRecords /\ no.errors = 0 /\ draft = no
  BY <1>2 DEF DraftRecords, Campaign!NoDraft, Campaign!Init
<1>4. PICK m : m = Campaign!Missing
  OBVIOUS
<1>5. m.by = 0
  BY <1>4 DEF Campaign!Missing
<1>6. Reclamations \subseteq Campaign!Evidence
  BY DEF Reclamations, Campaign!Evidence
<1>7. /\ tally \in TallyRecords /\ tally.campaigns = 0 /\ tally.workers = 0
  BY <1>1 DEF TallyRecords
<1>8. DirectoryTyped
  <2>1. dir = [e \in Campaign!Evidence |-> dir[e]] /\ \A e \in Campaign!Evidence : dir[e] = m
    BY <1>1, <1>4
  <2>2. \A e \in Campaign!Evidence : dir[e].by = 0
    BY <1>5, <2>1
  <2>3. \A e \in Campaign!Evidence : dir[e].by \in Nat /\ dir[e].by <= tally.campaigns
    BY <1>7, <2>2
  <2> QED
    BY <1>6, <2>1, <2>2, <2>3 DEF DirectoryTyped
<1>9. /\ step = <<step[1], step[2]>> /\ step[2] = "finalize"
      /\ phases = [p \in Campaign!Phases |-> phases[p]]
      /\ verdict \in [minimum : BOOLEAN, rrg5 : BOOLEAN] /\ ~verdict.minimum /\ ~verdict.rrg5
  BY <1>1
<1>10. CampaignTyped
  BY <1>3, <1>7, <1>8, <1>9 DEF CampaignTyped
<1>11. PhasesAreDone
  BY <1>9 DEF PhasesAreDone, Passed, AfterPrimary, AfterSecondary, AfterStart,
              AfterThinking, AfterEvaluation, AfterReclamation, AfterResource
<1>12. VerdictIsKept
  BY <1>1, <1>7, <1>9 DEF VerdictIsKept
<1>13. ServerIsWatched
  BY <1>1, <1>9 DEF ServerIsWatched, Campaign!Unattended
<1>14. WorkersAreCounted
  BY <1>3, <1>7, <1>9 DEF WorkersAreCounted
<1> QED
  BY <1>1, <1>10, <1>11, <1>12, <1>13, <1>14 DEF CampaignInv

\* Each step of a campaign keeps the invariant.
LEMMA CampaignStep ==
  ASSUME CampaignInv, Campaign!Next PROVE CampaignInv'
<1>1. \A scope \in {"minimum", "full"} : Campaign!Begin(scope) => CampaignInv'
  BY BeginOfCampaignIsTrue
<1>2. \A p \in {"backend", "preflight", "primary", "secondary"} : Campaign!Prepare(p) => CampaignInv'
  BY PrepareIsTrue
<1>3. Campaign!Thinking \/ Campaign!Evaluation => CampaignInv'
  <2>1. "thinking" \in {"thinking", "evaluation"} /\ "evaluation" \in {"thinking", "evaluation"}
    OBVIOUS
  <2> QED
    BY <2>1, AskingIsTrue
<1>4. \A p \in {"thinking", "evaluation"} :
        Campaign!Skip(p) \/ Campaign!Unreachable(p) => CampaignInv'
  BY AskingIsTrue
<1>5. \A p \in {"reclamation", "resource", "multimodel"} : Campaign!Raises(p) => CampaignInv'
  BY RaisedReclamationIsTrue, ResourceIsTrue, MultiModelPhaseIsTrue
<1>6. Campaign!Start \/ Campaign!Crash \/ Campaign!Stop \/ Campaign!StopFinally => CampaignInv'
  BY StartIsTrue, CrashIsTrue, StopIsTrue, StopFinallyIsTrue
<1>7. Campaign!Cycle \/ Campaign!Reclaimed \/ Campaign!Resource \/ Campaign!Validate
        \/ Campaign!MultiModel \/ Campaign!Finalize => CampaignInv'
  BY CycleOfCampaignIsTrue, ReclaimedIsTrue, ResourceIsTrue, ValidateIsTrue,
     MultiModelPhaseIsTrue, FinalizeIsTrue
<1>8. Campaign!Interrupt \/ Campaign!InterruptStart \/ Campaign!SummaryFails => CampaignInv'
  BY InterruptIsTrue, InterruptStartIsTrue, SummaryFailsIsTrue
<1> QED
  BY <1>1, <1>2, <1>3, <1>4, <1>5, <1>6, <1>7, <1>8 DEF Campaign!Next

\* The invariant holds in every behaviour of the campaigns.
LEMMA CampaignInvHolds == KeptSpec => [](component = "campaign" => CampaignInv)
<1>1. ASSUME CampaignInv, UNCHANGED Campaign!vars PROVE CampaignInv'
  <2>1. UNCHANGED <<step, phases, verdict, dir, server, draft, exit, tally>>
    BY <1>1 DEF Campaign!vars
  <2>2. (Campaign!BundleComplete)' = Campaign!BundleComplete
    BY <2>1 DEF Campaign!BundleComplete, Campaign!Accepted, Campaign!ReviewOf
  <2>3. CampaignTyped'
    BY <1>1, <2>1 DEF CampaignInv, CampaignTyped, DirectoryTyped
  <2>4. PhasesAreDone'
    BY <1>1, <2>1 DEF CampaignInv, PhasesAreDone, Passed, OwnPhase
  <2>5. VerdictIsKept' /\ ServerIsWatched' /\ WorkersAreCounted'
    BY <1>1, <2>1, <2>2
    DEF CampaignInv, VerdictIsKept, ServerIsWatched, WorkersAreCounted, Campaign!Unattended
  <2> QED
    BY <1>1, <2>1, <2>3, <2>4, <2>5 DEF CampaignInv
<1>2. CampaignInv /\ [Campaign!Next]_(Campaign!vars) => CampaignInv'
  BY <1>1, CampaignStep
<1>3. KeptInit => (component = "campaign" => CampaignInv)
  BY CampaignsInitially DEF KeptInit
<1>4. (component = "campaign" => CampaignInv) /\ [KeptNext]_storesVars
         => (component = "campaign" => CampaignInv)'
  BY <1>2, SameStore
<1> QED
  BY <1>3, <1>4, PTL DEF KeptSpec

\* A directory that is complete has reports of reclamation without errors.
LEMMA CompleteHasNoErrors ==
  ASSUME CampaignTyped, Campaign!BundleComplete
  PROVE  /\ \A e \in Reclamations : ~(dir[e].report.errors > 0)
         /\ \A e \in Campaign!Evidence : dir[e].by # 0
<1>1. \A e \in Campaign!Evidence : dir[e].by # 0
  BY DEF Campaign!BundleComplete
<1>2. PICK a, b : a = dir["reclamation a"].report /\ b = dir["reclamation b"].report
  OBVIOUS
<1>3. a.errors \in Nat /\ b.errors \in Nat
  BY <1>1, <1>2 DEF CampaignTyped, DirectoryTyped, Reclamations, Campaign!Evidence
<1>4. Campaign!Accepted(Campaign!ReviewOf(a, b))
  BY <1>2 DEF Campaign!BundleComplete
<1>5. a.grade = b.grade
  <2>1. SUFFICES ASSUME a.grade # b.grade PROVE FALSE
    OBVIOUS
  <2>2. Campaign!ReviewOf(a, b) = [compatible |-> 1, windows |-> a.windows, errors |-> a.errors]
    BY <2>1 DEF Campaign!ReviewOf
  <2>3. Campaign!ReviewOf(a, b).compatible = 1
    BY <2>2
  <2> QED
    BY <1>4, <2>3 DEF Campaign!Accepted
<1>6. a.errors + b.errors = 0
  <2>1. Campaign!ReviewOf(a, b) = [compatible |-> 2, windows |-> a.windows + b.windows,
                                   errors |-> a.errors + b.errors]
    BY <1>5 DEF Campaign!ReviewOf
  <2>2. Campaign!ReviewOf(a, b).errors = a.errors + b.errors
    BY <2>1
  <2> QED
    BY <1>4, <2>2 DEF Campaign!Accepted
<1>7. ~(a.errors > 0) /\ ~(b.errors > 0)
  <2>1. PICK x \in Nat, y \in Nat : x = a.errors /\ y = b.errors
    BY <1>3
  <2>2. x + y = 0 => ~(x > 0) /\ ~(y > 0)
    OBVIOUS
  <2> QED
    BY <1>6, <2>1, <2>2
<1> QED
  BY <1>1, <1>2, <1>7 DEF Reclamations

\* The invariant says what a complete campaign is.
LEMMA CompleteCampaigns ==
  ASSUME CampaignInv PROVE Campaign!CompleteIsEarned
<1>1. /\ CampaignTyped /\ PhasesAreDone /\ VerdictIsKept /\ ServerIsWatched /\ WorkersAreCounted
      /\ (exit = "none" => tally.campaigns > 0)
  BY DEF CampaignInv
<1>2. ASSUME exit = "0", tally.campaigns > 0
      PROVE  /\ Campaign!BundleComplete /\ phases["primary"] = "PASS"
             /\ (tally.campaigns = 1 \/ Campaign!Statuses \subseteq {"PASS", "SKIPPED", "none"}) =>
                  (\A e \in Campaign!Evidence : dir[e].by = tally.campaigns) /\ tally.workers = 0
             /\ step[1] = "full" => phases["multimodel"] = "PASS" /\ phases["secondary"] = "PASS"
  <2>1. /\ verdict.minimum /\ (step[1] = "minimum" \/ verdict.rrg5) /\ Campaign!BundleComplete
        /\ step[2] \in {"multimodel", "finalize"}
    BY <1>1, <1>2 DEF VerdictIsKept
  <2>2. /\ phases["primary"] = "PASS" /\ (step[1] = "full" => phases["secondary"] = "PASS")
    BY <1>1, <2>1 DEF PhasesAreDone, Passed
  <2>3. step[1] = "full" => phases["multimodel"] = "PASS"
    BY <1>1, <2>1 DEF VerdictIsKept
  <2>4. /\ \A e \in Reclamations : ~(dir[e].report.errors > 0)
        /\ \A e \in Campaign!Evidence : dir[e].by # 0
    BY <1>1, <2>1, CompleteHasNoErrors
  <2>5. draft.errors = 0
    BY <1>1, <2>1 DEF WorkersAreCounted
  <2>6. {"reclamation", "start", "thinking", "evaluation", "resource"} \subseteq Campaign!Phases
    BY DEF Campaign!Phases
  <2>7. ASSUME phases["reclamation"] # "FAIL" PROVE tally.workers = 0
    <3>1. ~(tally.workers > 0)
      <4>1. ~(draft.errors > 0)
        BY <2>5
      <4>2. tally.workers > 0 =>
              \/ draft.errors > 0 \/ phases["reclamation"] = "FAIL"
              \/ \E e \in Reclamations : dir[e].by = tally.campaigns /\ dir[e].report.errors > 0
        BY <1>1 DEF WorkersAreCounted
      <4> QED
        BY <2>4, <2>7, <4>1, <4>2
    <3>2. tally.workers \in Nat
      BY <1>1 DEF CampaignTyped, TallyRecords
    <3> QED
      BY <3>1, <3>2
  <2>8. ASSUME tally.campaigns = 1
        PROVE  (\A e \in Campaign!Evidence : dir[e].by = tally.campaigns) /\ tally.workers = 0
    <3>1. \A e \in Campaign!Evidence : dir[e].by \in Nat /\ dir[e].by <= 1 /\ dir[e].by # 0
      BY <1>1, <2>4, <2>8 DEF CampaignTyped, DirectoryTyped
    <3>2. \A e \in Campaign!Evidence : dir[e].by = 1
      <4>1. \A k \in Nat : k <= 1 /\ k # 0 => k = 1
        OBVIOUS
      <4> QED
        BY <3>1, <4>1
    <3>3. "reclamation b" \in Campaign!Evidence
      BY DEF Campaign!Evidence
    <3>4. phases["reclamation"] # "FAIL"
      BY <1>1, <1>2, <2>8, <3>2, <3>3 DEF WorkersAreCounted
    <3> QED
      BY <2>7, <2>8, <3>2, <3>4
  <2>9. ASSUME Campaign!Statuses \subseteq {"PASS", "SKIPPED", "none"}
        PROVE  (\A e \in Campaign!Evidence : dir[e].by = tally.campaigns) /\ tally.workers = 0
    <3>1. \A p \in Campaign!Phases : phases[p] \in {"PASS", "SKIPPED", "none"}
      BY <2>9 DEF Campaign!Statuses
    <3>2. \A p \in {"reclamation", "start", "thinking", "evaluation", "resource"} :
            phases[p] # "FAIL" /\ phases[p] # "INCONCLUSIVE"
      BY <2>6, <3>1
    <3>3. /\ dir["thinking"].by = tally.campaigns /\ dir["evaluation"].by = tally.campaigns
          /\ dir["resource"].by = tally.campaigns
          /\ \A e \in Reclamations \cup {"review"} : dir[e].by = tally.campaigns
      BY <1>1, <2>1, <3>2 DEF PhasesAreDone, Passed, OwnPhase
    <3>4. \A e \in Campaign!Evidence : dir[e].by = tally.campaigns
      BY <3>3 DEF Campaign!Evidence, Reclamations
    <3> QED
      BY <2>7, <3>2, <3>4
  <2> QED
    BY <2>1, <2>2, <2>3, <2>8, <2>9
<1>3. exit = "2" => "FAIL" \notin Campaign!Statuses
  BY <1>1 DEF VerdictIsKept, Campaign!Statuses
<1>4. ~Campaign!Running /\ Campaign!Unattended =>
         phases["stop"] = "FAIL" \/ (exit = "130" /\ tally.interrupts + tally.faults >= 2)
  BY <1>1 DEF ServerIsWatched, Campaign!Running
<1>5. step[2] \in {"reclamation", "resource", "bundle", "multimodel", "finalize"}
         /\ Campaign!Unattended => phases["stop"] = "FAIL"
  BY <1>1 DEF ServerIsWatched
<1> QED
  BY <1>2, <1>3, <1>4, <1>5 DEF Campaign!CompleteIsEarned

\* Complete reports of the procedure with two models are earned and sufficient only
\* together, for any number of cycles, reports, faults and changes; and campaigns say that
\* they are complete, and have stopped their server, only when that is so, for any number
\* of campaigns, interrupts and faults (multi_model_device_evidence.py,
\* multi_model_evidence_review.py, device_evidence_campaign.py).
THEOREM EvidenceHolds ==
  ASSUME MultiModelAssumption PROVE KeptSpec => []EvidenceIsEarned
<1>1. (component = "multimodel" => MultiModelInv) /\ (component = "campaign" => CampaignInv)
        => EvidenceIsEarned
  BY EvidenceOfTwoModels, CompleteCampaigns DEF EvidenceIsEarned
<1> QED
  BY <1>1, MultiModelInvHolds, CampaignInvHolds, PTL
=============================================================================
