\* Calls that overlap, overtake each other and are overtaken by the shutdown.
SPECIFICATION Spec
CONSTANTS
  a1 = a1
  a2 = a2
  b1 = b1
  A = A
  B = B
  C = C
  idA = idA
  idB = idB
  idC = idC
  None = None
  Load = {a1, a2, b1}
  Key = {A, B, C}
  Name = {A, B, C, idA, idB, idC}
  KeyOf <- MCKeyOf
  ModelIdOf <- MCModelIdOf
  Size <- MCSize
  Budget = 1
  Configured = idA
  MaxLeases = 1
INVARIANTS
  LiveEnginesFit
  EnginesOwned
  AliasesResident
  ReservationsOwned
  DefaultResident
  NoTeardownInUse
  CleanShutdown
\* Every attempt made and a clean shutdown leave nothing to do.
CHECK_DEADLOCK FALSE
