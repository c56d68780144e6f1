\* A load in flight is overtaken by an unload or a shutdown.
SPECIFICATION Spec
CONSTANTS
  a1 = a1
  a2 = a2
  b1 = b1
  A = A
  B = B
  C = C
  idA = idA
  idB = idB
  idC = idC
  None = None
  Load = {a1, a2, b1}
  Key = {A, B, C}
  Name = {A, B, C, idA, idB, idC}
  KeyOf <- MCKeyOf
  ModelIdOf <- MCModelIdOf
  Size <- MCSize
  Budget = 1
  Configured = idA
  MaxLeases = 1
INVARIANT
  LedgerEmptyAfterwards
CHECK_DEADLOCK FALSE
