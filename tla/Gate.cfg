SPECIFICATION FairSpec
CONSTANTS
  r1 = r1
  r2 = r2
  r3 = r3
  r4 = r4
  Request = {r1, r2, r3, r4}
  Timed = {r3, r4}
  Capacity = 2
  MaxRunning = 1
INVARIANTS
  SlotsAreAccounted
PROPERTIES
  StartedInTime
  ImplementsAdmissionPool
  EveryClientIsAnswered
