SPECIFICATION FairSpec
CONSTANTS
  w1 = w1
  w2 = w2
  w3 = w3
  w4 = w4
  i1 = i1
  i2 = i2
  i3 = i3
  i4 = i4
  A = A
  B = B
  None = None
  Waiter = {w1, w2, w4}
  Id = {i1, i2, i3, i4}
  Runtime = {A, B}
  IdOf <- MCIdReused
  RuntimeOf <- MCRuntimeOf
  CapOf <- MCCapOne
  MaxRunning = 1
  QueueCapacity = 2
  Timeouts = {None, 1}
  MaxClock = 1
PROPERTIES
  EveryClientIsAnswered
