SPECIFICATION FairSpec
CONSTANTS
  load = load
  g1 = g1
  d1 = d1
  s1 = s1
  s2 = s2
  Nobody = Nobody
  Loader = load
  Requests = {g1, d1}
  Stops = {s1, s2}
  Long = {g1}
  CommandOf <- MCCommandOf
INVARIANTS
  OwnAnswer
  LifecycleIsTrue
PROPERTIES
  StopEnds
CHECK_DEADLOCK FALSE
