SPECIFICATION FairSpec
CONSTANTS
  h1 = h1
  h2 = h2
  h3 = h3
  t1 = t1
  e1 = e1
  ka = ka
  kb = kb
  None = None
  Http = {h1, h2}
  Transcription = {t1}
  Sample = {}
  Streams = {h1}
  Timed = {h2}
  Key = {ka}
  KeyOf <- MCKeyOf
  Cap <- MCCap
  GateCapacity = 1
  GlobalSlots = 2
  GlobalCapacity = 2
  Threads = 2
  Need <- MCNeed
  Budget = 1
  MaxResidency <- MCMaxResidency
INVARIANTS
  NothingKept
  SlotsAreWorth
  MemoryFollowsAdmission
PROPERTIES
  LateRequestsDoNotQueue
  EveryRequestIsAnswered
CHECK_DEADLOCK FALSE
