\* What a request is answered with, and the runtimes, servers and jobs behind it.
SPECIFICATION ServingSpec
CONSTANT NoTimeout = NoTimeout
CONSTANTS
  Listeners = {"l1", "l2"}
  Limit = 4
  QueueSize = 2
  MaxLines = 5
  Trigger = 2
  Clear = 0
  TriggerSamples = 2
  ClearSamples = 2
  MaxSamples = 7
  Keys = {"ka", "kb"}
  Leasers = {"r1"}
  MaxPublished = 3
  MaxChanges = 1
  Painters = {"r1", "r2", "r3"}
  ImageSlots = 2
  Sizes = {0, 1, 3}
  Default = 1
  MaxPixels = 2
  MaxFaults = 2
  Engines = {"e1", "e2"}
  Kind <- MCKind
  Ports = {1, 2}
  AllowUnvalidated = TRUE
  MaxReplacements = 1
  MaxForeign = 1
  Askers = {"r1", "r2", "r3"}
  Wants <- MCWants
  Prompts = {"a"}
  Configs <- MCConfigs
  MaxLoads = 2
  Slots = 2
  CacheSize = 1
  TTL = 1
  MaxTicks = 1
INVARIANTS
    OnlyTheAnswerIsShown
    AnsweredByTheResident
    StreamIsContiguous
    EvictionIsJustified
    NothingIsLeftBehind
    MeasuredAsServed
PROPERTY NoSecondTurn
\* Answered requests and exhausted bounds leave nothing to do.
CHECK_DEADLOCK FALSE
