\* The host may end, and clients have a bounded number of launches.
CHECK_DEADLOCK FALSE
SPECIFICATION Vst3Spec
CONSTANTS
  Slots = 3
  MaxGeneration = 2
  Groups <- MCGroups
  ReadGroup = "main"
  MaxBlocks = 3
  Blocks = {1, 2, 3, 4}
  Sizes = {1, 2, 3}
  MaxBlockFrames = 2
  Faults <- MCFaults
  FailingIn = {"quarantine"}
  WatchdogTimeout = 1
  MaxTime = 3
  MaxLaunches = 2
  MaxRequest = 2
  RingFrames = 2
  StateIds = {s1, s2}
  SceneIds = {movie}
  Identities = {a, b, broken}
  ValidIdentities = {a, b}
  Versions = {0, 1, 2, 3}
  StateSizes = {1, 2}
  MaxBytes = 1
  StateSlots = 1
  RuleSlots = 2
  BindingSlots = 2
INVARIANTS
  HazardRespected
  PreflightIsEnough
PROPERTIES
  ImplementsRegister
  ReaderCatchesUp
  CrashReportsAreTrue
  LaneCarriesAnswers
  RouteShowsWorker
