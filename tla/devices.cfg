\* Two changes of endpoints and one failing enumeration; the calls of PortCls and
\* the restarts of the driver are bounded, so behaviours end.
CHECK_DEADLOCK FALSE
SPECIFICATION DevicesSpec
CONSTANTS
  speakers = speakers  headset = headset  mic = mic
  Devices <- MCDeviceSet
  Flows = {"render", "capture"}  FlowOf <- MCFlowOf  FirstFlow = "render"
  Unsupported = {}  NoDevice = NoDevice  CatalogLimit = 3
  MaxChanges = 2  MaxFailures = 1
  BufferBytes = 3  Events = {e1}  EventLimit = 1  MaxTime = 4  MaxCalls = 8
  RingFramesOfPin = 3  FrameNames = 7
  DriverLevels = {1, 2, 3}  LevelRange = {1, 2}  FirstLevel = 1  MaxGenerations = 2  MaxRestarts = 1
INVARIANTS
  StreamClock
  PinDeliversInOrder
  LatestStateWins
PROPERTIES
  CatalogCatchesUp
  PortClsReturns
