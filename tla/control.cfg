\* Requests, starts and changes of the status are bounded, and a payload is
\* written and read once: the system may stop.
CHECK_DEADLOCK FALSE
SPECIFICATION ControlSpec
CONSTANTS
  TextCap = 3
  QuantaPerDb = 3
  MaxLanes = 2
  MaxTimeline = 2
  MaxFilters = 2
  MaxEntries = 2
  MaxPoints = 3
  MinPoints = 2
  MinIrBytes = 2
  MaxBuses = 2
  MaxBusChannels = 12
  Values <- MCValues
  Tampered <- MCTampered
  Kinds <- MCKinds
  Frames <- MCFrames
  QueueSlots = 2
  Details = {1}
  MaxRequests = 3
  MaxChanges = 1
  MaxStarts = 2
INVARIANTS
  CommandsMatchAnswers
  FormatsAgree
  ScannerMatchesStandard
PROPERTIES
  ControlMakesProgress
