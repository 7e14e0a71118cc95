\* Requests, starts and changes of the status are bounded: the system may stop.
CHECK_DEADLOCK FALSE
SPECIFICATION Spec
CONSTANTS
  TextCap = 3
  QuantaPerDb = 3
  MaxLanes = 1
  MaxTimeline = 1
  MaxFilters = 1
  MaxEntries = 1
  MaxPoints = 3
  MinPoints = 2
  MinIrBytes = 2
  Frames <- MCFrames
  QueueSlots = 1
  Details = {1, 3}
  MaxRequests = 3
  MaxChanges = 2
  MaxStarts = 1
INVARIANT
  StatusIsPublished
