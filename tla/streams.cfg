\* One ASIO host, sequence numbers that wrap after six blocks; a page that opens
\* two sockets at most; two sinks, and two calls of the control thread.  The tab
\* bridge ends with the host.
CHECK_DEADLOCK FALSE
SPECIFICATION StreamsSpec
CONSTANTS
  daw = daw  b1 = b1  b2 = b2
  Hosts <- OneHost  Blocks <- TwoBlocks
  Torn = Torn  Empty = Empty  Slots = 3  Modulus = 6
  SlotCount = 2  RetryLimit = 1  NoPacket = NoPacket
  MaxSockets = 2  MaxPackets = 4  MaxCaptures = 2
  RingSlots = 2  SequenceLimit = 4  ChannelCounts = {2, 6}  NoFrame = 0  InputChannels = 2
  Threads = {"audio", "control"}  Registers <- MCRegisters
  NoSlot = NoSlot  NoValue = NoValue
  Grid = 4  History = 3  MaxDrift = 2  Inertia = 1
  Sinks = {1, 2}  Bases = {1, 4}  Targets <- MCTargets  BlockSizes = {3}  MaxCalls = 2
INVARIANTS
  OneLiveSocket
  WholeClocks
  RejectedBlockChangesNothing
  SinkKeepsPace
PROPERTIES
  ImplementsFifo
  FullRingDrains
  PacketRingsAreFifos
  BridgeMakesProgress
  ObservationHeard
