\* Scenes of one layout, three groups for two places in the volume bank; volume
\* changes from both sides, failing calls, overlapping callbacks and a rebind; a
\* queue shorter than the fade, so that blocks of the fade are played in it.
CONSTANTS
  main = main  aux = aux  spare = spare  labelA = labelA  labelB = labelB
  idA = idA  idB = idB
  speakers = speakers  headset = headset  t1 = t1  t2 = t2
  stereo = stereo  surround = surround
  Main = main  Groups <- ThreeGroups
  Channels = {2}  Stereo = 2  Rates = {44, 48}  DefaultRate = 48
  SinkChannels = 2  SinkRate = 44
  Refs = {labelA, labelB}  NoRef = NoRef
  CustomIds = {idA, idB}  CustomScenes <- StereoScenes  DeliveryLanes <- OneLane
  CalibGroups = {main}
  CatalogCapacity = 1  GroupCapacity = 2  FadeBlocks = 1
  NoGraph = NoGraph  Detached = Detached  NoPending = NoPending  NoScene = NoScene
  Endpoints <- TwoEndpoints  NoEndpoint = NoEndpoint
  Levels = {1}  Ceiling = 1  DefaultLevel = 1
  Callers <- TwoCallers  Attempts = 2  NoState = NoState
  Budgets <- Mixed
  Layouts <- TwoLayouts  NoLayout = NoLayout
  QueueSlots = 2  Recoveries = 1  MaxFade = 2  Full = Full
SPECIFICATION EngineSpec
INVARIANTS
  AttachmentsFollowScene
  CrossfadePairs
  OnlyUiIsWritten
  SnapshotWhole
  SpareParked
PROPERTIES
  FailedApplyKeepsConfig
  SwapAfterFade
SYMMETRY Symmetry
