\* Crossfades between Scenes in two layouts, under Strict Direct and with no lane
\* for their group, and at two sample rates; each side of the volume follows the
\* other, two callers at a time; a handoff with a queue of one block.
CONSTANTS
  main = main  aux = aux  spare = spare  labelA = labelA  labelB = labelB
  idA = idA  idB = idB
  speakers = speakers  headset = headset  t1 = t1  t2 = t2
  stereo = stereo  surround = surround
  Main = main  Groups <- MCGroups
  Channels = {2, 6}  Stereo = 2  Rates = {44, 48}  DefaultRate = 48
  SinkChannels = 2  SinkRate = 44
  Refs = {labelA}  NoRef = NoRef
  CustomIds = {idA}  CustomScenes <- FadingScenes  DeliveryLanes <- OneLane
  CalibGroups = {}
  CatalogCapacity = 1  GroupCapacity = 2  FadeBlocks = 2
  NoGraph = NoGraph  Detached = Detached  NoPending = NoPending  NoScene = NoScene
  Endpoints <- OneEndpoint  NoEndpoint = NoEndpoint
  Levels = {1, 2}  Ceiling = 1  DefaultLevel = 1
  Callers <- TwoCallers  Attempts = 2  NoState = NoState
  Budgets <- OneSided
  Layouts <- TwoLayouts  NoLayout = NoLayout
  QueueSlots = 1  Recoveries = 1  MaxFade = 1  Full = Full
SPECIFICATION EngineFairSpec
PROPERTIES CrossfadeAdvances EngineFollowsWindows WindowsFollowsUi CallsReturn
