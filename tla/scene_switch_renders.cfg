\* SPEC-0002: rendering succeeds after a switch of layout.
CONSTANTS
  main = main  aux = aux  spare = spare  labelA = labelA  labelB = labelB
  idA = idA  idB = idB
  speakers = speakers  headset = headset  t1 = t1  t2 = t2
  stereo = stereo  surround = surround
  Main = main  Groups <- MCGroups
  Channels = {2, 6}  Stereo = 2  Rates = {48}  DefaultRate = 48
  SinkChannels = 2  SinkRate = 48
  Refs = {labelA, labelB}  NoRef = NoRef
  CustomIds = {idA, idB}  CustomScenes <- MixedScenes  DeliveryLanes <- NoLanes
  CalibGroups = {}
  CatalogCapacity = 2  GroupCapacity = 2  FadeBlocks = 1
  NoGraph = NoGraph  Detached = Detached  NoPending = NoPending  NoScene = NoScene
  Endpoints <- OneEndpoint  NoEndpoint = NoEndpoint
  Levels = {1, 2}  Ceiling = 1  DefaultLevel = 1
  Callers <- OneCaller  Attempts = 2  NoState = NoState
  Budgets <- OneSided
  Layouts <- TwoLayouts  NoLayout = NoLayout
  QueueSlots = 1  Recoveries = 1  MaxFade = 2  Full = Full
SPECIFICATION EngineSpec
PROPERTY SwitchStillRenders
