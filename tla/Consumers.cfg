SPECIFICATION Spec
CONSTANTS
  s1 = s1  s2 = s2  m1 = m1  m2 = m2  m3 = m3  m4 = m4  oc = oc  group = group  wi = wi
  h1 = h1  h2 = h2  c1 = c1  c2 = c2  ticker = ticker  e1 = e1  e2 = e2  distiller = distiller  tea = tea
  None = None
  Gone = Gone
  Sched <- MCSched
  Caller <- MCCallers
  Ticker = ticker
  Definitions <- MCDefinitions
  Patches <- MCPatches
  CronPeriod = 2
  Msg <- MCMsgs
  Chat <- MCChats
  Item = {wi}
  ChatOf <- MCChatOf
  ThreadOf <- MCThreadOf
  Private <- MCPrivate
  Wordless <- MCWordless
  AllowedChats = {}
  Handler <- MCHandlers
  MaxParts = 2
  SeenMax = 2
  SeenDrop = 1
  OutBatch = 2
  TriageBatch = 2
  Layer <- MCLayers
  Distiller = distiller
  Editor <- MCEditors
  What = {tea}
  Ideas <- MCIdeas
  MinEvents = 2
  DistillPage = 2
  DistillCap = 4
  Scenes <- MCScenes
INVARIANTS  TakenOnce ConsumersKeepUp 
SYMMETRY MCSymmetry
CHECK_DEADLOCK FALSE
