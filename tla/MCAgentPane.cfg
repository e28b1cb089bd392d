SPECIFICATION FairPaneSpec
CONSTANTS
  adapter = adapter
  converter = converter
  p1 = p1
  p2 = p2
  u1 = u1
  v1 = v1
  v2 = v2
  None = None
  Services = {adapter, converter}
  Prompts = {p1, p2}
  Uploads = {u1}
  ServiceOf <- ServedBy
  Viewers = {v1, v2}
  Adapter = adapter
  Chunks = 2
  Heights = {2, 3}
  Workloads <- SmallLoads
INVARIANTS
  PaneTypeOK
  PromptsDontMix
  OkIsEntered
  WindowRestored
PROPERTY
  RequestsAreAnswered
CHECK_DEADLOCK FALSE
