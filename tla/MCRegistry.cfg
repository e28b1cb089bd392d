SPECIFICATION FairRegistrySpec
CONSTANTS
  s1 = s1
  s2 = s2
  watcher = watcher
  client = client
  None = None
  Failed = Failed
  Callers = {watcher, client}
  Requests <- MCRequests
  Replies <- MCReplies
  NotifCap = 1
  SlowTmux = FALSE
  Sessions = {s1}
  Watcher = watcher
  EventsCap = 1
  InitialAgents = {s1}
  TmuxMayDie = FALSE
  MaxChanges = 2
INVARIANTS
  RegistryTypeOK
  AnswersMatchUntilTimeout
  EventsTellTheMap
  ScanIsJustified
PROPERTIES
  ExecuteReturns
  ReadersCatchUp
CHECK_DEADLOCK FALSE
