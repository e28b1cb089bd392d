SPECIFICATION RegistrySpec
CONSTANTS
  s1 = s1
  s2 = s2
  watcher = watcher
  client = client
  None = None
  Failed = Failed
  Callers = {watcher, client}
  Requests <- MCRequests
  Replies <- MCReplies
  NotifCap = 1
  SlowTmux = TRUE
  Sessions = {s1}
  Watcher = watcher
  EventsCap = 1
  InitialAgents = {s1}
  TmuxMayDie = FALSE
  MaxChanges = 2
INVARIANT
  AnswersMatch
CHECK_DEADLOCK FALSE
