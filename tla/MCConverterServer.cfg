SPECIFICATION ServerSpec
CONSTANTS
  a1 = a1
  f1 = f1
  f2 = f2
  f3 = f3
  c1 = c1
  c2 = c2
  None = None
  Agents = {a1}
  Files = {f1, f2}
  Subagents = {}
  Owner <- OwnedByA1
  InitialAgents = {a1}
  InitialFiles = {f1, f2}
  EventsCap = 1
  Workers = {1}
  MaxAdds = 0
  MaxRemoves = 0
  MaxWrites = 0
  Unreadable = {}
  Clients = {c1}
  MaxSubs = 2
  LiveCap = 1
  MaxLines = 2
SYMMETRY FileSymmetry
INVARIANTS
  ServerTypeOK
  FollowsMatchSubs
  FollowerTracksActive
  NobodyElseDetaches
  ConversationIsExact
CHECK_DEADLOCK FALSE
