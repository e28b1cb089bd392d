SPECIFICATION ServerSpec
CONSTANTS
  a1 = a1
  f1 = f1
  f2 = f2
  f3 = f3
  c1 = c1
  c2 = c2
  None = None
  Agents = {a1}
  Files = {f1, f2, f3}
  Subagents = {}
  Owner <- OwnedByA1
  InitialAgents = {a1}
  InitialFiles = {f1, f2}
  EventsCap = 1
  Workers = {1, 2}
  MaxAdds = 0
  MaxRemoves = 0
  MaxWrites = 0
  Unreadable = {}
  Clients = {c1}
  MaxSubs = 1
  LiveCap = 1
  MaxLines = 0
INVARIANT
  FollowerAlwaysTracksActive
CHECK_DEADLOCK FALSE
