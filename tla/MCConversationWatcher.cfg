SPECIFICATION FairSpec
CONSTANTS
  a1 = a1
  f1 = f1
  s1 = s1
  None = None
  Agents = {a1}
  Files = {f1, s1}
  Subagents = {s1}
  Owner <- OwnedByA1
  InitialAgents = {a1}
  InitialFiles = {}
  EventsCap = 1
  Workers = {1, 2}
  MaxAdds = 1
  MaxRemoves = 1
  MaxWrites = 1
  Unreadable = {s1}
INVARIANTS
  TypeOK
  NoOrphanTailer
PROPERTY
  LateFileIsStreamed
CHECK_DEADLOCK FALSE
