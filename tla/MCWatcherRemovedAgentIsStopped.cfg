SPECIFICATION Spec
CONSTANTS
  a1 = a1
  f1 = f1
  f2 = f2
  s1 = s1
  None = None
  Agents = {a1}
  Files = {f1, f2, s1}
  Subagents = {s1}
  Owner <- OwnedByA1
  InitialAgents = {}
  InitialFiles = {f1}
  EventsCap = 1
  Workers = {1, 2, 3, 4}
  MaxAdds = 2
  MaxRemoves = 1
  MaxWrites = 0
  Unreadable = {}
INVARIANT
  RemovedAgentIsStopped
CHECK_DEADLOCK FALSE
