SPECIFICATION Spec
CONSTANTS
  EventTypes <- MCEventTypes
  Filters <- MCFilters
  MaxSize = 2
  ChanCap = 2
  MaxEvents = 4
  MaxSubs = 2
INVARIANTS
  TypeOK
  WindowIsTailOfLog
  SnapshotMeetsStream
  InOrder
  FirstEventsNeverDropped
  ResumeIsExact
PROPERTY
  ClosedStaysClosed
CHECK_DEADLOCK FALSE
