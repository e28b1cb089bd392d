SPECIFICATION FairFeedSpec
CONSTANTS
  a1 = a1
  quick = quick
  slow = slow
  Nobody = Nobody
  Agents = {a1}
  Clients = {quick, slow}
  Slow = {slow}
  EventsCap = 1
  SendCap = 1
  MaxScans = 2
  MaxRequests <- FewRequests
INVARIANTS
  FeedTypeOK
  NoChangeIsMissed
PROPERTY
  FollowersCatchUp
CHECK_DEADLOCK FALSE
