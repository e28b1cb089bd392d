SPECIFICATION OutputSpec
CONSTANTS
  c1 = c1
  c2 = c2
  s1 = s1
  s2 = s2
  Clients = {c1, c2}
  Sessions = {s1}
  ChanCap = 1
  Leftover = {}
  Unreliable = {s1}
  MaxSubs = 3
  MaxBytes = 2
  MaxChanges = 2
SYMMETRY ClientSymmetry
VIEW WithoutClosed
INVARIANTS
  OutputTypeOK
  DeliveredOnce
  PipeFollowsSubscribers
  SubscriptionsAreHeld
  GoneHoldsNothing
CHECK_DEADLOCK FALSE
