CONSTANTS
  Employees = {e1, e2}
  Updates = {u1, u2}
  Subs = {s1}
  None = None
SPECIFICATION FairSpec
PROPERTIES
  CancelledIsReleased
  UpdateIsAnswered
  UpdateReachesConsumer
