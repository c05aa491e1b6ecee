CONSTANTS
  Employees = {e1, e2}
  Updates = {u1, u2}
  Subs = {s1, s2}
  None = None
SPECIFICATION Spec
SYMMETRY BusSymmetry
INVARIANTS
  BusInv
  NeverSendsOnClosed
  InOrderOnceMatching
  PublishedIsSeenOrUnderWay
