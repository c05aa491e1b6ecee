CONSTANTS
  e1 = e1
  e2 = e2
  Employees = {e1, e2}
  Requests = {r1, r2}
  SeedOwner <- MCSeedOwner
  Seed = Seed
  Torn = Torn
  None = None
  OneWriterPerTodo = FALSE
  MaxRepeats = 2
  MaxRestarts = 1
SPECIFICATION FairSpec
INVARIANTS
  IdsUniqueInEpoch
  GuaranteesInv
PROPERTIES
  EveryRequestAnswered
