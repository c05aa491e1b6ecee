CONSTANTS
  e1 = e1
  e2 = e2
  Employees = {e1, e2}
  Requests = {r1, r2, r3}
  SeedOwner <- MCSeedOwner
  Seed = Seed
  Torn = Torn
  None = None
  OneWriterPerTodo = TRUE
  MaxRepeats = 1
  MaxRestarts = 0
SPECIFICATION Spec
SYMMETRY RequestSymmetry
INVARIANTS
  LastEventDescribesTodo
  TurnsAndEventsInv
PROPERTIES
  ImplementsContract
