CONSTANTS
  e1 = e1
  e2 = e2
  Employees = {e1, e2}
  Requests = {r1, r2, r3}
  SeedOwner <- MCSeedOwner
  Seed = Seed
  Torn = Torn
  None = None
  OneWriterPerTodo = FALSE
  MaxRepeats = 0
  MaxRestarts = 0
SYMMETRY RequestSymmetry
SPECIFICATION Spec
INVARIANTS
  IndexSound
  HiddenOnlyByFailedUpdate
  FailedCreateLeavesNoTrace
  CreatedTodoListed
  AckedTextSurvives
  FailedTextGone
  AckedDeleteSticks
  CreatedReportsTruthful
