CONSTANTS
  ObjectFields <- MCObjectFields
  Requests <- MCRequests
SPECIFICATION Spec
INVARIANTS
  TypeOK
  RemovedIsNotPrinted
  OthersArePrinted
