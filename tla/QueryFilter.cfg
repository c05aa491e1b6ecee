CONSTANTS
  ObjectFields <- MCObjectFields
  Requests <- MCRequests
SPECIFICATION Spec
INVARIANTS
  AsksForThePermitted
  FilteredIsWellFormed
  DecisionAgrees
