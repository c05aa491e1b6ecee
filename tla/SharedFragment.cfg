CONSTANTS
  ObjectFields <- MCObjectFields
  Requests <- MCRequests
SPECIFICATION Spec
INVARIANTS
  ObjectFieldsKeepSelections
