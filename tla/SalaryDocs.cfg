CONSTANTS
  ObjectFields <- MCObjectFields
  Requests <- MCRequests
  Policies <- MCPolicies
  Denials = {{"path"}}
SPECIFICATION Spec
INVARIANTS
  SalaryDeniedEverywhere
