CONSTANTS
  ObjectFields <- MCObjectFields
  Requests <- MCRequests
  Policies <- MCPolicies
  Denials = {{"salary"}}
SPECIFICATION Spec
INVARIANTS
  AllDeniedIsRefused
