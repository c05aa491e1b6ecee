CONSTANTS
  ObjectFields <- MCObjectFields
  Requests <- MCRequests
  Policies <- MCPolicies
  Denials = {{"path"}, {"salary"}, {"todos"}, {"path", "todos"}}
SPECIFICATION Spec
INVARIANTS
  TypeOK
  OnlyPermittedGoesUpstream
  PermittedGoesUpstream
  RefusedForCause
  WellFormedGoesUpstream
