CONSTANTS
  Employees <- MCEmployees
  Seeded <- MCSeeded
  MaxRequests = 3
  Workloads <- MCWorkloads
SPECIFICATION Spec
INVARIANTS
  AnswerFollowsSchema
  EntitiesInPlace
  NeverGoesBack
  MutationsInOrder
  NamesAreWhole
  PostsAreAuthorized
  RolesShown
PROPERTY
  RequestIsAnswered
