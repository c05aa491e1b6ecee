--------------------------- MODULE GraphQLSchemas ---------------------------
(***************************************************************************)
(* The schemas of the three GraphQL servers, from their schema.graphqls,   *)
(* and what GraphQL says the answer to a field of a schema is.  The        *)
(* generated code is compared with it.                                     *)
(***************************************************************************)
EXTENDS GeneratedCode

\* The types T, T!, [T!], [T!]! and [T]! of a schema.
Optional(type)      == O(type)
Required(type)      == N(type)
OptionalList(type)  == OList(type)
RequiredList(type)  == NList(type)
ListOfOptional(type) == NListO(type)

TodoSchema ==
  [Query    |-> [employeeTodos |-> RequiredList("Todo"), todoByID |-> Optional("Todo")],
   Mutation |-> [createTodo |-> Required("Todo"), updateTodo |-> Required("Todo"),
                 deleteTodo |-> Required("Todo")],
   Todo     |-> [id |-> Required("ID"), employeeID |-> Required("ID"),
                 content |-> Required("String"), updatedAt |-> Required("String"),
                 deleted |-> Required("Boolean")],
   Employee |-> [id |-> Required("ID"), todos |-> RequiredList("Todo")]]

EmployeeSchema ==
  [Query    |-> [employeeByID |-> Optional("Employee"),
                 employees |-> RequiredList("Employee")],
   Mutation |-> [updateEmployee |-> Required("Employee")],
   Employee |-> [id |-> Required("ID"), name |-> Required("String"),
                 salary |-> Required("Int")]]

DemoSchema ==
  [Query    |-> [publicInfo |-> Required("String"), me |-> Optional("User")],
   Mutation |-> [createPost |-> Optional("Post")],
   Post     |-> [id |-> Required("ID"), title |-> Required("String"),
                 authorID |-> Required("ID")],
   User     |-> [id |-> Required("ID"), name |-> Required("String"),
                 roles |-> RequiredList("String")]]

\* federation/entity.graphql, which gqlgen adds to the two subgraphs.
FederationSchema ==
  [Query    |-> [_entities |-> ListOfOptional("_Entity"),
                 _service |-> Required("_Service")],
   _Service |-> [sdl |-> Optional("String")]]

\* The introspection types of the GraphQL specification.
IntrospectionSchema ==
  [Query |-> [__schema |-> Required("__Schema"), __type |-> Optional("__Type")],
   __Schema |->
     [description |-> Optional("String"), types |-> RequiredList("__Type"),
      queryType |-> Required("__Type"), mutationType |-> Optional("__Type"),
      subscriptionType |-> Optional("__Type"),
      directives |-> RequiredList("__Directive")],
   __Type |->
     [kind |-> Required("__TypeKind"), name |-> Optional("String"),
      description |-> Optional("String"), specifiedByURL |-> Optional("String"),
      fields |-> OptionalList("__Field"), interfaces |-> OptionalList("__Type"),
      possibleTypes |-> OptionalList("__Type"),
      enumValues |-> OptionalList("__EnumValue"),
      inputFields |-> OptionalList("__InputValue"),
      ofType |-> Optional("__Type"), isOneOf |-> Optional("Boolean")],
   __Field |->
     [name |-> Required("String"), description |-> Optional("String"),
      args |-> RequiredList("__InputValue"), type |-> Required("__Type"),
      isDeprecated |-> Required("Boolean"), deprecationReason |-> Optional("String")],
   __InputValue |->
     [name |-> Required("String"), description |-> Optional("String"),
      type |-> Required("__Type"), defaultValue |-> Optional("String"),
      isDeprecated |-> Required("Boolean"), deprecationReason |-> Optional("String")],
   __EnumValue |->
     [name |-> Required("String"), description |-> Optional("String"),
      isDeprecated |-> Required("Boolean"), deprecationReason |-> Optional("String")],
   __Directive |->
     [name |-> Required("String"), description |-> Optional("String"),
      isRepeatable |-> Required("Boolean"),
      locations |-> RequiredList("__DirectiveLocation"),
      args |-> RequiredList("__InputValue")]]

\* A schema with the types and root fields every server adds to it.
Extended(schema, added) ==
  [type \in DOMAIN schema \cup DOMAIN added |->
     IF type \notin DOMAIN added THEN schema[type]
     ELSE IF type \notin DOMAIN schema THEN added[type]
     ELSE [field \in DOMAIN schema[type] \cup DOMAIN added[type] |->
             IF field \in DOMAIN schema[type] THEN schema[type][field]
             ELSE added[type][field]]]

Schema ==
  [todo     |-> Extended(Extended(TodoSchema, FederationSchema), IntrospectionSchema),
   employee |-> Extended(Extended(EmployeeSchema, FederationSchema), IntrospectionSchema),
   demo     |-> Extended(DemoSchema, IntrospectionSchema)]
=============================================================================
