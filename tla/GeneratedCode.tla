---------------------------- MODULE GeneratedCode ----------------------------
(***************************************************************************)
(* What gqlgen wrote into graph/generated/generated.go of the three        *)
(* GraphQL servers, as tables: for each object type the marshal function   *)
(* of each field, and the fields whose Null its function counts in         *)
(* out.Invalids, which makes the whole object Null.                        *)
(*                                                                         *)
(* The servers are "todo" (todo-server), "employee" (graphql-server) and   *)
(* "demo" (demo-opa-graphql).  The code for introspection is the same in   *)
(* the three; it is taken from todo-server.                                *)
(***************************************************************************)
EXTENDS TLC

\* A marshal function by the type in its name: marshalOT, marshalNT, and those
\* of [T!], [T!]! and [T]!.
O(type)      == [of |-> type, list |-> FALSE, items |-> FALSE, required |-> FALSE]
N(type)      == [of |-> type, list |-> FALSE, items |-> FALSE, required |-> TRUE]
OList(type)  == [of |-> type, list |-> TRUE,  items |-> TRUE,  required |-> FALSE]
NList(type)  == [of |-> type, list |-> TRUE,  items |-> TRUE,  required |-> TRUE]
NListO(type) == [of |-> type, list |-> TRUE,  items |-> FALSE, required |-> TRUE]

\* The marshal function of a list's items.
Item(shape) == IF shape.items THEN N(shape.of) ELSE O(shape.of)

Type(fields, counted) == [fields |-> fields, counted |-> counted]

-----------------------------------------------------------------------------
(* Introspection and federation *)

DirectiveFields ==
  [name |-> N("String"), description |-> O("String"),
   isRepeatable |-> N("Boolean"), locations |-> NList("__DirectiveLocation"),
   args |-> NList("__InputValue")]

DirectiveCounted == {"name", "isRepeatable", "locations", "args"}

EnumValueFields ==
  [name |-> N("String"), description |-> O("String"),
   isDeprecated |-> N("Boolean"), deprecationReason |-> O("String")]

EnumValueCounted == {"name", "isDeprecated"}

FieldFields ==
  [name |-> N("String"), description |-> O("String"),
   args |-> NList("__InputValue"), type |-> N("__Type"),
   isDeprecated |-> N("Boolean"), deprecationReason |-> O("String")]

FieldCounted == {"name", "args", "type", "isDeprecated"}

InputValueFields ==
  [name |-> N("String"), description |-> O("String"), type |-> N("__Type"),
   defaultValue |-> O("String"), isDeprecated |-> N("Boolean"),
   deprecationReason |-> O("String")]

InputValueCounted == {"name", "type", "isDeprecated"}

SchemaFields ==
  [description |-> O("String"), types |-> NList("__Type"),
   queryType |-> N("__Type"), mutationType |-> O("__Type"),
   subscriptionType |-> O("__Type"), directives |-> NList("__Directive")]

SchemaCounted == {"types", "queryType", "directives"}

TypeNameFields ==
  [kind |-> N("__TypeKind"), name |-> O("String"), description |-> O("String"),
   specifiedByURL |-> O("String")]

TypeMemberFields ==
  [fields |-> OList("__Field"), interfaces |-> OList("__Type"),
   possibleTypes |-> OList("__Type"), enumValues |-> OList("__EnumValue"),
   inputFields |-> OList("__InputValue")]

TypeWrapperFields == [ofType |-> O("__Type"), isOneOf |-> O("Boolean")]

TypeCounted == {"kind"}

IntrospectionTypes ==
  [__Directive  |-> Type(DirectiveFields, DirectiveCounted),
   __EnumValue  |-> Type(EnumValueFields, EnumValueCounted),
   __Field      |-> Type(FieldFields, FieldCounted),
   __InputValue |-> Type(InputValueFields, InputValueCounted),
   __Schema     |-> Type(SchemaFields, SchemaCounted),
   __Type       |-> Type(TypeNameFields @@ TypeMemberFields @@ TypeWrapperFields,
                         TypeCounted)]

\* _Query___type and _Query___schema.
IntrospectionRoots == [__type |-> O("__Type"), __schema |-> O("__Schema")]

\* _Query__entities and _Query__service.
FederationRoots == [_entities |-> NListO("_Entity"), _service |-> N("_Service")]

ServiceFields == [sdl |-> O("String")]

\* __Service counts nothing.
ServiceCounted == {}

-----------------------------------------------------------------------------
(* todo-server *)

TodoQueryFields == [employeeTodos |-> NList("Todo"), todoByID |-> O("Todo")]

TodoQueryCounted == {"employeeTodos", "_entities", "_service"}

TodoMutationFields ==
  [createTodo |-> N("Todo"), updateTodo |-> N("Todo"), deleteTodo |-> N("Todo")]

TodoMutationCounted == {"createTodo", "updateTodo", "deleteTodo"}

TodoFields ==
  [id |-> N("ID"), employeeID |-> N("ID"), content |-> N("String"),
   updatedAt |-> N("String"), deleted |-> N("Boolean")]

TodoCounted == {"id", "employeeID", "content", "updatedAt", "deleted"}

TodoEmployeeFields == [id |-> N("ID"), todos |-> NList("Todo")]

TodoEmployeeCounted == {"id", "todos"}

TodoTypes ==
  [Query    |-> Type(TodoQueryFields @@ FederationRoots @@ IntrospectionRoots,
                     TodoQueryCounted),
   Mutation |-> Type(TodoMutationFields, TodoMutationCounted),
   Todo     |-> Type(TodoFields, TodoCounted),
   Employee |-> Type(TodoEmployeeFields, TodoEmployeeCounted),
   _Service |-> Type(ServiceFields, ServiceCounted)]

-----------------------------------------------------------------------------
(* graphql-server *)

EmployeeQueryFields ==
  [employeeByID |-> O("Employee"), employees |-> NList("Employee")]

EmployeeFederationRoots ==
  [_entities |-> NListO("_Entity"), _service |-> N("_Service")]

EmployeeQueryCounted == {"employees", "_entities", "_service"}

EmployeeMutationFields == [updateEmployee |-> N("Employee")]

EmployeeMutationCounted == {"updateEmployee"}

EmployeeFields == [id |-> N("ID"), name |-> N("String"), salary |-> N("Int")]

EmployeeCounted == {"id", "name", "salary"}

EmployeeTypes ==
  [Query    |-> Type(EmployeeQueryFields @@ EmployeeFederationRoots
                       @@ IntrospectionRoots, EmployeeQueryCounted),
   Mutation |-> Type(EmployeeMutationFields, EmployeeMutationCounted),
   Employee |-> Type(EmployeeFields, EmployeeCounted),
   _Service |-> Type(ServiceFields, ServiceCounted)]

-----------------------------------------------------------------------------
(* demo-opa-graphql *)

DemoQueryFields == [publicInfo |-> N("String"), me |-> O("User")]

DemoQueryCounted == {"publicInfo"}

DemoMutationFields == [createPost |-> O("Post")]

\* _Mutation counts nothing: createPost may be null.
DemoMutationCounted == {}

PostFields == [id |-> N("ID"), title |-> N("String"), authorID |-> N("ID")]

PostCounted == {"id", "title", "authorID"}

UserFields == [id |-> N("ID"), name |-> N("String"), roles |-> NList("String")]

UserCounted == {"id", "name", "roles"}

DemoTypes ==
  [Query    |-> Type(DemoQueryFields @@ IntrospectionRoots, DemoQueryCounted),
   Mutation |-> Type(DemoMutationFields, DemoMutationCounted),
   Post     |-> Type(PostFields, PostCounted),
   User     |-> Type(UserFields, UserCounted)]

-----------------------------------------------------------------------------
Code == [todo     |-> TodoTypes @@ IntrospectionTypes,
         employee |-> EmployeeTypes @@ IntrospectionTypes,
         demo     |-> DemoTypes @@ IntrospectionTypes]

\* _Query calls these in its loop and leaves the others to out.Dispatch.
Synchronous == {"__type", "__schema"}

-----------------------------------------------------------------------------
(* What a resolver returns: Nil, Failed (an error), a leaf, a list, or an    *)
(* object with its type, its key and the selected fields.  A live object is  *)
(* a pointer into the map of graphql-server; its fields are leaves.          *)

Nil    == [kind |-> "nil"]
Failed == [kind |-> "failed"]

Leaf(value) == [kind |-> "leaf", value |-> value]
List(items) == [kind |-> "list", items |-> items]
Live(key)   == [kind |-> "live", type |-> "Employee", key |-> key]

Object(type, key, fields) ==
  [kind |-> "object", type |-> type, key |-> key, fields |-> fields]
=============================================================================
