-------------------------- MODULE GraphQLExecution --------------------------
(***************************************************************************)
(* How a server built by gqlgen carries a request out: Exec, _Query and    *)
(* _Mutation of generated.go, and __resolve_entities of federation.go.     *)
(*                                                                         *)
(* The root fields of a query are goroutines, and so are the               *)
(* representations of an _entities field; the fields of a mutation run one *)
(* after the other.  A request is answered when all its fields are done.   *)
(*                                                                         *)
(* Only graphql-server hands pointers to shared objects to the marshal     *)
(* functions, which read them word by word without a lock; elsewhere a     *)
(* field is done when its resolver has returned.                           *)
(***************************************************************************)
EXTENDS GraphQLSchemas, Integers, Sequences, FiniteSets

CONSTANTS Workloads,    \* a server and the requests sent to it, each once
          MaxRequests   \* bound: requests of a workload

\* The executor gets what the parser made and the validator let through: a
\* sequence of calls, whose fields the operation's root type has, and of
\* representations.
ASSUME WorkloadAssumption ==
  \A w \in Workloads :
    /\ w.server \in {"todo", "employee", "demo"}
    /\ DOMAIN w.requests \subseteq 1..MaxRequests
    /\ \A r \in DOMAIN w.requests :
         LET req == w.requests[r]
             root == IF req.operation = "mutation" THEN "Mutation" ELSE "Query"
         IN /\ DOMAIN req.calls = 1..Len(req.calls)
            /\ \A i \in DOMAIN req.calls :
                 /\ req.calls[i].field \in DOMAIN Schema[w.server][root]
                 /\ req.calls[i].field = "_entities" =>
                      LET reps == req.calls[i].representations
                      IN Len(reps) \in Nat /\ DOMAIN reps = 1..Len(reps)

VARIABLES workload,
          phase,     \* of each request: "new", "running", "answered", "refused"
          slot,      \* of each request, one record for each of its fields
          after      \* of each request, those answered when it began

execVars == <<workload, phase, slot, after>>

server   == workload.server
Requests == DOMAIN workload.requests

request(r)   == workload.requests[r]
Call(r, i)   == request(r).calls[i]
Fields(r)    == DOMAIN request(r).calls
IsMutation(r) == request(r).operation = "mutation"

EmptySlot == [st |-> "waiting",  \* "resolving", "writing", "marshalling", "done"
              value  |-> Nil,    \* what the resolver returned
              left   |-> {},     \* representations without a result yet
              failed |-> {},     \* those that ended with an error
              shown  |-> {},     \* words read by the marshal functions
              wrote  |-> {}]     \* words written by the resolver

ExecInit ==
  /\ workload \in Workloads
  /\ phase = [r \in Requests |-> "new"]
  /\ slot  = [r \in Requests |-> [i \in Fields(r) |-> EmptySlot]]
  /\ after = [r \in Requests |-> {}]

Answered == {r \in Requests : phase[r] = "answered"}

-----------------------------------------------------------------------------
(* Requests *)

Begin(r) ==
  /\ phase[r] = "new"
  /\ phase' = [phase EXCEPT ![r] = "running"]
  /\ after' = [after EXCEPT ![r] = Answered]
  /\ UNCHANGED <<workload, slot>>

Done(r, i) == slot[r][i].st = "done"

Answer(r) ==
  /\ phase[r] = "running"
  /\ \A i \in Fields(r) : Done(r, i)
  /\ phase' = [phase EXCEPT ![r] = "answered"]
  /\ UNCHANGED <<workload, slot, after>>

Early(r, i) == Call(r, i).field \in Synchronous

\* A faulty variant: the fields of a mutation are started like those of a query.
BeforeInQuery(r, i) ==
  {j \in Fields(r) : Early(r, j) /\ (j < i \/ ~Early(r, i))}

\* The fields that are done before field i starts: in a mutation those before
\* it, in a query the synchronous ones, which its loop calls in their order.
Before(r, i) ==
  {j \in Fields(r) : IF IsMutation(r) THEN j < i
                     ELSE Early(r, j) /\ (j < i \/ ~Early(r, i))}

MayStart(r, i) ==
  /\ phase[r] = "running"
  /\ slot[r][i].st = "waiting"
  /\ \A j \in Before(r, i) : Done(r, j)

Starts(r, i, field) == MayStart(r, i) /\ Call(r, i).field = field

Update(r, i, new) ==
  /\ slot' = [slot EXCEPT ![r][i] = new]
  /\ UNCHANGED <<workload, phase, after>>

-----------------------------------------------------------------------------
(* Results.  A place is 0 for the value itself, or its index in a list. *)

LivePlaces(value) ==
  CASE value.kind = "live" -> {0}
    [] value.kind = "list" -> {k \in DOMAIN value.items : value.items[k].kind = "live"}
    [] OTHER -> {}

\* A string is two words; Go reads and writes each on its own.
Words == {"nameData", "nameLen", "salary"}

Unread(s, place) == Words \ {x.word : x \in {y \in s.shown : y.at = place}}

\* The marshal functions of objects whose words are read are not done yet.
Settled(s) ==
  [s EXCEPT !.st = IF \A p \in LivePlaces(s.value) : Unread(s, p) = {}
                   THEN "done" ELSE "marshalling"]

Returned(s, value) == Settled([s EXCEPT !.value = value])

-----------------------------------------------------------------------------
(* _service, __type and __schema: what is known when the program starts. *)

TypeRefNamed(name) ==
  Object("__Type", name, [kind |-> Leaf("named"), name |-> Leaf(name), ofType |-> Nil])

Wrapped(kind, type) ==
  Object("__Type", kind, [kind |-> Leaf(kind), name |-> Nil, ofType |-> type])

TypeRef(shape) ==
  LET named == TypeRefNamed(shape.of)
      item  == IF shape.items THEN Wrapped("NON_NULL", named) ELSE named
      type  == IF shape.list THEN Wrapped("LIST", item) ELSE named
  IN IF shape.required THEN Wrapped("NON_NULL", type) ELSE type

FieldDescription(name, shape) ==
  Object("__Field", name,
         [name |-> Leaf(name), args |-> List(<<>>), type |-> TypeRef(shape),
          deprecationReason |-> Nil])

IntrospectType(name) ==
  IF name \notin DOMAIN Schema[server] THEN Nil
  ELSE LET fields == Schema[server][name]
           order  == CHOOSE s \in [1..Cardinality(DOMAIN fields) -> DOMAIN fields] :
                       \A f \in DOMAIN fields : \E k \in DOMAIN s : s[k] = f
       IN Object("__Type", name,
                 [kind |-> Leaf("OBJECT"), name |-> Leaf(name), inputFields |-> Nil,
                  fields |-> List([k \in DOMAIN order |->
                                     FieldDescription(order[k], fields[order[k]])])])

IntrospectSchema ==
  Object("__Schema", "schema",
         [types |-> List(<<TypeRefNamed("Query")>>), description |-> Nil,
          subscriptionType |-> IF server = "employee" THEN TypeRefNamed("Subscription")
                               ELSE Nil])

\* __resolve__service.  Introspection is enabled in every server's main.
ServiceSDL == Object("_Service", "sdl", [sdl |-> Leaf("schema")])

ResolveStatic(r, i) ==
  \/ /\ Starts(r, i, "__type")
     /\ Update(r, i, Returned(slot[r][i], IntrospectType(Call(r, i).name)))
  \/ /\ Starts(r, i, "__schema")
     /\ Update(r, i, Returned(slot[r][i], IntrospectSchema))
  \/ /\ Starts(r, i, "_service")
     /\ Update(r, i, Returned(slot[r][i], ServiceSDL))
=============================================================================
