--------------------------- MODULE MCGraphQLServers ---------------------------
(***************************************************************************)
(* GraphQLServers for TLC: workloads of up to three requests with up to    *)
(* three fields.                                                           *)
(***************************************************************************)
EXTENDS GraphQLAnswers

Query(calls)    == [operation |-> "query", calls |-> calls]
Mutation(calls) == [operation |-> "mutation", calls |-> calls]
Field(name)     == [field |-> name]
ById(name, id)  == [field |-> name, id |-> id]
Entities(reps)  == [field |-> "_entities", representations |-> reps]

UpTo(n, S) == UNION {[1..k -> S] : k \in 0..n}

-----------------------------------------------------------------------------
(* todo-server: one request, as its results do not depend on each other.  The *)
(* representations: entities of both types, one that may not exist, and one   *)
(* of each kind no resolver takes.                                            *)

TodoRepresentations ==
  {[type |-> "Employee", id |-> "1"], [type |-> "Todo", id |-> "todo-1"],
   [type |-> "Todo", id |-> "null"], [type |-> "Post", id |-> "1"],
   [type |-> "none", id |-> "1"]}

TodoRequests ==
  {Query(<<Entities(reps)>>) : reps \in UpTo(3, TodoRepresentations)}
    \cup {Query(<<Entities(<<Scalar>>), ById("todoByID", "todo-1")>>),
          Query(<<Entities(<<[type |-> "Todo", id |-> "bad"]>>)>>),
          Query(<<Field("employeeTodos"), ById("todoByID", "todo-1"), Field("_service")>>),
          Query(<<ById("todoByID", "todo-1"), [field |-> "__type", name |-> "Employee"],
                  Field("__schema")>>),
          Query(<<[field |-> "__type", name |-> "Nobody"], Field("employeeTodos")>>),
          Mutation(<<ById("createTodo", "todo-3"), ById("updateTodo", "todo-3"),
                     ById("deleteTodo", "todo-3")>>)}

-----------------------------------------------------------------------------
(* graphql-server: two employees, an update with two readers, and two updates *)
(* with one.                                                                  *)

MCEmployees == {"emp-1", "emp-2"}

Set(id, sets) == [field |-> "updateEmployee", id |-> id, sets |-> sets]

Both == {"name", "salary"}

Rename == Mutation(<<Set("emp-1", Both)>>)
Twice  == Mutation(<<Set("emp-1", {"name"}), Set("emp-1", Both)>>)
Raise  == Mutation(<<Set("emp-9", Both), Set("emp-1", {"salary"})>>)

One == Query(<<ById("employeeByID", "emp-1")>>)
All == Query(<<Field("employees")>>)
Two == Query(<<ById("employeeByID", "emp-1"), ById("employeeByID", "emp-9")>>)
Some == Query(<<Entities(<<[type |-> "Employee", id |-> "emp-9"],
                           [type |-> "Todo", id |-> "todo-1"],
                           [type |-> "Employee", id |-> "emp-1"]>>)>>)

EmployeeWorkloads ==
  {<<Rename, One, One>>, <<Rename, Some>>, <<Twice, One>>, <<Rename, All>>,
   <<Rename, Rename, One>>, <<Raise, Twice>>, <<Raise, Two>>}

-----------------------------------------------------------------------------
(* demo-opa-graphql: tokens of a seeded and of an unknown user. *)

MCSeeded == [s \in {"user-1", "admin-1"} |->
               IF s = "user-1" THEN {"user"} ELSE {"admin"}]

Tokens == {NoToken, Malformed, Valid("", {"admin"}), Valid("user-1", {}),
           Valid("user-1", {"editor"}), Valid("eve", {"user"}),
           Valid("eve", {"editor"}), Valid("admin-1", {"admin"})}

Post(title) == [field |-> "createPost", title |-> title]

As(t, req) == [operation |-> req.operation, calls |-> req.calls, token |-> t]

DemoRequests ==
  {As(t, req) : t \in Tokens,
                req \in {Query(<<Field("publicInfo"), Field("me")>>),
                         Mutation(<<Post("a"), Post("b")>>)}}

Mine(t) == As(t, Query(<<Field("me")>>))

MineOf(subject) == {Mine(t) : t \in {x \in Tokens : x.form = "valid" /\ x.subject = subject}}

DemoWorkloads ==
  {<<a, b>> : a \in DemoRequests, b \in DemoRequests}
    \cup UNION {[1..3 -> MineOf(subject)] : subject \in {"eve", "user-1"}}

-----------------------------------------------------------------------------
Work(name, requests) == [server |-> name, requests |-> requests]

MCWorkloads ==
  {Work("todo", <<req>>) : req \in TodoRequests}
    \cup {Work("employee", w) : w \in EmployeeWorkloads}
    \cup {Work("demo", w) : w \in DemoWorkloads}

-----------------------------------------------------------------------------
\* Field by field, the generated marshal functions and counts are those the
\* schemas ask for, also where the workloads have no null to show it: no
\* resolver leaves a required field of an object null.  (__schema, required
\* by the specification, is generated as optional; it is never null.)
ASSUME TablesFollowSchema ==
  \A s \in DOMAIN Schema :
    /\ DOMAIN Code[s] = DOMAIN Schema[s]
    /\ \A t \in DOMAIN Schema[s] :
         LET type == Code[s][t] IN
         /\ DOMAIN type.fields = DOMAIN Schema[s][t]
         /\ \A f \in DOMAIN type.fields \ {"__schema"} :
              /\ type.fields[f] = Schema[s][t][f]
              /\ f \in type.counted <=> Schema[s][t][f].required
=============================================================================
