---------------------------- MODULE MCPathRewriter ----------------------------
(***************************************************************************)
(* PathRewriter for TLC.  Queries over employeeByID and employees with the *)
(* fragments E on Employee and F on Todo, written as trees; a node's id is *)
(* its place in the document.                                              *)
(***************************************************************************)
EXTENDS PathRewriter

MCObjectFields == {"employeeByID", "employees", "todos"}

\* Selections whose sets are sequences.
Select(kind, name, sub) == [kind |-> kind, name |-> name, sub |-> sub]
Leaf(name)       == Select("field", name, <<>>)
Object(name, s)  == Select("field", name, s)
InlineOf(s)      == Select("inline", "", s)
SpreadOf(name)   == Select("spread", name, <<>>)

\* The ids and the nodes of the tree `set` placed at `at`.
ChildIds(set, at) == [i \in DOMAIN set |-> Append(at, i)]

RECURSIVE Heap(_, _)
Heap(set, at) ==
  UNION {{<<Append(at, i), [set[i] EXCEPT !.sub = ChildIds(@, Append(at, i))]>>}
           \cup Heap(set[i].sub, Append(at, i)) : i \in DOMAIN set}

AsFunction(pairs) ==
  [id \in {p[1] : p \in pairs} |-> (CHOOSE p \in pairs : p[1] = id)[2]]

EmployeeSets ==
  { <<Leaf("id")>>, <<Leaf("id"), Leaf("salary")>>, <<SpreadOf("E")>>,
    <<SpreadOf("E"), Leaf("salary")>>,
    <<InlineOf(<<Leaf("salary")>>), Leaf("id")>>,
    <<Object("todos", <<Leaf("content"), SpreadOf("F")>>), SpreadOf("E")>>,
    <<InlineOf(<<SpreadOf("E")>>), Object("todos", <<Leaf("content")>>)>> }

EBodies ==
  { <<Leaf("salary")>>, <<Leaf("id"), Leaf("salary")>>,
    <<Object("todos", <<Leaf("content")>>)>>,
    <<InlineOf(<<Leaf("salary")>>), Leaf("id")>>,
    <<Object("todos", <<SpreadOf("F"), Leaf("content")>>), Leaf("salary")>> }

\* G is not defined.
FBody == <<Leaf("id"), SpreadOf("G")>>

\* One operation with both root fields, or two operations.
OperationLists ==
  UNION {
    { <<<<Object("employeeByID", s), Object("employees", t)>>>>,
      <<<<Object("employeeByID", s)>>, <<Object("employees", t)>>>> }
    : s \in EmployeeSets, t \in EmployeeSets }

RemovedFields ==
  { {}, {<<"employeeByID", "salary">>}, {<<"employees", "todos", "content">>},
    {<<"employees", "", "salary">>, <<"">>}, {<<"employeeByID", "todos">>},
    {<<"employeeByID", "todos", "id">>, <<"employees", "id">>},
    {<<"employeeByID">>, <<"salary">>} }

Request(ops, e, paths) ==
  [post |-> TRUE, body |-> TRUE, decision |-> TRUE, allow |-> TRUE,
   parses |-> TRUE, removedFields |-> paths,
   operations |-> [i \in DOMAIN ops |-> ChildIds(ops[i], <<"op", i>>)],
   fragments  |-> [f \in {"E", "F"} |->
                     ChildIds(IF f = "E" THEN e ELSE FBody, <<f>>)],
   nodes |-> AsFunction(
     UNION {Heap(ops[i], <<"op", i>>) : i \in DOMAIN ops}
       \cup Heap(e, <<"E">>) \cup Heap(FBody, <<"F">>))]

Good == {Request(ops, e, paths) :
           ops \in OperationLists, e \in EBodies, paths \in RemovedFields}

\* What can be wrong with a request, each alone.
Bad ==
  LET good == CHOOSE r \in Good : TRUE
  IN {[good EXCEPT !.post = FALSE], [good EXCEPT !.body = FALSE],
      [good EXCEPT !.decision = FALSE], [good EXCEPT !.allow = FALSE],
      [good EXCEPT !.parses = FALSE]}

MCRequests == Good \cup Bad
=============================================================================
