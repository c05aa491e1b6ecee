------------------------------ MODULE MCExtAuthz ------------------------------
(***************************************************************************)
(* ExtAuthz for TLC.  Documents over the federated schema: employeeByID    *)
(* and employees (of Employee), its leaves id and salary, its todos and    *)
(* their content, with inline fragments, a named fragment E on Employee    *)
(* and one, Q, on Query.                                                   *)
(***************************************************************************)
EXTENDS ExtAuthz

CONSTANT Denials  \* the policies, each named by what it denies

MCObjectFields == {"employeeByID", "employees", "todos"}

\* Selection sets, to make documents of.
Field(name, sub) == [kind |-> "field",  name |-> name, sub |-> sub]
Inline(sub)      == [kind |-> "inline", name |-> "",   sub |-> sub]
Spreading(name)  == [kind |-> "spread", name |-> name, sub |-> {}]
Leaf(name) == Field(name, {})

UpTo2(S) == {{x, y} : x \in S, y \in S}

EmployeeSelections ==
  {Leaf("id"), Leaf("salary"), Field("todos", {Leaf("content")}),
   Inline({Leaf("salary")}), Inline({Leaf("id"), Leaf("salary")}), Spreading("E")}

Roots ==
  {Field(root, set) : root \in {"employeeByID", "employees"},
                      set \in UpTo2(EmployeeSelections)}

Sets ==
  {{root} : root \in Roots} \cup {{Inline({root})} : root \in Roots}
    \cup {{root, Field("employees", {Leaf("salary")})} : root \in Roots}
    \cup {{root, Spreading("Q")} : root \in Roots} \cup {{Spreading("Q")}}

EBodies == {{Leaf("salary")}, {Leaf("id"), Leaf("salary")},
            {Field("todos", {Leaf("content")})}}

QBodies == {{Field("employeeByID", {Leaf("salary")})},
            {Field("employeeByID", {Leaf("id"), Spreading("E")})}}

RECURSIVE SpreadNames(_)
SpreadNames(set) ==
  {sel.name : sel \in {s \in set : s.kind = "spread"}}
    \cup UNION {SpreadNames(sel.sub) : sel \in set}

\* The fragments an operation needs, with every choice of bodies.
Definitions(op) ==
  LET E == IF "E" \in SpreadNames(op) THEN EBodies ELSE {}
      Q == IF "Q" \in SpreadNames(op) THEN QBodies ELSE {}
  IN CASE E = {} /\ Q = {} -> {<<>>}
       [] E # {} /\ Q = {} -> {[f \in {"E"} |-> e] : e \in E}
       [] OTHER ->
            {[f \in {"E", "Q"} |-> IF f = "E" THEN e ELSE q] :
               e \in EBodies, q \in Q}

\* The selections of a set, and those below them, after the nodes there are.
RECURSIVE Grown(_, _, _)
Grown(nodes, parent, set) ==
  IF set = {} THEN nodes
  ELSE LET sel  == CHOOSE s \in set : TRUE
           mine == Append(nodes, Node(sel.kind, sel.name, parent))
       IN Grown(Grown(mine, Len(mine), sel.sub), parent, set \ {sel})

Defined(nodes, kind, name, set) ==
  LET mine == Append(nodes, Node(kind, name, 0)) IN Grown(mine, Len(mine), set)

RECURSIVE WithFragments(_, _, _)
WithFragments(nodes, fragments, names) ==
  IF names = {} THEN nodes
  ELSE LET f == CHOOSE name \in names : TRUE
       IN WithFragments(Defined(nodes, "fragment", f, fragments[f]),
                        fragments, names \ {f})

RECURSIVE WithOperations(_, _)
WithOperations(nodes, ops) ==
  IF ops = {} THEN nodes
  ELSE LET op == CHOOSE set \in ops : TRUE
       IN WithOperations(Defined(nodes, "operation", "", op), ops \ {op})

Document(ops, fragments) ==
  LET nodes == WithFragments(WithOperations(<<>>, ops), fragments, DOMAIN fragments)
  IN [kind |-> "document", nodes |-> nodes, left |-> DOMAIN nodes]

Documents ==
  UNION {{Document(ops, d) :
            d \in Definitions(op),
            ops \in {{op}, {op, {Field("employees", {Leaf("id")})}}}}
         : op \in Sets}

Wellformed == {doc \in Documents : WellFormed(doc)}

Small == CHOOSE doc \in Wellformed : Fragments(doc) = {}

Post(token, body) ==
  [token |-> token, body |-> body, other |-> "none",
   get |-> FALSE, multipart |-> FALSE]

Plain == [kind : {"none", "notObject", "noQuery", "garbled"}] \cup {Small}

MCRequests ==
  {Post("other", doc) : doc \in Wellformed}
    \cup {Post(token, body) : token \in Tokens, body \in Plain}
    \cup {[Post(token, body) EXCEPT !.multipart = TRUE] :
            token \in Tokens, body \in Plain}
    \cup {[Post(token, body) EXCEPT !.other = other] :
            token \in Tokens, body \in Plain \ {NoBody}, other \in {"empty", "query"}}
    \cup {[Post(token, NoBody) EXCEPT !.get = TRUE] : token \in Tokens}

MCPolicies ==
  { {CASE d = "path"   -> <<"employeeByID", "salary">>
       [] d = "salary" -> <<"salary">>
       [] d = "todos"  -> <<"todos">> : d \in ds} : ds \in Denials }

\* All of them are queries PermittedGoesUpstream and RefusedForCause speak of.
ASSUME AllValid ==
  \A doc \in Wellformed : \A rules \in MCPolicies : Valid(doc, rules)

\* The restriction of salary holds in every operation, for what mutations
\* return and subscriptions push, too (docs/opa-policy-spec.md:235).
SalaryDeniedEverywhere ==
  (Restricted /\ upstream.kind = "document") =>
    \A leaf \in Requested(upstream) :
      leaf.named \/ leaf.path[Len(leaf.path)] # "salary"
=============================================================================
