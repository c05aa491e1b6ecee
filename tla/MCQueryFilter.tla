---------------------------- MODULE MCQueryFilter ----------------------------
(***************************************************************************)
(* QueryFilter for TLC.  Queries on the employees of this repository:      *)
(* employeeByID and employees, with their leaves and todos, two fragments  *)
(* on Employee, of which the second has the name the first gets in a       *)
(* context without permission, and one on Query.                           *)
(***************************************************************************)
EXTENDS QueryFilter

MCObjectFields == {"employeeByID", "employees", "todos"}

Leaf(name) == Field(name, NoArg, <<>>)

Salary == <<Leaf("salary")>>

Clash == "F__authz_deny"

\* One or two selections in either order, and F twice.
EmployeeSelections ==
  LET one == {Leaf("id"), Leaf("salary"), Inline(Salary), Spread("F"), Spread(Clash)}
  IN {<<x>> : x \in one}
       \cup {<<p[1], p[2]>> : p \in {p \in one \X one : p[1] # p[2]}}
       \cup {<<Spread("F"), Spread("F")>>,
             <<Field("todos", NoArg, <<Leaf("content")>>), Inline(<<Spread("F")>>)>>}

ByID(arg, set) == Field("employeeByID", arg, set)

Employees(set) == Field("employees", NoArg, set)

Mine == ByID(Literal("1"), <<Spread("F")>>)

\* One root, two roots in either order, an inline fragment, a fragment on Query.
Operations(args) ==
  UNION {{<<ByID(arg, set)>>, <<Mine, ByID(arg, set)>>, <<ByID(arg, set), Mine>>,
          <<Inline(<<ByID(arg, set)>>), Spread("Q")>>,
          <<Employees(set), ByID(arg, <<Spread("F")>>)>>}
         : arg \in args, set \in EmployeeSelections}

Bodies(name) ==
  CASE name = "F"   -> {Salary, <<Leaf("id"), Leaf("salary")>>, <<Spread(Clash)>>}
    [] name = Clash -> {Salary, <<Leaf("id")>>}
    [] name = "Q"   -> {<<ByID(Literal("2"), <<Spread("F")>>)>>}

\* Every choice of bodies for the fragments that are needed.
Fragments(ops) ==
  LET spread == UNION {CollectFragmentSpreads(op.set) : op \in Range(ops)}
      first  == spread \cup (IF "Q" \in spread THEN {"F"} ELSE {})
      Definitions(names) ==
        {d \in [names -> UNION {Bodies(n) : n \in names}] :
           \A n \in names : d[n] \in Bodies(n)}
  IN {d \in Definitions(first) \cup Definitions(first \cup {Clash}) :
        Reached(spread, d) = DOMAIN d}

Named(name, set) == [name |-> name, set |-> set]

Others == {<<>>, <<Named("B", <<ByID(Literal("2"), Salary)>>)>>}

Documents(args, others) ==
  {doc \in UNION {{[operations |-> ops, fragments |-> d] : d \in Fragments(ops)}
                  : ops \in {<<Named("A", set)>> \o other :
                               set \in Operations(args), other \in others}}
     : WellFormed(doc)}

User  == [id |-> "1", role |-> "user"]
Admin == [id |-> "2", role |-> "admin"]

Family(user, given, args, others) ==
  [user |-> user, given |-> given, args |-> args, others |-> others]

\* A variable with and without a default, given or not.
Families ==
  { Family(User, {""}, {Literal("1"), Literal("2"), Number("1")}, Others),
    Family(User, {"", "1"}, {Variable("")}, {<<>>}),
    Family(User, {"", "2"}, {Variable("1")}, {<<>>}),
    Family(Admin, {""}, {Literal("1")}, {<<>>}) }

MCRequests ==
  UNION {{[user |-> f.user, given |-> g, doc |-> d, valid |-> TRUE]
          : g \in f.given, d \in Documents(f.args, f.others)} : f \in Families}
    \cup [user : {User, Admin}, given : {""}, doc : {NoQuery}, valid : {FALSE}]
=============================================================================
