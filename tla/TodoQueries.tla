----------------------------- MODULE TodoQueries -----------------------------
(***************************************************************************)
(* The resolvers of todo-server as its generated code sees them.  Which    *)
(* todos exist, and whether a mutation succeeds, is the matter of          *)
(* TodoStore: here every result is possible that it may have.  All         *)
(* results are copies.                                                     *)
(***************************************************************************)
EXTENDS Federation

TodoNamed(id) ==
  Object("Todo", id, [id |-> Leaf(id), content |-> Leaf("text"), deleted |-> Leaf(FALSE)])

TodoLists == {List(<<>>), List(<<TodoNamed("todo-1")>>),
              List(<<TodoNamed("todo-1"), TodoNamed("todo-2")>>)}

\* listTodosByEmployeeNoLock never fails; an unknown employee has no todos.
EmployeeTodos(r, i) ==
  /\ Starts(r, i, "employeeTodos")
  /\ \E todos \in TodoLists : Update(r, i, Returned(slot[r][i], todos))

TodoByID(r, i) ==
  /\ Starts(r, i, "todoByID")
  /\ \E todo \in {Nil, TodoNamed(Call(r, i).id)} :
       Update(r, i, Returned(slot[r][i], todo))

\* createTodo, updateTodo, deleteTodo: an error or the todo, never neither.
MutateTodo(r, i) ==
  /\ \E field \in {"createTodo", "updateTodo", "deleteTodo"} : Starts(r, i, field)
  /\ \E todo \in {Failed, TodoNamed(Call(r, i).id)} :
       Update(r, i, Returned(slot[r][i], todo))

\* Any id is an employee.
FindEmployee(id, todos) == Object("Employee", id, [id |-> Leaf(id), todos |-> todos])

TodoEntities(rep) ==
  IF ~Resolvable(rep) THEN {Failed}
  ELSE IF rep.type = "Employee"
  THEN {FindEmployee(rep.id, todos) : todos \in TodoLists}
  ELSE {Nil, TodoNamed(rep.id)}

ResolveTodoEntity(r, i) ==
  \E task \in slot[r][i].left :
    LET type == task[1]  k == task[2]
    IN /\ Resolving(r, i, type, k)
       /\ \E entity \in TodoEntities(Rep(r, i, type, k)) :
            EntityReturned(r, i, type, k, entity)

TodoStep(r, i) ==
  /\ server = "todo"
  /\ \/ EmployeeTodos(r, i)
     \/ TodoByID(r, i)
     \/ MutateTodo(r, i)
     \/ ResolveTodoEntity(r, i)
=============================================================================
