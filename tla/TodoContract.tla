----------------------------- MODULE TodoContract -----------------------------
(***************************************************************************)
(* What the todo subgraph's mutations promise to a client that waits for   *)
(* one mutation of a todo before it sends the next: a mutation either      *)
(* takes effect at once and succeeds, or it fails and changes nothing.     *)
(* `listed` is what employeeTodos answers from; it changes together with   *)
(* the todos.                                                              *)
(***************************************************************************)
CONSTANTS Employees, Requests, SeedTodos,
          Ids  \* the ids createTodo may hand out

VARIABLES todos,   \* id -> todo
          listed,  \* employee -> ids of its todos
          answer   \* request -> "none", "ok" or "failed"

vars == <<todos, listed, answer>>

Listing(ts) ==
  [e \in Employees |->
     {id \in DOMAIN ts : ts[id].employee = e /\ ~ts[id].deleted}]

Init ==
  /\ todos = SeedTodos
  /\ listed = Listing(SeedTodos)
  /\ answer = [r \in Requests |-> "none"]

Answered(r, as) ==
  /\ answer[r] = "none"
  /\ answer' = [answer EXCEPT ![r] = as]

\* The todos become ts.
Commit(ts) ==
  /\ todos' = ts
  /\ listed' = Listing(ts)

Live(id) == ~todos[id].deleted

\* An id that is not in use: the todo is the employee's, with r's text.
Create(r, e, id) ==
  /\ id \notin DOMAIN todos
  /\ Commit([i \in DOMAIN todos \cup {id} |->
               IF i = id
               THEN [employee |-> e, content |-> r, updatedAt |-> r,
                     deleted |-> FALSE]
               ELSE todos[i]])

Update(r, id) ==
  /\ Live(id)
  /\ Commit([todos EXCEPT ![id].content = r, ![id].updatedAt = r])

Delete(r, id) ==
  /\ Live(id)
  /\ Commit([todos EXCEPT ![id].deleted = TRUE, ![id].updatedAt = r])

Succeed(r) ==
  /\ Answered(r, "ok")
  /\ \/ \E id \in DOMAIN todos : Update(r, id) \/ Delete(r, id)
     \/ \E e \in Employees, id \in Ids : Create(r, e, id)

Fail(r) == Answered(r, "failed") /\ UNCHANGED <<todos, listed>>

Next == \E r \in Requests : Succeed(r) \/ Fail(r)

Spec == Init /\ [][Next]_vars
=============================================================================
