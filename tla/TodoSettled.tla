----------------------------- MODULE TodoSettled -----------------------------
(***************************************************************************)
(* TodoStore implements TodoContract when clients wait for a todo's last   *)
(* mutation (OneWriterPerTodo): a mutation takes effect, for the contract, *)
(* when publishing succeeds.  Until then the contract's state is the one   *)
(* the rollback would restore.                                             *)
(***************************************************************************)
EXTENDS TodoStore

Unsettled(op, id) == {r \in Calls(op, id) : InFlight(r)}

SettledIds == {id \in DOMAIN todos : Unsettled("create", id) = {}}

SettledTodos ==
  [id \in SettledIds |->
     LET pending == Unsettled("update", id) \cup Unsettled("delete", id)
     IN IF pending = {} THEN todos[id]
        ELSE call[CHOOSE r \in pending : TRUE].original]

SettledIndex ==
  [e \in Employees |->
     (todosByEmployee[e] \cap SettledIds)
       \cup {id \in SettledIds :
               /\ Unsettled("delete", id) # {}
               /\ todos[id].employee = e}]

Answer ==
  [r \in Requests |->
     CASE pc[r] = "ok" -> "ok"
       [] pc[r] \in {"failed", "rejected", "lost"} -> "failed"
       [] OTHER -> "none"]

Contract ==
  INSTANCE TodoContract WITH
    todos <- SettledTodos, listed <- SettledIndex, answer <- Answer,
    SeedTodos <- SeededTodos, Ids <- 1..(2 + Cardinality(Requests))

\* Every mutation is atomic to clients that take turns: it succeeds and its
\* whole change (todo and index) stays, or it fails and none of it does,
\* however publishing ends and whatever happens to other todos meanwhile.
ImplementsContract == Contract!Spec
=============================================================================
