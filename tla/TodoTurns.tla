------------------------------ MODULE TodoTurns ------------------------------
(***************************************************************************)
(* The inductive invariants behind what TodoStore promises clients that    *)
(* wait for a todo's last mutation, as long as the process runs: that it   *)
(* implements TodoContract, and that the last event about a todo on the    *)
(* topic, repeats aside, describes it.                                     *)
(***************************************************************************)
EXTENDS TodoGuarantees, TodoSettled

ClientsTakeTurns == OneWriterPerTodo /\ MaxRestarts = 0

\* A todo has at most one mutation in flight, and nothing was lost.
OneInFlight ==
  /\ \A r, q \in Requests :
       (InFlight(r) /\ InFlight(q) /\ call[r].id = call[q].id) => r = q
  /\ epoch = 0
  /\ \A r \in Requests : pc[r] # "lost"

\* From its change to its end, a mutation finds the todo as it left it.
HeldOK ==
  \A r \in Requests :
    /\ (Made(r) /\ call[r].op = "create") => call[r].original.updatedAt = r
    /\ (InFlight(r) /\ pc[r] # "allocated") =>
         LET todo == todos[call[r].id]  original == call[r].original
         IN /\ call[r].id \in DOMAIN todos
            /\ todo.employee = original.employee
            /\ todo.content = (IF call[r].op = "delete" THEN original.content
                               ELSE r)
            /\ todo.updatedAt = r
            /\ todo.deleted <=> call[r].op = "delete"

\* Every live todo is indexed (the other half of IndexSound).
LiveListed ==
  \A id \in DOMAIN todos :
    ~todos[id].deleted => id \in todosByEmployee[todos[id].employee]

\* The sequence counts the createTodo calls.
CreatesCounted ==
  sequence <= 2 + Cardinality({r \in Requests : Made(r) /\ call[r].op = "create"})

TurnsInv == OneInFlight /\ HeldOK /\ LiveListed /\ CreatesCounted
-----------------------------------------------------------------------------
(* The last event about a todo, repeats aside *)

Describes(e, todo) ==
  /\ e.employee = todo.employee /\ e.content = todo.content
  /\ e.deleted = todo.deleted

\* No mutation of this todo failed.
NoneFailed(id) ==
  \A r \in Requests :
    (Made(r) /\ call[r].id = id) => pc[r] \notin {"rollback", "failed"}

\* All its mutations were published.
AllPublished(id) ==
  \A r \in Requests :
    (Made(r) /\ call[r].id = id) => pc[r] \in {"published", "answering", "ok"}

EventDescribes(r) ==
  pc[r] \in {"reading", "publishing", "published", "answering"} =>
    Describes(event[r], todos[call[r].id])

\* While r publishes, nobody else's event about its todo arrives for the
\* first time.
OwnEventLast(r, k) ==
  ( /\ pc[r] = "publishing" /\ NoneFailed(call[r].id)
    /\ IsLast(k, call[r].id) /\ \E i \in DOMAIN log : log[i].by = r ) =>
    log[k] = event[r]

LastDescribes(id, k) ==
  (AllPublished(id) /\ IsLast(k, id)) => Describes(log[k], todos[id])

\* WriteMessages returned without an error.
Acknowledged(r) == pc[r] \in {"published", "answering", "ok"}

LastEventsOK ==
  /\ \A i \in DOMAIN log : \E k \in DOMAIN log : IsLast(k, log[i].todo)
  /\ \A r \in Requests, i \in DOMAIN log :
       log[i].by = r => pc[r] \notin {"allocated", "inserted", "reading"}
  /\ \A r \in Requests : Acknowledged(r) => \E i \in DOMAIN log : log[i].by = r
  /\ \A r \in Requests : EventDescribes(r)
  /\ \A r \in Requests, k \in DOMAIN log : OwnEventLast(r, k)
  /\ \A id \in DOMAIN todos, k \in DOMAIN log : LastDescribes(id, k)

TurnsAndEventsInv == TurnsInv /\ LastEventsOK
=============================================================================
