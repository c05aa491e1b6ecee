------------------------------ MODULE TodoStore ------------------------------
(***************************************************************************)
(* The todo subgraph: Resolver (graph/resolver.go), its three mutations    *)
(* (graph/schema.resolvers.go), and the Kafka topic the mutations announce *)
(* themselves on (graph/events.go).                                        *)
(*                                                                         *)
(* A mutation is a goroutine: it changes the maps under r.mu, releases the *)
(* lock, publishes an event and, when publishing fails, takes the lock     *)
(* again and undoes its change.  A region under r.mu is one atomic step;   *)
(* everything between two regions interleaves with the other requests.     *)
(*                                                                         *)
(* Data.  Ids stand for "todo-<n>".  A text and a time stamp are named by  *)
(* the request that wrote them (Seed: NewResolver), so that no two writes  *)
(* look alike.  An employee without a key in todosByEmployee has the empty *)
(* set.                                                                    *)
(***************************************************************************)
EXTENDS Integers, Sequences, FiniteSets

CONSTANTS Employees,         \* employee ids
          Requests,          \* the mutations clients send, each once
          SeedOwner,         \* owner of todo-1 and todo-2 in NewResolver
          Seed, Torn,        \* texts: the seeded one, one read half-written
          None,              \* a request that has no call or event yet
          OneWriterPerTodo,  \* do clients wait for a todo's last mutation?
          MaxRepeats,        \* bound: repeats of events on the topic
          MaxRestarts        \* bound: process restarts

ASSUME SeedAssumption == SeedOwner \in [1..2 -> Employees]
ASSUME TextAssumption ==
  /\ Seed \notin Requests
  /\ Torn \notin Requests \cup {Seed}
ASSUME BoundAssumption ==
  /\ OneWriterPerTodo \in BOOLEAN
  /\ MaxRepeats \in Nat
  /\ MaxRestarts \in Nat

VARIABLES todos,            \* Resolver.todos
          todosByEmployee,  \* Resolver.todosByEmployee
          sequence,         \* Resolver.sequence
          pc,               \* where each request is
          call,             \* its operation, todo id and `original`
          event,            \* the TodoEvent it publishes
          reply,            \* the copy of its todo createTodo answers with
          log,              \* the Kafka topic (one partition per key)
          epoch             \* how often the process was restarted

store == <<todos, todosByEmployee, sequence>>
vars  == <<todos, todosByEmployee, sequence, pc, call, event, reply, log, epoch>>

Ids   == Nat \ {0}
Texts == Requests \cup {Seed}
Todo  == [employee : Employees, content : Texts, updatedAt : Texts,
          deleted : BOOLEAN]

Call == [op : {"create", "update", "delete"}, id : Ids, original : Todo,
         epoch : Nat]

TodoEvent == [by : Requests, type : {"create", "update", "delete"},
              todo : Ids, employee : Employees, content : Texts \cup {Torn},
              deleted : BOOLEAN, epoch : Nat]

Reply == [content : Texts \cup {Torn}, deleted : BOOLEAN]

ASSUME NoneAssumption == None \notin Call \cup TodoEvent \cup Reply

InFlightPCs == {"allocated", "inserted", "reading", "publishing", "rollback",
                "published", "answering"}
FinalPCs    == {"ok", "failed", "rejected", "lost"}

InFlight(r) == pc[r] \in InFlightPCs

\* r's todo id is one of the running process.
Current(r) == call[r] # None /\ call[r].epoch = epoch

-----------------------------------------------------------------------------
SeedTodo(n) == [employee |-> SeedOwner[n], content |-> Seed,
                updatedAt |-> Seed, deleted |-> FALSE]

SeededTodos == [n \in 1..2 |-> SeedTodo(n)]

SeededIndex == [e \in Employees |-> {n \in 1..2 : SeedOwner[n] = e}]

Init ==
  /\ todos = SeededTodos
  /\ todosByEmployee = SeededIndex
  /\ sequence = 2
  /\ pc    = [r \in Requests |-> "idle"]
  /\ call  = [r \in Requests |-> None]
  /\ event = [r \in Requests |-> None]
  /\ reply = [r \in Requests |-> None]
  /\ log = <<>>
  /\ epoch = 0

GoTo(r, label) == pc' = [pc EXCEPT ![r] = label]

\* upsertEmployeeIndexNoLock and removeEmployeeIndexNoLock.
Indexed(e, id)   == [todosByEmployee EXCEPT ![e] = @ \cup {id}]
Unindexed(e, id) == [todosByEmployee EXCEPT ![e] = @ \ {id}]

\* The event publishTodoEvent builds for r from a todo.
EventFor(r, type, id, todo) ==
  [by |-> r, type |-> type, todo |-> id, employee |-> todo.employee,
   content |-> todo.content, deleted |-> todo.deleted, epoch |-> epoch]

\* Whether clients let a mutation of this todo start now.
Available(id) ==
  OneWriterPerTodo => \A r \in Requests : InFlight(r) => call[r].id # id

Found(id) == id \in DOMAIN todos /\ ~todos[id].deleted

\* What an unlocked read of a string finds that began with the pointer of
\* `text` and ends with the length in todo.
TextsRead(text, todo) ==
  {text} \cup (IF todo.content = text THEN {} ELSE {Torn})

-----------------------------------------------------------------------------
(* Faulty variants of the actions below: each is a mistake one could make in *)
(* the code, and breaks a property.  No specification uses them.             *)

\* The id is the number of todos plus one, not a counter's next value.
AllocateFromSize(r, e) ==
  /\ pc[r] = "idle"
  /\ sequence' = sequence + 1
  /\ call' = [call EXCEPT ![r] =
       [op |-> "create", id |-> Cardinality(DOMAIN todos) + 1,
        original |-> [employee |-> e, content |-> r, updatedAt |-> r,
                      deleted |-> FALSE],
        epoch |-> epoch]]
  /\ GoTo(r, "allocated")
  /\ UNCHANGED <<todos, todosByEmployee, event, reply, log, epoch>>

\* A new bucket of the index is not stored.
InsertLosesBucket(r) ==
  LET id == call[r].id  todo == call[r].original
  IN /\ pc[r] = "allocated"
     /\ todos' = [i \in DOMAIN todos \cup {id} |->
                    IF i = id THEN todo ELSE todos[i]]
     /\ todosByEmployee' = IF todosByEmployee[todo.employee] = {}
                           THEN todosByEmployee
                           ELSE Indexed(todo.employee, id)
     /\ GoTo(r, "inserted")
     /\ UNCHANGED <<sequence, call, event, reply, log, epoch>>

StartAs(r, op, id, original, after, announced) ==
  /\ pc[r] = "idle"
  /\ Available(id)
  /\ todos' = [todos EXCEPT ![id] = after]
  /\ call' = [call EXCEPT ![r] = [op |-> op, id |-> id,
                                  original |-> original, epoch |-> epoch]]
  /\ event' = [event EXCEPT ![r] = EventFor(r, op, id, announced)]
  /\ GoTo(r, "publishing")
  /\ UNCHANGED <<sequence, reply, log, epoch>>

\* Deleted todos count as found.
StartOnDeleted(r, op, id, after) ==
  id \in DOMAIN todos /\ StartAs(r, op, id, todos[id], after, after)

\* The change is made to a copy of the todo.
StartOnCopy(r, op, id, after) ==
  Found(id) /\ StartAs(r, op, id, todos[id], todos[id], after)

\* `original` is cloned after the change.
StartSavesLate(r, op, id, after) ==
  Found(id) /\ StartAs(r, op, id, after, after, after)

\* The event is built from `original`.
StartAnnouncesOriginal(r, op, id, after) ==
  Found(id) /\ StartAs(r, op, id, todos[id], after, todos[id])

\* A failed create gives its id back.
RollBackCreateReturnsId(r) ==
  LET id == call[r].id
  IN /\ pc[r] = "rollback" /\ call[r].op = "create"
     /\ todos' = [i \in DOMAIN todos \ {id} |-> todos[i]]
     /\ todosByEmployee' = Unindexed(call[r].original.employee, id)
     /\ sequence' = sequence - 1
     /\ GoTo(r, "failed")
     /\ UNCHANGED <<call, event, reply, log, epoch>>

\* The index is restored whether or not the todo still exists.
RollBackDeleteUnchecked(r) ==
  LET id == call[r].id  original == call[r].original
  IN /\ pc[r] = "rollback" /\ call[r].op = "delete"
     /\ todos' = [todos EXCEPT ![id].updatedAt = original.updatedAt,
                               ![id].deleted = original.deleted]
     /\ todosByEmployee' = Indexed(original.employee, id)
     /\ GoTo(r, "failed")
     /\ UNCHANGED <<sequence, call, event, reply, log, epoch>>

\* The index is not restored.
RollBackDeleteKeepsIndex(r) ==
  LET id == call[r].id  original == call[r].original
  IN /\ pc[r] = "rollback" /\ call[r].op = "delete"
     /\ todos' = [todos EXCEPT ![id].updatedAt = original.updatedAt,
                               ![id].deleted = original.deleted]
     /\ GoTo(r, "failed")
     /\ UNCHANGED <<todosByEmployee, sequence, call, event, reply, log, epoch>>

\* A failed write is tried again for ever.
PublishFailsNever(r) == pc[r] = "publishing" /\ UNCHANGED vars

-----------------------------------------------------------------------------
(* CreateTodo *)

\* The Todo is built outside the lock; only the id comes from shared state.
AllocateTodo(r, e) ==
  /\ pc[r] = "idle"
  /\ sequence' = sequence + 1
  /\ call' = [call EXCEPT ![r] =
       [op |-> "create", id |-> sequence + 1,
        original |-> [employee |-> e, content |-> r, updatedAt |-> r,
                      deleted |-> FALSE],
        epoch |-> epoch]]
  /\ GoTo(r, "allocated")
  /\ UNCHANGED <<todos, todosByEmployee, event, reply, log, epoch>>

InsertTodo(r) ==
  LET id == call[r].id  todo == call[r].original
  IN /\ pc[r] = "allocated"
     /\ todos' = [i \in DOMAIN todos \cup {id} |->
                    IF i = id THEN todo ELSE todos[i]]
     /\ todosByEmployee' = Indexed(todo.employee, id)
     /\ GoTo(r, "inserted")
     /\ UNCHANGED <<sequence, call, event, reply, log, epoch>>

\* publishTodoEvent reads the todo that is in the map by now, without the
\* lock: first the pointer of the Content string ...
ReadTodoText(r) ==
  LET id == call[r].id
  IN /\ pc[r] = "inserted"
     /\ event' = [event EXCEPT ![r] = EventFor(r, "create", id, todos[id])]
     /\ GoTo(r, "reading")
     /\ UNCHANGED <<store, call, reply, log, epoch>>

\* ... then its length, which may be that of a text written since, and
\* Deleted.
ReadTodoFlags(r) ==
  LET todo == todos[call[r].id]
  IN /\ pc[r] = "reading"
     /\ \E text \in TextsRead(event[r].content, todo) :
          event' = [event EXCEPT ![r].content = text,
                                 ![r].deleted = todo.deleted]
     /\ GoTo(r, "publishing")
     /\ UNCHANGED <<store, call, reply, log, epoch>>

\* Once published, cloneTodo copies the live todo for the answer, again
\* without the lock: first the pointer of Content ...
CloneTodoText(r) ==
  LET todo == todos[call[r].id]
  IN /\ pc[r] = "published"
     /\ reply' = [reply EXCEPT ![r] = [content |-> todo.content,
                                       deleted |-> todo.deleted]]
     /\ GoTo(r, "answering")
     /\ UNCHANGED <<store, call, event, log, epoch>>

\* ... then its length and Deleted.
CloneTodoFlags(r) ==
  LET todo == todos[call[r].id]
  IN /\ pc[r] = "answering"
     /\ \E text \in TextsRead(reply[r].content, todo) :
          reply' = [reply EXCEPT ![r] = [content |-> text,
                                         deleted |-> todo.deleted]]
     /\ GoTo(r, "ok")
     /\ UNCHANGED <<store, call, event, log, epoch>>

RollBackCreate(r) ==
  LET id == call[r].id
  IN /\ pc[r] = "rollback" /\ call[r].op = "create"
     /\ todos' = [i \in DOMAIN todos \ {id} |-> todos[i]]
     /\ todosByEmployee' = Unindexed(call[r].original.employee, id)
     /\ GoTo(r, "failed")
     /\ UNCHANGED <<sequence, call, event, reply, log, epoch>>

-----------------------------------------------------------------------------
(* UpdateTodo and DeleteTodo *)

\* The locked region both begin with; `after` is the todo they leave.
Start(r, op, id, after) ==
  /\ pc[r] = "idle"
  /\ Available(id)
  /\ Found(id)
  /\ todos' = [todos EXCEPT ![id] = after]
  /\ call' = [call EXCEPT ![r] = [op |-> op, id |-> id,
                                  original |-> todos[id], epoch |-> epoch]]
  /\ event' = [event EXCEPT ![r] = EventFor(r, op, id, after)]
  /\ GoTo(r, "publishing")
  /\ UNCHANGED <<sequence, reply, log, epoch>>

UpdateTodo(r, id) ==
  /\ Start(r, "update", id,
           [todos[id] EXCEPT !.content = r, !.updatedAt = r])
  /\ UNCHANGED todosByEmployee

DeleteTodo(r, id) ==
  /\ Start(r, "delete", id,
           [todos[id] EXCEPT !.deleted = TRUE, !.updatedAt = r])
  /\ todosByEmployee' = Unindexed(todos[id].employee, id)

\* The todo is unknown or deleted: an error, and nothing else happens.
RejectMutation(r, id) ==
  /\ pc[r] = "idle"
  /\ Available(id)
  /\ ~Found(id)
  /\ GoTo(r, "rejected")
  /\ UNCHANGED <<store, call, event, reply, log, epoch>>

RollBackUpdate(r) ==
  LET id == call[r].id  original == call[r].original
  IN /\ pc[r] = "rollback" /\ call[r].op = "update"
     /\ IF id \in DOMAIN todos
        THEN todos' = [todos EXCEPT ![id].content = original.content,
                                    ![id].updatedAt = original.updatedAt,
                                    ![id].deleted = original.deleted]
        ELSE UNCHANGED todos
     /\ GoTo(r, "failed")
     /\ UNCHANGED <<todosByEmployee, sequence, call, event, reply, log, epoch>>

RollBackDelete(r) ==
  LET id == call[r].id  original == call[r].original
  IN /\ pc[r] = "rollback" /\ call[r].op = "delete"
     /\ IF id \in DOMAIN todos
        THEN /\ todos' = [todos EXCEPT ![id].updatedAt = original.updatedAt,
                                       ![id].deleted = original.deleted]
             /\ todosByEmployee' = Indexed(todos[id].employee, id)
        ELSE UNCHANGED <<todos, todosByEmployee>>
     /\ GoTo(r, "failed")
     /\ UNCHANGED <<sequence, call, event, reply, log, epoch>>

-----------------------------------------------------------------------------
(* Kafka and the process *)

Copies(r) == Cardinality({i \in DOMAIN log : log[i].by = r})

\* A copy of an event that is on the topic already: it has the event_id of
\* the earlier copy.
IsRepeat(i) == \E j \in DOMAIN log : j < i /\ log[j].by = log[i].by

\* The broker appends r's event: before WriteMessages returns, and again
\* when the writer retries.  The writer is not idempotent and a batch
\* outlives the context of the call that waits for it, so a copy may also
\* come from an attempt that timed out, after a later attempt was
\* acknowledged or the writer gave up, and after the todo's next event.
KafkaAppend(r) ==
  /\ pc[r] \in {"publishing", "rollback", "failed", "lost",
                "published", "answering", "ok"}
  /\ event[r] # None
  /\ Copies(r) > 0 => Cardinality({i \in DOMAIN log : IsRepeat(i)}) < MaxRepeats
  /\ log' = Append(log, event[r])
  /\ UNCHANGED <<store, pc, call, event, reply, epoch>>

\* updateTodo and deleteTodo answer with the copy they published.
PublishSucceeds(r) ==
  /\ pc[r] = "publishing"
  /\ Copies(r) > 0
  /\ GoTo(r, IF call[r].op = "create" THEN "published" ELSE "ok")
  /\ UNCHANGED <<store, call, event, reply, log, epoch>>

PublishFails(r) ==
  /\ pc[r] = "publishing"
  /\ GoTo(r, "rollback")
  /\ UNCHANGED <<store, call, event, reply, log, epoch>>

\* The process dies and NewResolver runs again; the topic survives.
Restart ==
  /\ epoch < MaxRestarts
  /\ epoch' = epoch + 1
  /\ todos' = SeededTodos
  /\ todosByEmployee' = SeededIndex
  /\ sequence' = 2
  /\ pc' = [r \in Requests |-> IF InFlight(r) THEN "lost" ELSE pc[r]]
  /\ event' = [r \in Requests |-> IF pc[r] = "reading" THEN None ELSE event[r]]
  /\ UNCHANGED <<call, reply, log>>

-----------------------------------------------------------------------------
\* What the process itself does next for r.
Continue(r) ==
  \/ InsertTodo(r) \/ ReadTodoText(r) \/ ReadTodoFlags(r)
  \/ PublishSucceeds(r) \/ PublishFails(r)
  \/ CloneTodoText(r) \/ CloneTodoFlags(r)
  \/ RollBackCreate(r) \/ RollBackUpdate(r) \/ RollBackDelete(r)

\* An unknown id is as good as one not handed out yet.
Begin(r) ==
  \/ \E e \in Employees : AllocateTodo(r, e)
  \/ \E id \in 1..sequence :
       UpdateTodo(r, id) \/ DeleteTodo(r, id) \/ RejectMutation(r, id)

\* Every request was sent and answered.
AllAnswered ==
  /\ \A r \in Requests : pc[r] \in FinalPCs
  /\ UNCHANGED vars

Next ==
  \/ \E r \in Requests : Begin(r) \/ Continue(r) \/ KafkaAppend(r)
  \/ Restart
  \/ AllAnswered

Spec     == Init /\ [][Next]_vars
FairSpec == Spec /\ \A r \in Requests : WF_vars(Continue(r))
-----------------------------------------------------------------------------
(* Queries *)

\* EmployeeTodos and FindEmployeeByID: the ids listTodosByEmployeeNoLock
\* lists.
EmployeeTodos(e) ==
  {id \in todosByEmployee[e] : id \in DOMAIN todos /\ ~todos[id].deleted}

\* TodoByID and FindTodoByID answer with a todo, not null.
TodoByID(id) == Found(id)

-----------------------------------------------------------------------------
(* Properties *)

Calls(op, id) ==
  {r \in Requests : Current(r) /\ call[r].op = op /\ call[r].id = id}

\* Types of the variables.
TypeOK ==
  /\ DOMAIN todos \subseteq Ids
  /\ todos \in [DOMAIN todos -> Todo]
  /\ todosByEmployee \in [Employees -> SUBSET Ids]
  /\ sequence \in Nat
  /\ pc \in [Requests -> {"idle"} \cup InFlightPCs \cup FinalPCs]
  /\ call \in [Requests -> Call \cup {None}]
  /\ event \in [Requests -> TodoEvent \cup {None}]
  /\ reply \in [Requests -> Reply \cup {None}]
  /\ log \in Seq(TodoEvent)
  /\ epoch \in Nat

\* Whatever the interleaving of mutations, failures and restarts, an id
\* indexed under an employee is a todo of that employee that exists and is
\* not deleted: listTodosByEmployeeNoLock never has to skip one.
IndexSound ==
  \A e \in Employees : \A id \in todosByEmployee[e] :
    /\ id \in DOMAIN todos
    /\ todos[id].employee = e
    /\ ~todos[id].deleted

\* A todo that todoByID shows and employeeTodos does not is the work of one
\* race only: an update that failed undid a delete (UpdateTodo's rollback
\* restores Deleted and not the index).
HiddenOnlyByFailedUpdate ==
  \A id \in DOMAIN todos :
    (TodoByID(id) /\ id \notin EmployeeTodos(todos[id].employee)) =>
      /\ \E u \in Calls("update", id) : pc[u] = "failed"
      /\ \E d \in Calls("delete", id) : pc[d] # "failed"

\* A createTodo that answered with an error leaves nothing behind, whatever
\* others did to its todo before the rollback and still undo after it.
FailedCreateLeavesNoTrace ==
  \A r \in Requests :
    (Current(r) /\ pc[r] = "failed" /\ call[r].op = "create") =>
      /\ call[r].id \notin DOMAIN todos
      /\ \A e \in Employees : call[r].id \notin todosByEmployee[e]

\* From the moment createTodo's event can be seen until it fails, the todos
\* of the employee hold the new one (todo-server/readme.md, step 5), unless
\* somebody deletes it; a delete that failed does not count.
CreatedTodoListed ==
  \A r \in Requests :
    ( /\ Current(r)
      /\ pc[r] \in (InFlightPCs \ {"allocated"}) \cup {"ok"}
      /\ call[r].op = "create" ) =>
      \/ call[r].id \in EmployeeTodos(call[r].original.employee)
      \/ \E d \in Calls("delete", call[r].id) : pc[d] # "failed"

\* The text of a create or update that succeeded is only gone if an update
\* that did not fail replaced it, or a failed one that began before it
\* restored what it had seen.
AckedTextSurvives ==
  \A r \in Requests :
    ( /\ Current(r) /\ pc[r] = "ok"
      /\ call[r].op \in {"create", "update"}
      /\ call[r].id \in DOMAIN todos
      /\ todos[call[r].id].content # r ) =>
      \E u \in Calls("update", call[r].id) \ {r} :
        pc[u] = "failed" <=> call[u].original.content # r

\* The text of an update that failed is only there if a second update saw
\* it and failed too, after the first.
FailedTextGone ==
  \A r \in Requests :
    ( /\ Current(r) /\ pc[r] = "failed"
      /\ call[r].op = "update"
      /\ call[r].id \in DOMAIN todos
      /\ todos[call[r].id].content = r ) =>
      \E u \in Calls("update", call[r].id) \ {r} :
        pc[u] = "failed" /\ call[u].original.content = r

\* A delete that succeeded sticks, unless an update of the same todo failed.
AckedDeleteSticks ==
  \A r \in Requests :
    ( /\ Current(r) /\ pc[r] = "ok"
      /\ call[r].op = "delete"
      /\ TodoByID(call[r].id) ) =>
      \E u \in Calls("update", call[r].id) : pc[u] = "failed"

\* What createTodo tells of its todo -- in the event, and later in the answer,
\* both read without the lock -- is the todo as it was created, unless others
\* reached it in between; and the answer takes back what the event says only
\* if a mutation of the todo failed meanwhile.
CreatedReportsTruthful ==
  /\ \A i \in DOMAIN log :
       (log[i].type = "create" /\ log[i].epoch = epoch) =>
         /\ log[i].content # log[i].by => Calls("update", log[i].todo) # {}
         /\ log[i].deleted => Calls("delete", log[i].todo) # {}
  /\ \A r \in Requests :
       (Current(r) /\ pc[r] = "ok" /\ call[r].op = "create") =>
         LET updates == Calls("update", call[r].id)
             deletes == Calls("delete", call[r].id)
             undone  == \E q \in updates \cup deletes : pc[q] = "failed"
         IN /\ reply[r].content # r => updates # {}
            /\ reply[r].deleted => deletes # {}
            /\ (event[r].deleted /\ ~reply[r].deleted) => undone
            /\ (event[r].content # r /\ reply[r].content = r) => undone

\* Two todos created by one process never share an id, in the topic either.
\* (After a restart they do: the sequence starts over and the topic stays.)
IdsUniqueInEpoch ==
  \A i, j \in DOMAIN log :
    ( /\ log[i].type = "create" /\ log[j].type = "create"
      /\ log[i].todo = log[j].todo /\ log[i].epoch = log[j].epoch ) =>
      log[i].by = log[j].by

\* A consumer that skips repeats sees nothing of the todo after i.
IsLast(i, id) ==
  /\ log[i].todo = id /\ ~IsRepeat(i)
  /\ \A j \in DOMAIN log : (j > i /\ log[j].todo = id) => IsRepeat(j)

LastEvent(id) == log[CHOOSE i \in DOMAIN log : IsLast(i, id)]

\* With one writer per todo, the last event about a todo whose mutations
\* all succeeded describes the todo as it is in the map -- for a consumer
\* that skips repeats: the topic may end in a late copy of an older event.
LastEventDescribesTodo ==
  \A id \in DOMAIN todos :
    ( /\ \E i \in DOMAIN log : log[i].todo = id
      /\ \A r \in Requests : (Current(r) /\ call[r].id = id) => pc[r] = "ok" )
      => /\ LastEvent(id).employee = todos[id].employee
         /\ LastEvent(id).content = todos[id].content
         /\ LastEvent(id).deleted = todos[id].deleted

\* Every mutation is answered: WriteMessages returns in the end, and
\* nothing else waits.
EveryRequestAnswered ==
  \A r \in Requests : InFlight(r) ~> (pc[r] \in FinalPCs)
-----------------------------------------------------------------------------
(* The inductive invariant behind TypeOK and IndexSound *)

Creator(r) == Current(r) /\ call[r].op = "create"

\* What a request holds at each label.
LocalsOK ==
  \A r \in Requests :
    /\ InFlight(r) => Current(r)
    /\ call[r] # None => ~call[r].original.deleted /\ call[r].epoch <= epoch
    /\ pc[r] \in {"allocated", "inserted", "reading", "published", "answering"}
         => call[r].op = "create"
    /\ pc[r] = "reading" => event[r] # None
    /\ pc[r] = "answering" => reply[r] # None

\* No id in use is above the sequence, and no two createTodo calls of a
\* process get the same one.
IdsHandedOut ==
  /\ \A id \in DOMAIN todos : id <= sequence
  /\ \A r \in Requests : Creator(r) => call[r].id <= sequence
  /\ \A r, q \in Requests :
       (r # q /\ Creator(r) /\ Creator(q)) => call[r].id # call[q].id

\* The todo of a createTodo call is in the map from the insertion until a
\* rollback, under the employee it was created for, and not before or after.
CreatedInMap ==
  \A r \in Requests : Creator(r) =>
    IF pc[r] \in {"allocated", "failed"}
    THEN call[r].id \notin DOMAIN todos
    ELSE /\ call[r].id \in DOMAIN todos
         /\ todos[call[r].id].employee = call[r].original.employee

\* The map, the index and the locals of the requests agree.  Inductive.
StoreInv ==
  TypeOK /\ IndexSound /\ LocalsOK /\ IdsHandedOut /\ CreatedInMap
=============================================================================
