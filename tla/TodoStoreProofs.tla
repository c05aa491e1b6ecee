--------------------------- MODULE TodoStoreProofs ---------------------------
(***************************************************************************)
(* Proofs about TodoStore, for every number of employees, requests,        *)
(* restarts and copies of an event.  StoreInv is inductive, and with it    *)
(* hold the type invariant and IndexSound.  For the guarantees that        *)
(* concern several requests, the second part says what each kind of step   *)
(* does, field by field; the invariants of TodoGuarantees are then kept    *)
(* by every kind.                                                          *)
(***************************************************************************)
EXTENDS TodoGuarantees, TLAPS

USE SeedAssumption, TextAssumption, BoundAssumption

\* What a request can find in the locals it left behind, spelled out for
\* the provers.
LEMMA CallTyped ==
  ASSUME TypeOK, LocalsOK, NEW r \in Requests, InFlight(r)
  PROVE  /\ call[r] \in Call
         /\ Current(r)
         /\ call[r].op \in {"create", "update", "delete"}
         /\ call[r].id \in Ids
         /\ call[r].original \in Todo
         /\ ~call[r].original.deleted
BY DEF TypeOK, LocalsOK, Call, Current

LEMMA CreatorTyped ==
  ASSUME TypeOK, NEW r \in Requests, Creator(r)
  PROVE  call[r] \in Call /\ call[r].id \in Nat
BY DEF TypeOK, Creator, Current, Call, Ids

\* The event built from a todo is a TodoEvent.
LEMMA EventForTyped ==
  ASSUME TypeOK, NEW r \in Requests, NEW type \in {"create", "update", "delete"},
         NEW id \in Ids, NEW todo \in Todo
  PROVE  EventFor(r, type, id, todo) \in TodoEvent
BY DEF TypeOK, EventFor, TodoEvent, Todo, Texts

\* NewResolver's maps.
LEMMA SeedsOK ==
  /\ SeededTodos \in [1..2 -> Todo]
  /\ DOMAIN SeededTodos = 1..2
  /\ SeededIndex \in [Employees -> SUBSET Ids]
  /\ \A e \in Employees : \A id \in SeededIndex[e] :
       /\ id \in DOMAIN SeededTodos
       /\ SeededTodos[id].employee = e
       /\ ~SeededTodos[id].deleted
<1>1. \A n \in 1..2 : SeedTodo(n) \in Todo
  BY DEF SeedTodo, Todo, Texts
<1>2. 1..2 \subseteq Ids
  BY DEF Ids
<1> QED
  BY <1>1, <1>2 DEF SeededTodos, SeededIndex, SeedTodo

LEMMA InitStoreInv == Init => StoreInv
<1> SUFFICES ASSUME Init PROVE StoreInv
  OBVIOUS
<1>1. TypeOK
  <2>1. DOMAIN todos \subseteq Ids /\ todos \in [DOMAIN todos -> Todo]
    BY SeedsOK DEF Init, Ids
  <2>2. log \in Seq(TodoEvent)
    BY DEF Init
  <2> QED
    BY <2>1, <2>2, SeedsOK DEF TypeOK, Init
<1>2. IndexSound
  BY SeedsOK DEF Init, IndexSound
<1>3. \A r \in Requests : pc[r] = "idle" /\ call[r] = None
  BY DEF Init
<1>4. LocalsOK /\ CreatedInMap
  BY <1>3 DEF LocalsOK, CreatedInMap, Creator, Current, InFlight, InFlightPCs
<1>5. IdsHandedOut
  BY <1>3, SeedsOK DEF Init, IdsHandedOut, Creator, Current
<1> QED
  BY <1>1, <1>2, <1>4, <1>5 DEF StoreInv
-----------------------------------------------------------------------------
(* Every step keeps StoreInv: a lemma per action *)

LEMMA AllocateTodoKeeps ==
  ASSUME StoreInv, NEW r \in Requests, NEW e \in Employees, AllocateTodo(r, e)
  PROVE  StoreInv'
<1> USE DEF StoreInv, AllocateTodo, GoTo
<1> DEFINE new == [op |-> "create", id |-> sequence + 1,
                   original |-> [employee |-> e, content |-> r,
                                 updatedAt |-> r, deleted |-> FALSE],
                   epoch |-> epoch]
<1>1. new \in Call /\ sequence' \in Nat
  BY DEF TypeOK, Call, Ids, Todo, Texts
<1>2. call' = [call EXCEPT ![r] = new] /\ pc' = [pc EXCEPT ![r] = "allocated"]
  OBVIOUS
<1>3. TypeOK'
  BY <1>1, <1>2 DEF TypeOK, InFlightPCs
<1>4. IndexSound'
  BY DEF IndexSound
<1>5. \A q \in Requests \ {r} : call'[q] = call[q] /\ pc'[q] = pc[q]
  BY <1>2 DEF TypeOK
<1>6. call'[r] = new /\ pc'[r] = "allocated"
  BY <1>2 DEF TypeOK
<1>7. LocalsOK'
  <2>1. new # None
    BY <1>1, NoneAssumption DEF TypeOK
  <2> QED
    BY <1>5, <1>6, <2>1 DEF LocalsOK, InFlight, Current, TypeOK
<1>8. IdsHandedOut'
  <2>1. \A q \in Requests : Creator(q) => call[q].id \in Nat
    BY CreatorTyped
  <2>2. \A q \in Requests \ {r} : Creator(q)' <=> Creator(q)
    BY <1>5 DEF Creator, Current
  <2>3. \A id \in DOMAIN todos : id \in Nat
    BY DEF TypeOK, Ids
  <2> QED
    BY <1>5, <1>6, <2>1, <2>2, <2>3 DEF IdsHandedOut, TypeOK
<1>9. CreatedInMap'
  <2>1. sequence + 1 \notin DOMAIN todos
    BY DEF IdsHandedOut, TypeOK, Ids
  <2> QED
    BY <1>5, <1>6, <2>1 DEF CreatedInMap, Creator, Current
<1> QED
  BY <1>3, <1>4, <1>7, <1>8, <1>9
LEMMA InsertTodoKeeps ==
  ASSUME StoreInv, NEW r \in Requests, InsertTodo(r)
  PROVE  StoreInv'
<1> USE DEF StoreInv, InsertTodo, GoTo
<1> DEFINE id == call[r].id
           todo == call[r].original
<1>1. InFlight(r) /\ pc[r] = "allocated" /\ call[r].op = "create" /\ Creator(r)
  BY DEF InFlight, InFlightPCs, LocalsOK, Creator
<1>2. id \in Ids /\ todo \in Todo /\ ~todo.deleted /\ todo.employee \in Employees
  BY <1>1, CallTyped DEF Todo
<1>3. id \notin DOMAIN todos /\ id <= sequence
  BY <1>1 DEF CreatedInMap, IdsHandedOut
<1>4. /\ DOMAIN todos' = DOMAIN todos \cup {id}
      /\ todos'[id] = todo
      /\ \A i \in DOMAIN todos : todos'[i] = todos[i]
  BY <1>3
<1>5. /\ todosByEmployee'[todo.employee] = todosByEmployee[todo.employee] \cup {id}
      /\ \A e \in Employees \ {todo.employee} :
           todosByEmployee'[e] = todosByEmployee[e]
  BY <1>2 DEF Indexed, TypeOK
<1>6. \A q \in Requests \ {r} : pc'[q] = pc[q]
  BY DEF TypeOK
<1>7. pc'[r] = "inserted"
  BY DEF TypeOK
<1>8. TypeOK'
  <2>1. todos' \in [DOMAIN todos' -> Todo] /\ DOMAIN todos' \subseteq Ids
    BY <1>2 DEF TypeOK
  <2>2. todosByEmployee' \in [Employees -> SUBSET Ids]
    BY <1>2 DEF TypeOK, Indexed
  <2>3. pc' \in [Requests -> {"idle"} \cup InFlightPCs \cup FinalPCs]
    BY DEF TypeOK, InFlightPCs
  <2> QED
    BY <2>1, <2>2, <2>3 DEF TypeOK
<1>9. IndexSound'
  BY <1>2, <1>3, <1>4, <1>5 DEF IndexSound
<1>10. LocalsOK'
  BY <1>1, <1>6, <1>7 DEF LocalsOK, InFlight, Current
<1>11. \A q \in Requests : Creator(q)' <=> Creator(q)
  BY DEF Creator, Current
<1>12. IdsHandedOut'
  BY <1>3, <1>4, <1>11 DEF IdsHandedOut
<1>13. CreatedInMap'
  <2>1. \A q \in Requests \ {r} : Creator(q) => call[q].id # id
    BY <1>1 DEF IdsHandedOut
  <2> QED
    BY <1>4, <1>6, <1>7, <1>11, <2>1 DEF CreatedInMap
<1> QED
  BY <1>8, <1>9, <1>10, <1>12, <1>13

\* Steps that touch neither the maps nor the calls: a request in flight,
\* its todo in the map, moves on; its event or answer may change.
LEMMA MoveKeeps ==
  ASSUME StoreInv, NEW r \in Requests, NEW label \in InFlightPCs \cup FinalPCs,
         InFlight(r), pc[r] # "allocated",
         label \in {"reading", "publishing", "rollback", "published",
                    "answering", "ok"},
         GoTo(r, label),
         event' \in [Requests -> TodoEvent \cup {None}],
         reply' \in [Requests -> Reply \cup {None}],
         \A q \in Requests \ {r} : event'[q] = event[q] /\ reply'[q] = reply[q],
         label \in {"reading", "published", "answering"} => call[r].op = "create",
         label = "reading" => event'[r] # None,
         label = "answering" => reply'[r] # None,
         UNCHANGED <<todos, todosByEmployee, sequence, call, log, epoch>>
  PROVE  StoreInv'
<1> USE DEF StoreInv, GoTo
<1>1. \A q \in Requests \ {r} : pc'[q] = pc[q]
  BY DEF TypeOK
<1>2. pc'[r] = label
  BY DEF TypeOK
<1>3. TypeOK'
  BY DEF TypeOK, InFlightPCs, FinalPCs
<1>4. IndexSound'
  BY DEF IndexSound
<1>5. LocalsOK'
  BY <1>1, <1>2 DEF LocalsOK, InFlight, Current
<1>6. \A q \in Requests : Creator(q)' <=> Creator(q)
  BY DEF Creator, Current
<1>7. IdsHandedOut'
  BY <1>6 DEF IdsHandedOut
<1>8. CreatedInMap'
  BY <1>1, <1>2, <1>6 DEF CreatedInMap, InFlight, InFlightPCs
<1> QED
  BY <1>3, <1>4, <1>5, <1>7, <1>8

LEMMA ReadTodoTextKeeps ==
  ASSUME StoreInv, NEW r \in Requests, ReadTodoText(r)
  PROVE  StoreInv'
<1> USE DEF StoreInv, ReadTodoText
<1> DEFINE id == call[r].id
           new == EventFor(r, "create", id, todos[id])
<1>1. InFlight(r) /\ call[r].op = "create" /\ Creator(r)
  BY DEF InFlight, InFlightPCs, LocalsOK, Creator
<1>2. id \in Ids /\ id \in DOMAIN todos
  BY <1>1, CallTyped DEF CreatedInMap
<1>3. new \in TodoEvent /\ new # None
  BY <1>2, EventForTyped, NoneAssumption DEF TypeOK
<1>4. event' = [event EXCEPT ![r] = new]
  OBVIOUS
<1>5. /\ event' \in [Requests -> TodoEvent \cup {None}]
      /\ event'[r] = new
      /\ \A q \in Requests \ {r} : event'[q] = event[q]
  BY <1>3, <1>4 DEF TypeOK
<1>6. UNCHANGED <<todos, todosByEmployee, sequence, call, log, epoch>>
  BY DEF store
<1>7. reply' \in [Requests -> Reply \cup {None}] /\ reply' = reply
  BY DEF TypeOK
<1> HIDE DEF new
<1> QED
  BY <1>1, <1>3, <1>5, <1>6, <1>7, MoveKeeps DEF InFlightPCs

LEMMA ReadTodoFlagsKeeps ==
  ASSUME StoreInv, NEW r \in Requests, ReadTodoFlags(r)
  PROVE  StoreInv'
<1> USE DEF StoreInv, ReadTodoFlags
<1> DEFINE id == call[r].id
<1>1. InFlight(r) /\ call[r].op = "create" /\ Creator(r) /\ event[r] # None
  BY DEF InFlight, InFlightPCs, LocalsOK, Creator
<1>2. id \in DOMAIN todos /\ todos[id].deleted \in BOOLEAN
  BY <1>1 DEF CreatedInMap, TypeOK, Todo
<1>3. event[r] \in TodoEvent
  BY <1>1 DEF TypeOK
<1>4. PICK text \in {event[r].content, Torn} :
        event' = [event EXCEPT ![r].content = text,
                               ![r].deleted = todos[id].deleted]
  BY DEF TextsRead
<1>5. text \in Texts \cup {Torn}
  BY <1>3 DEF TodoEvent
<1>6. [event[r] EXCEPT !.content = text, !.deleted = todos[id].deleted] \in TodoEvent
  BY <1>2, <1>3, <1>5 DEF TodoEvent
<1>7. /\ event' \in [Requests -> TodoEvent \cup {None}]
      /\ \A q \in Requests \ {r} : event'[q] = event[q]
  BY <1>4, <1>6 DEF TypeOK
<1>8. UNCHANGED <<todos, todosByEmployee, sequence, call, log, epoch>>
  BY DEF store
<1>9. reply' \in [Requests -> Reply \cup {None}] /\ reply' = reply
  BY DEF TypeOK
<1> QED
  BY <1>1, <1>7, <1>8, <1>9, MoveKeeps DEF InFlightPCs

LEMMA CloneTodoTextKeeps ==
  ASSUME StoreInv, NEW r \in Requests, CloneTodoText(r)
  PROVE  StoreInv'
<1> USE DEF StoreInv, CloneTodoText
<1> DEFINE id == call[r].id
           new == [content |-> todos[id].content, deleted |-> todos[id].deleted]
<1>1. InFlight(r) /\ call[r].op = "create" /\ Creator(r)
  BY DEF InFlight, InFlightPCs, LocalsOK, Creator
<1>2. id \in DOMAIN todos
  BY <1>1 DEF CreatedInMap
<1>3. new \in Reply /\ new # None
  BY <1>2, NoneAssumption DEF TypeOK, Todo, Reply
<1>4. reply' = [reply EXCEPT ![r] = new]
  OBVIOUS
<1>5. /\ reply' \in [Requests -> Reply \cup {None}]
      /\ reply'[r] = new
      /\ \A q \in Requests \ {r} : reply'[q] = reply[q]
  BY <1>3, <1>4 DEF TypeOK
<1>6. UNCHANGED <<todos, todosByEmployee, sequence, call, event, log, epoch>>
  BY DEF store
<1>7. event' \in [Requests -> TodoEvent \cup {None}]
  BY <1>6 DEF TypeOK
<1> HIDE DEF new
<1> QED
  BY <1>1, <1>3, <1>5, <1>6, <1>7, MoveKeeps DEF InFlightPCs

LEMMA CloneTodoFlagsKeeps ==
  ASSUME StoreInv, NEW r \in Requests, CloneTodoFlags(r)
  PROVE  StoreInv'
<1> USE DEF StoreInv, CloneTodoFlags
<1> DEFINE id == call[r].id
<1>1. InFlight(r) /\ call[r].op = "create" /\ Creator(r) /\ reply[r] # None
  BY DEF InFlight, InFlightPCs, LocalsOK, Creator
<1>2. id \in DOMAIN todos /\ todos[id].deleted \in BOOLEAN
  BY <1>1 DEF CreatedInMap, TypeOK, Todo
<1>3. reply[r].content \in Texts \cup {Torn}
  BY <1>1 DEF TypeOK, Reply
<1>4. PICK text \in {reply[r].content, Torn} :
        reply' = [reply EXCEPT ![r] = [content |-> text,
                                       deleted |-> todos[id].deleted]]
  BY DEF TextsRead
<1>5. [content |-> text, deleted |-> todos[id].deleted] \in Reply
  BY <1>2, <1>3 DEF Reply
<1>6. /\ reply' \in [Requests -> Reply \cup {None}]
      /\ \A q \in Requests \ {r} : reply'[q] = reply[q]
  BY <1>4, <1>5 DEF TypeOK
<1>7. UNCHANGED <<todos, todosByEmployee, sequence, call, event, log, epoch>>
  BY DEF store
<1>8. /\ event' \in [Requests -> TodoEvent \cup {None}]
      /\ \A q \in Requests \ {r} : event'[q] = event[q]
  BY <1>7 DEF TypeOK
<1>9. pc[r] = "answering" /\ GoTo(r, "ok")
  OBVIOUS
<1> HIDE DEF StoreInv, CloneTodoFlags
<1> QED
  BY <1>1, <1>6, <1>7, <1>8, <1>9, MoveKeeps DEF InFlightPCs, FinalPCs

LEMMA PublishSucceedsKeeps ==
  ASSUME StoreInv, NEW r \in Requests, PublishSucceeds(r)
  PROVE  StoreInv'
<1> DEFINE label == IF call[r].op = "create" THEN "published" ELSE "ok"
<1> label \in {"published", "ok"} /\ (label = "published" => call[r].op = "create")
  OBVIOUS
<1> HIDE DEF label
<1> QED
  BY MoveKeeps
     DEF PublishSucceeds, label, StoreInv, TypeOK, InFlight, InFlightPCs,
         FinalPCs, store

LEMMA PublishFailsKeeps ==
  ASSUME StoreInv, NEW r \in Requests, PublishFails(r)
  PROVE  StoreInv'
BY MoveKeeps
   DEF PublishFails, StoreInv, TypeOK, InFlight, InFlightPCs, FinalPCs, store

\* UpdateTodo and DeleteTodo: what their locked region does to one todo
\* that is found, whatever `after` keeps of its owner.
LEMMA StartKeeps ==
  ASSUME StoreInv, NEW r \in Requests, NEW op \in {"update", "delete"},
         NEW id \in Ids, NEW after \in Todo,
         Start(r, op, id, after),
         after.employee = todos[id].employee,
         todosByEmployee' = IF op = "delete"
                            THEN Unindexed(todos[id].employee, id)
                            ELSE todosByEmployee,
         op = "update" => ~after.deleted
  PROVE  StoreInv'
<1> USE DEF StoreInv, Start, GoTo
<1> DEFINE new == [op |-> op, id |-> id, original |-> todos[id], epoch |-> epoch]
<1>1. id \in DOMAIN todos /\ ~todos[id].deleted /\ todos[id] \in Todo
  BY DEF Found, TypeOK
<1>2. new \in Call /\ new # None
  BY <1>1, NoneAssumption DEF Call, TypeOK
<1>3. EventFor(r, op, id, after) \in TodoEvent
  BY EventForTyped
<1>4. \A q \in Requests \ {r} : pc'[q] = pc[q] /\ call'[q] = call[q]
                                /\ event'[q] = event[q]
  BY DEF TypeOK
<1>5. pc'[r] = "publishing" /\ call'[r] = new
  BY DEF TypeOK
<1>6. /\ DOMAIN todos' = DOMAIN todos
      /\ todos'[id] = after
      /\ \A i \in DOMAIN todos \ {id} : todos'[i] = todos[i]
      /\ \A i \in DOMAIN todos : todos'[i].employee = todos[i].employee
  BY <1>1 DEF TypeOK
<1>7. TypeOK'
  <2>1. todos' \in [DOMAIN todos' -> Todo] /\ DOMAIN todos' \subseteq Ids
    BY <1>6 DEF TypeOK
  <2>2. todosByEmployee' \in [Employees -> SUBSET Ids]
    BY DEF TypeOK, Unindexed
  <2>3. pc' \in [Requests -> {"idle"} \cup InFlightPCs \cup FinalPCs]
    BY DEF TypeOK, InFlightPCs
  <2>4. call' \in [Requests -> Call \cup {None}]
    BY <1>2 DEF TypeOK
  <2>5. event' \in [Requests -> TodoEvent \cup {None}]
    BY <1>3 DEF TypeOK
  <2> QED
    BY <2>1, <2>2, <2>3, <2>4, <2>5 DEF TypeOK
<1>8. IndexSound'
  <2>1. CASE op = "update"
    BY <2>1, <1>6 DEF IndexSound
  <2>2. CASE op = "delete"
    <3> SUFFICES ASSUME NEW e \in Employees, NEW i \in todosByEmployee'[e]
                 PROVE  /\ i \in DOMAIN todos'
                        /\ todos'[i].employee = e
                        /\ ~todos'[i].deleted
      BY DEF IndexSound
    <3>1. i \in todosByEmployee[e] /\ (e = todos[id].employee => i # id)
      BY <2>2 DEF Unindexed, TypeOK
    <3>2. i # id
      BY <3>1 DEF IndexSound
    <3> QED
      BY <3>1, <3>2, <1>6 DEF IndexSound
  <2> QED
    BY <2>1, <2>2
<1>9. LocalsOK'
  BY <1>1, <1>2, <1>4, <1>5 DEF LocalsOK, InFlight, Current, TypeOK
<1>10. \A q \in Requests : Creator(q)' => q # r /\ Creator(q)
  BY <1>4, <1>5 DEF Creator, Current
<1>11. IdsHandedOut'
  BY <1>4, <1>6, <1>10 DEF IdsHandedOut
<1>12. CreatedInMap'
  BY <1>4, <1>6, <1>10 DEF CreatedInMap
<1> QED
  BY <1>7, <1>8, <1>9, <1>11, <1>12

LEMMA UpdateTodoKeeps ==
  ASSUME StoreInv, NEW r \in Requests, NEW id \in Nat, UpdateTodo(r, id)
  PROVE  StoreInv'
<1> DEFINE after == [todos[id] EXCEPT !.content = r, !.updatedAt = r]
<1>1. id \in DOMAIN todos /\ ~todos[id].deleted /\ todos[id] \in Todo /\ id \in Ids
  BY DEF UpdateTodo, Start, Found, StoreInv, TypeOK
<1>2. /\ after \in Todo
      /\ after.employee = todos[id].employee
      /\ after.deleted = todos[id].deleted
  BY <1>1 DEF Todo, Texts
<1>3. Start(r, "update", id, after) /\ todosByEmployee' = todosByEmployee
  BY DEF UpdateTodo
<1> HIDE DEF after
<1> QED
  BY <1>1, <1>2, <1>3, StartKeeps

LEMMA DeleteTodoKeeps ==
  ASSUME StoreInv, NEW r \in Requests, NEW id \in Nat, DeleteTodo(r, id)
  PROVE  StoreInv'
<1> DEFINE after == [todos[id] EXCEPT !.deleted = TRUE, !.updatedAt = r]
<1>1. id \in DOMAIN todos /\ todos[id] \in Todo /\ id \in Ids
  BY DEF DeleteTodo, Start, Found, StoreInv, TypeOK
<1>2. after \in Todo /\ after.employee = todos[id].employee
  BY <1>1 DEF Todo, Texts
<1>3. /\ Start(r, "delete", id, after)
      /\ todosByEmployee' = Unindexed(todos[id].employee, id)
  BY DEF DeleteTodo
<1> HIDE DEF after
<1> QED
  BY <1>1, <1>2, <1>3, StartKeeps
LEMMA RejectMutationKeeps ==
  ASSUME StoreInv, NEW r \in Requests, NEW id \in Nat, RejectMutation(r, id)
  PROVE  StoreInv'
<1> USE DEF StoreInv, RejectMutation, GoTo, store
<1>1. \A q \in Requests \ {r} : pc'[q] = pc[q]
  BY DEF TypeOK
<1>2. pc'[r] = "rejected"
  BY DEF TypeOK
<1>3. TypeOK'
  BY DEF TypeOK, FinalPCs
<1>4. IndexSound'
  BY DEF IndexSound
<1>5. LocalsOK'
  BY <1>1, <1>2 DEF LocalsOK, InFlight, InFlightPCs, Current
<1>6. \A q \in Requests : Creator(q)' <=> Creator(q)
  BY DEF Creator, Current
<1>7. IdsHandedOut' /\ CreatedInMap'
  BY <1>1, <1>2, <1>6 DEF IdsHandedOut, CreatedInMap
<1> QED
  BY <1>3, <1>4, <1>5, <1>7

\* What the three rollbacks have in common: r fails, and the ids in the map
\* stay, but for the one r created.
LEMMA RollBackKeepsLocals ==
  ASSUME StoreInv, NEW r \in Requests, InFlight(r), GoTo(r, "failed"),
         UNCHANGED <<sequence, call, event, reply, epoch>>,
         DOMAIN todos' \subseteq DOMAIN todos,
         Creator(r) => call[r].id \notin DOMAIN todos',
         \A i \in DOMAIN todos \ DOMAIN todos' : Creator(r) /\ i = call[r].id,
         \A i \in DOMAIN todos' : todos'[i].employee = todos[i].employee
  PROVE  LocalsOK' /\ IdsHandedOut' /\ CreatedInMap'
<1> USE DEF StoreInv, GoTo
<1>1. \A q \in Requests \ {r} : pc'[q] = pc[q]
  BY DEF TypeOK
<1>2. pc'[r] = "failed"
  BY DEF TypeOK
<1>3. LocalsOK'
  BY <1>1, <1>2 DEF LocalsOK, InFlight, InFlightPCs, Current
<1>4. \A q \in Requests : Creator(q)' <=> Creator(q)
  BY DEF Creator, Current
<1>5. IdsHandedOut'
  BY <1>4 DEF IdsHandedOut
<1>6. CreatedInMap'
  <2> SUFFICES ASSUME NEW q \in Requests \ {r}, Creator(q)
               PROVE  IF pc[q] \in {"allocated", "failed"}
                      THEN call[q].id \notin DOMAIN todos'
                      ELSE /\ call[q].id \in DOMAIN todos'
                           /\ todos'[call[q].id].employee = call[q].original.employee
    BY <1>1, <1>2, <1>4 DEF CreatedInMap
  <2>1. Creator(r) => call[q].id # call[r].id
    BY DEF IdsHandedOut
  <2> QED
    BY <2>1 DEF CreatedInMap
<1> QED
  BY <1>3, <1>5, <1>6

LEMMA RollBackCreateKeeps ==
  ASSUME StoreInv, NEW r \in Requests, RollBackCreate(r)
  PROVE  StoreInv'
<1> USE DEF StoreInv, RollBackCreate, GoTo
<1> DEFINE id == call[r].id
           owner == call[r].original.employee
<1>1. InFlight(r) /\ Creator(r) /\ pc[r] \notin {"allocated", "failed"}
  BY CallTyped DEF InFlight, InFlightPCs, Creator
<1>2. id \in DOMAIN todos /\ todos[id].employee = owner
  BY <1>1 DEF CreatedInMap
<1>3. /\ DOMAIN todos' = DOMAIN todos \ {id}
      /\ \A i \in DOMAIN todos' : todos'[i] = todos[i]
  OBVIOUS
<1>4. TypeOK'
  <2>1. todos' \in [DOMAIN todos' -> Todo] /\ DOMAIN todos' \subseteq Ids
    BY <1>3 DEF TypeOK
  <2>2. todosByEmployee' \in [Employees -> SUBSET Ids]
    BY DEF TypeOK, Unindexed
  <2>3. pc' \in [Requests -> {"idle"} \cup InFlightPCs \cup FinalPCs]
    BY DEF TypeOK, FinalPCs
  <2> QED
    BY <2>1, <2>2, <2>3 DEF TypeOK
<1>5. IndexSound'
  <2> SUFFICES ASSUME NEW e \in Employees, NEW i \in todosByEmployee'[e]
               PROVE  /\ i \in DOMAIN todos'
                      /\ todos'[i].employee = e
                      /\ ~todos'[i].deleted
    BY DEF IndexSound
  <2>1. i \in todosByEmployee[e] /\ (e = owner => i # id)
    BY DEF Unindexed, TypeOK
  <2>2. i # id
    BY <1>2, <2>1 DEF IndexSound
  <2> QED
    BY <1>3, <2>1, <2>2 DEF IndexSound
<1>6. LocalsOK' /\ IdsHandedOut' /\ CreatedInMap'
  BY <1>1, <1>3, RollBackKeepsLocals
<1> QED
  BY <1>4, <1>5, <1>6

LEMMA RollBackUpdateKeeps ==
  ASSUME StoreInv, NEW r \in Requests, RollBackUpdate(r)
  PROVE  StoreInv'
<1> USE DEF StoreInv, RollBackUpdate, GoTo
<1> DEFINE id == call[r].id
           original == call[r].original
<1>1. InFlight(r)
  BY DEF InFlight, InFlightPCs
<1>2. id \in Ids /\ original \in Todo /\ ~original.deleted
  BY <1>1, CallTyped
<1>3. /\ DOMAIN todos' = DOMAIN todos
      /\ \A i \in DOMAIN todos :
           /\ todos'[i] \in Todo
           /\ todos'[i].employee = todos[i].employee
           /\ todos'[i].deleted => todos[i].deleted
  <2>1. CASE id \in DOMAIN todos
    <3>1. DOMAIN todos' = DOMAIN todos
      BY <2>1
    <3>2. \A i \in DOMAIN todos \ {id} : todos'[i] = todos[i]
      BY <2>1 DEF TypeOK
    <3>3. todos'[id] = [todos[id] EXCEPT !.content = original.content,
                                         !.updatedAt = original.updatedAt,
                                         !.deleted = original.deleted]
      BY <2>1 DEF TypeOK
    <3>4. todos[id] \in Todo
      BY <2>1 DEF TypeOK
    <3>5. /\ todos'[id] \in Todo
          /\ todos'[id].employee = todos[id].employee
          /\ ~todos'[id].deleted
      BY <1>2, <3>3, <3>4 DEF Todo
    <3> QED
      BY <3>1, <3>2, <3>5 DEF TypeOK
  <2>2. CASE id \notin DOMAIN todos
    BY <2>2 DEF TypeOK
  <2> QED
    BY <2>1, <2>2
<1>4. TypeOK'
  <2>1. todos' \in [DOMAIN todos' -> Todo]
    BY <1>3 DEF TypeOK
  <2>2. pc' \in [Requests -> {"idle"} \cup InFlightPCs \cup FinalPCs]
    BY DEF TypeOK, FinalPCs
  <2> QED
    BY <1>3, <2>1, <2>2 DEF TypeOK
<1>5. IndexSound'
  BY <1>3 DEF IndexSound
<1>6. ~Creator(r)
  BY DEF Creator
<1>7. LocalsOK' /\ IdsHandedOut' /\ CreatedInMap'
  BY <1>1, <1>3, <1>6, RollBackKeepsLocals
<1> QED
  BY <1>4, <1>5, <1>7

LEMMA RollBackDeleteKeeps ==
  ASSUME StoreInv, NEW r \in Requests, RollBackDelete(r)
  PROVE  StoreInv'
<1> USE DEF StoreInv, RollBackDelete, GoTo
<1> DEFINE id == call[r].id
           original == call[r].original
<1>1. InFlight(r)
  BY DEF InFlight, InFlightPCs
<1>2. id \in Ids /\ original \in Todo /\ ~original.deleted
  BY <1>1, CallTyped
<1>3. /\ DOMAIN todos' = DOMAIN todos
      /\ \A i \in DOMAIN todos :
           /\ todos'[i] \in Todo
           /\ todos'[i].employee = todos[i].employee
           /\ todos'[i].deleted => todos[i].deleted
      /\ id \in DOMAIN todos => ~todos'[id].deleted
  <2>1. CASE id \in DOMAIN todos
    <3>1. DOMAIN todos' = DOMAIN todos
      BY <2>1
    <3>2. \A i \in DOMAIN todos \ {id} : todos'[i] = todos[i]
      BY <2>1 DEF TypeOK
    <3>3. todos'[id] = [todos[id] EXCEPT !.updatedAt = original.updatedAt,
                                         !.deleted = original.deleted]
      BY <2>1 DEF TypeOK
    <3>4. todos[id] \in Todo
      BY <2>1 DEF TypeOK
    <3>5. /\ todos'[id] \in Todo
          /\ todos'[id].employee = todos[id].employee
          /\ ~todos'[id].deleted
      BY <1>2, <3>3, <3>4 DEF Todo
    <3> QED
      BY <3>1, <3>2, <3>5 DEF TypeOK
  <2>2. CASE id \notin DOMAIN todos
    BY <2>2 DEF TypeOK
  <2> QED
    BY <2>1, <2>2
<1>4. TypeOK'
  <2>1. todos' \in [DOMAIN todos' -> Todo]
    BY <1>3 DEF TypeOK
  <2>2. todosByEmployee' \in [Employees -> SUBSET Ids]
    BY <1>2 DEF TypeOK, Indexed
  <2>3. pc' \in [Requests -> {"idle"} \cup InFlightPCs \cup FinalPCs]
    BY DEF TypeOK, FinalPCs
  <2> QED
    BY <1>3, <2>1, <2>2, <2>3 DEF TypeOK
<1>5. IndexSound'
  <2>1. CASE id \in DOMAIN todos
    <3> SUFFICES ASSUME NEW e \in Employees, NEW i \in todosByEmployee'[e]
                 PROVE  /\ i \in DOMAIN todos'
                        /\ todos'[i].employee = e
                        /\ ~todos'[i].deleted
      BY DEF IndexSound
    <3>1. i \in todosByEmployee[e] \/ (e = todos[id].employee /\ i = id)
      BY <2>1 DEF Indexed, TypeOK
    <3> QED
      BY <1>3, <2>1, <3>1 DEF IndexSound
  <2>2. CASE id \notin DOMAIN todos
    BY <2>2 DEF IndexSound
  <2> QED
    BY <2>1, <2>2
<1>6. ~Creator(r)
  BY DEF Creator
<1>7. LocalsOK' /\ IdsHandedOut' /\ CreatedInMap'
  BY <1>1, <1>3, <1>6, RollBackKeepsLocals
<1> QED
  BY <1>4, <1>5, <1>7

LEMMA KafkaAppendKeeps ==
  ASSUME StoreInv, NEW r \in Requests, KafkaAppend(r)
  PROVE  StoreInv'
<1> USE DEF StoreInv, KafkaAppend, store
<1>1. event[r] \in TodoEvent
  BY DEF TypeOK
<1>2. TypeOK'
  BY <1>1 DEF TypeOK
<1>3. IndexSound' /\ LocalsOK' /\ IdsHandedOut' /\ CreatedInMap'
  BY DEF IndexSound, LocalsOK, IdsHandedOut, CreatedInMap,
         Creator, Current, InFlight
<1> QED
  BY <1>2, <1>3

LEMMA RestartKeeps ==
  ASSUME StoreInv, Restart
  PROVE  StoreInv'
<1> USE DEF StoreInv, Restart
<1>1. \A r \in Requests : ~InFlight(r)' /\ pc'[r] \notin {"reading", "answering"}
                          /\ pc'[r] \in {"idle"} \cup FinalPCs
  BY DEF TypeOK, InFlight, InFlightPCs, FinalPCs
<1>2. TypeOK'
  <2>1. pc' \in [Requests -> {"idle"} \cup InFlightPCs \cup FinalPCs]
    BY <1>1
  <2>2. event' \in [Requests -> TodoEvent \cup {None}]
    BY DEF TypeOK
  <2>3. DOMAIN todos' \subseteq Ids /\ todos' \in [DOMAIN todos' -> Todo]
    BY SeedsOK DEF Ids
  <2> QED
    BY <2>1, <2>2, <2>3, SeedsOK DEF TypeOK
<1>3. IndexSound'
  BY SeedsOK DEF IndexSound
<1>4. LocalsOK'
  <2>1. \A r \in Requests : call[r] # None => call[r].epoch \in Nat
    BY DEF TypeOK, Call
  <2> QED
    BY <1>1, <2>1 DEF LocalsOK, TypeOK, FinalPCs
<1>5. \A r \in Requests : ~Creator(r)'
  <2>1. \A r \in Requests : call[r] # None => call[r].epoch # epoch + 1
    BY DEF TypeOK, Call, LocalsOK
  <2> QED
    BY <2>1 DEF Creator, Current
<1>6. IdsHandedOut' /\ CreatedInMap'
  BY <1>5, SeedsOK DEF IdsHandedOut, CreatedInMap
<1> QED
  BY <1>2, <1>3, <1>4, <1>6

-----------------------------------------------------------------------------
(* The theorems *)

\* No step of the program, of Kafka or of a restart breaks StoreInv.
THEOREM StoreInvInductive == Spec => []StoreInv
<1>1. StoreInv /\ [Next]_vars => StoreInv'
  <2> SUFFICES ASSUME StoreInv, [Next]_vars PROVE StoreInv'
    OBVIOUS
  <2>1. ASSUME NEW r \in Requests, Begin(r) PROVE StoreInv'
    <3>1. CASE \E e \in Employees : AllocateTodo(r, e)
      BY <3>1, AllocateTodoKeeps
    <3>2. ASSUME NEW id \in 1..sequence,
                 UpdateTodo(r, id) \/ DeleteTodo(r, id) \/ RejectMutation(r, id)
          PROVE  StoreInv'
      <4>1. id \in Nat
        BY DEF StoreInv, TypeOK
      <4> QED
        BY <3>2, <4>1, UpdateTodoKeeps, DeleteTodoKeeps, RejectMutationKeeps
    <3> QED
      BY <2>1, <3>1, <3>2 DEF Begin
  <2>2. ASSUME NEW r \in Requests, Continue(r) PROVE StoreInv'
    BY <2>2, InsertTodoKeeps, ReadTodoTextKeeps, ReadTodoFlagsKeeps,
       PublishSucceedsKeeps, PublishFailsKeeps, CloneTodoTextKeeps,
       CloneTodoFlagsKeeps, RollBackCreateKeeps, RollBackUpdateKeeps,
       RollBackDeleteKeeps DEF Continue
  <2>3. ASSUME NEW r \in Requests, KafkaAppend(r) PROVE StoreInv'
    BY <2>3, KafkaAppendKeeps
  <2>4. CASE Restart
    BY <2>4, RestartKeeps
  <2>5. CASE UNCHANGED vars
    BY <2>5 DEF vars, StoreInv, TypeOK, IndexSound, LocalsOK, IdsHandedOut,
                CreatedInMap, Creator, Current, InFlight
  <2> QED
    BY <2>1, <2>2, <2>3, <2>4, <2>5 DEF Next, AllAnswered
<1> QED
  BY InitStoreInv, <1>1, PTL DEF Spec

\* The variables have their types in every reachable state.
THEOREM TypeCorrect == Spec => []TypeOK
BY StoreInvInductive, PTL DEF StoreInv

\* An id listed under an employee is always a live todo of that employee,
\* for any number of concurrent mutations, publishing failures and restarts.
THEOREM IndexAlwaysSound == Spec => []IndexSound
BY StoreInvInductive, PTL DEF StoreInv

\* So listTodosByEmployeeNoLock never skips an id of the index.
THEOREM ListingIsIndex ==
  Spec => [](\A e \in Employees : EmployeeTodos(e) = todosByEmployee[e])
<1>1. IndexSound => \A e \in Employees : EmployeeTodos(e) = todosByEmployee[e]
  BY DEF IndexSound, EmployeeTodos
<1> QED
  BY IndexAlwaysSound, <1>1, PTL
\* A createTodo that failed leaves neither its todo nor an index entry, as
\* long as the process that answered it runs.
THEOREM FailedCreateGone == Spec => []FailedCreateLeavesNoTrace
<1>1. StoreInv => FailedCreateLeavesNoTrace
  BY DEF StoreInv, CreatedInMap, Creator, IndexSound, FailedCreateLeavesNoTrace
<1> QED
  BY StoreInvInductive, <1>1, PTL

-----------------------------------------------------------------------------
(* The kinds of steps *)

OthersKeep(r) ==
  \A q \in Requests \ {r} : /\ pc'[q] = pc[q] /\ call'[q] = call[q]
                            /\ event'[q] = event[q] /\ reply'[q] = reply[q]

\* What a createTodo call reads of its todo for its event and its answer.
EventRead(r) ==
  /\ pc[r] = "inserted" /\ pc'[r] = "reading" /\ reply' = reply
  /\ event'[r] # None
  /\ event'[r] = EventFor(r, "create", call[r].id, todos[call[r].id])

EventReread(r) ==
  /\ pc[r] = "reading" /\ pc'[r] = "publishing" /\ reply' = reply
  /\ event'[r] # None
  /\ event'[r].by = event[r].by /\ event'[r].type = event[r].type
  /\ event'[r].todo = event[r].todo /\ event'[r].epoch = event[r].epoch
  /\ event'[r].employee = event[r].employee
  /\ \/ event'[r].content = event[r].content
     \/ todos[call[r].id].content # event[r].content
  /\ event'[r].deleted = todos[call[r].id].deleted

ReplyRead(r) ==
  /\ pc[r] = "published" /\ pc'[r] = "answering" /\ event' = event
  /\ reply'[r].content = todos[call[r].id].content
  /\ reply'[r].deleted = todos[call[r].id].deleted

ReplyReread(r) ==
  /\ pc[r] = "answering" /\ pc'[r] = "ok" /\ event' = event
  /\ \/ reply'[r].content = reply[r].content
     \/ /\ reply'[r].content = Torn
        /\ todos[call[r].id].content # reply[r].content
  /\ reply'[r].deleted = todos[call[r].id].deleted

NothingRead(r) ==
  /\ UNCHANGED <<event, reply>>
  /\ \/ pc[r] = "idle" /\ pc'[r] = "rejected"
     \/ pc[r] = "publishing" /\ pc'[r] = "rollback"
     \/ /\ pc[r] = "publishing" /\ Copies(r) > 0
        /\ pc'[r] = (IF call[r].op = "create" THEN "published" ELSE "ok")

\* r goes on without touching the maps, and neither begins nor fails.
Moved(r) ==
  /\ OthersKeep(r)
  /\ UNCHANGED <<todos, todosByEmployee, sequence, call, log, epoch>>
  /\ \/ /\ pc[r] \in {"inserted", "reading", "publishing", "published", "answering"}
        /\ pc'[r] \in (InFlightPCs \ {"allocated", "inserted"}) \cup {"ok"}
     \/ pc[r] = "idle" /\ pc'[r] = "rejected"
  /\ \/ EventRead(r) \/ EventReread(r) \/ ReplyRead(r) \/ ReplyReread(r)
     \/ NothingRead(r)

Appended(r) ==
  /\ UNCHANGED <<todos, todosByEmployee, sequence, pc, call, event, reply, epoch>>
  /\ pc[r] \in {"publishing", "rollback", "failed", "lost",
                "published", "answering", "ok"}
  /\ event[r] # None /\ log' = Append(log, event[r])

Allocated(r, e) ==
  /\ OthersKeep(r)
  /\ UNCHANGED <<todos, todosByEmployee, event, reply, log, epoch>>
  /\ sequence' = sequence + 1
  /\ pc[r] = "idle" /\ pc'[r] = "allocated"
  /\ call'[r] # None
  /\ call'[r] = [op |-> "create", id |-> sequence + 1,
                 original |-> [employee |-> e, content |-> r,
                               updatedAt |-> r, deleted |-> FALSE],
                 epoch |-> epoch]

\* What happens to one todo, and to the index, whatever the others are.
TodoBecomes(id, todo) ==
  /\ id \in DOMAIN todos' /\ todos'[id] = todo
  /\ \A i \in DOMAIN todos \ {id} : i \in DOMAIN todos' /\ todos'[i] = todos[i]
  /\ DOMAIN todos' = DOMAIN todos \cup {id}

ListedUnder(e, id) ==
  \A f \in Employees :
    todosByEmployee'[f] = todosByEmployee[f] \cup (IF f = e THEN {id} ELSE {})

NotListedUnder(e, id) ==
  \A f \in Employees :
    todosByEmployee'[f] = todosByEmployee[f] \ (IF f = e THEN {id} ELSE {})

Inserted(r) ==
  /\ OthersKeep(r)
  /\ UNCHANGED <<sequence, call, event, reply, log, epoch>>
  /\ Creator(r) /\ pc[r] = "allocated" /\ pc'[r] = "inserted"
  /\ call[r].id \notin DOMAIN todos
  /\ call[r].original \in Todo
  /\ TodoBecomes(call[r].id, call[r].original)
  /\ ~call[r].original.deleted
  /\ ListedUnder(call[r].original.employee, call[r].id)

\* op is "update" or "delete", and after the todo it leaves.
Started(r, op, id, after) ==
  /\ OthersKeep(r)
  /\ UNCHANGED <<sequence, reply, log, epoch>>
  /\ pc[r] = "idle" /\ pc'[r] = "publishing"
  /\ Available(id) /\ id \in DOMAIN todos /\ ~todos[id].deleted
  /\ todos[id] \in Todo /\ after \in Todo
  /\ TodoBecomes(id, after)
  /\ after.employee = todos[id].employee
  /\ after.content = (IF op = "update" THEN r ELSE todos[id].content)
  /\ after.updatedAt = r /\ (after.deleted <=> op = "delete")
  /\ IF op = "delete" THEN NotListedUnder(todos[id].employee, id)
     ELSE UNCHANGED todosByEmployee
  /\ call'[r] # None
  /\ call'[r] = [op |-> op, id |-> id, original |-> todos[id], epoch |-> epoch]
  /\ event'[r] # None
  /\ event'[r] = EventFor(r, op, id, after)

CreateUndone(r) ==
  /\ OthersKeep(r)
  /\ UNCHANGED <<sequence, call, event, reply, log, epoch>>
  /\ Creator(r) /\ pc[r] = "rollback" /\ pc'[r] = "failed"
  /\ DOMAIN todos' = DOMAIN todos \ {call[r].id}
  /\ \A i \in DOMAIN todos \ {call[r].id} : todos'[i] = todos[i]
  /\ NotListedUnder(call[r].original.employee, call[r].id)

\* op is "update" or "delete".
ChangeUndone(r, op) ==
  /\ OthersKeep(r)
  /\ UNCHANGED <<sequence, call, event, reply, log, epoch>>
  /\ Current(r) /\ call[r].op = op
  /\ pc[r] = "rollback" /\ pc'[r] = "failed"
  /\ \/ /\ call[r].id \notin DOMAIN todos
        /\ UNCHANGED <<todos, todosByEmployee>>
     \/ \E after \in Todo :
          /\ call[r].id \in DOMAIN todos
          /\ TodoBecomes(call[r].id, after)
          /\ after.employee = todos[call[r].id].employee
          /\ after.content = (IF op = "update" THEN call[r].original.content
                              ELSE todos[call[r].id].content)
          /\ after.updatedAt = call[r].original.updatedAt /\ ~after.deleted
          /\ IF op = "delete" THEN ListedUnder(after.employee, call[r].id)
             ELSE UNCHANGED todosByEmployee

Restarted ==
  /\ epoch < MaxRestarts
  /\ epoch' = epoch + 1
  /\ todos' = SeededTodos /\ todosByEmployee' = SeededIndex /\ sequence' = 2
  /\ UNCHANGED <<call, reply, log>>
  /\ \A r \in Requests :
       /\ pc'[r] = "idle" <=> pc[r] = "idle"
       /\ event'[r] \in {event[r], None}
       /\ ~Current(r)'

LEMMA ReadSteps ==
  ASSUME StoreInv, NEW r \in Requests
  PROVE  /\ ReadTodoText(r) => EventRead(r)
         /\ ReadTodoFlags(r) => EventReread(r)
         /\ CloneTodoText(r) => ReplyRead(r)
         /\ CloneTodoFlags(r) => ReplyReread(r)
<1> USE DEF StoreInv, GoTo
<1> PICK id : id = call[r].id
  OBVIOUS
<1>1. pc[r] \in {"inserted", "reading", "published", "answering"} =>
        /\ id \in DOMAIN todos /\ todos[id] \in Todo /\ id \in Ids
        /\ pc[r] = "reading" => event[r] \in TodoEvent
        /\ pc[r] = "answering" => reply[r] \in Reply
  BY CallTyped DEF InFlight, InFlightPCs, LocalsOK, Creator, CreatedInMap, TypeOK
<1>2. ASSUME ReadTodoText(r) PROVE EventRead(r)
  <2> DEFINE new == EventFor(r, "create", id, todos[id])
  <2>1. new \in TodoEvent /\ new # None
    BY <1>1, <1>2, EventForTyped, NoneAssumption DEF ReadTodoText
  <2>2. event' = [event EXCEPT ![r] = new]
    BY <1>2 DEF ReadTodoText
  <2> HIDE DEF new
  <2>3. event'[r] = new
    BY <2>2 DEF TypeOK
  <2> QED
    BY <1>2, <2>1, <2>3 DEF ReadTodoText, EventRead, TypeOK, new
<1>3. ASSUME ReadTodoFlags(r) PROVE EventReread(r)
  <2>1. event[r] \in TodoEvent /\ todos[id].deleted \in BOOLEAN
    BY <1>1, <1>3 DEF ReadTodoFlags, Todo
  <2>2. PICK text \in TextsRead(event[r].content, todos[id]) :
          event' = [event EXCEPT ![r].content = text,
                                 ![r].deleted = todos[id].deleted]
    BY <1>3 DEF ReadTodoFlags
  <2>3. event'[r] = [event[r] EXCEPT !.content = text,
                                     !.deleted = todos[id].deleted]
    BY <2>2 DEF TypeOK
  <2>4. text \in Texts \cup {Torn}
    BY <2>1 DEF TextsRead, TodoEvent
  <2>5. event'[r] \in TodoEvent
    BY <2>1, <2>3, <2>4 DEF TodoEvent
  <2>6. event'[r] # None
    BY <2>5, NoneAssumption
  <2>7. text = event[r].content \/ todos[id].content # event[r].content
    BY DEF TextsRead
  <2> QED
    BY <1>3, <2>1, <2>3, <2>6, <2>7 DEF ReadTodoFlags, EventReread, TypeOK, TodoEvent
<1>4. ASSUME CloneTodoText(r) PROVE ReplyRead(r)
  BY <1>4 DEF CloneTodoText, ReplyRead, TypeOK
<1>5. ASSUME CloneTodoFlags(r) PROVE ReplyReread(r)
  <2>1. PICK text \in TextsRead(reply[r].content, todos[id]) :
          reply' = [reply EXCEPT ![r] = [content |-> text,
                                         deleted |-> todos[id].deleted]]
    BY <1>5 DEF CloneTodoFlags
  <2>2. /\ reply'[r].content = text
        /\ reply'[r].deleted = todos[id].deleted
    BY <2>1 DEF TypeOK
  <2>3. \/ text = reply[r].content
        \/ text = Torn /\ todos[id].content # reply[r].content
    BY DEF TextsRead
  <2> QED
    BY <1>5, <2>2, <2>3 DEF CloneTodoFlags, ReplyReread, TypeOK
<1> QED
  BY <1>2, <1>3, <1>4, <1>5

LEMMA MovedSteps ==
  ASSUME StoreInv, NEW r \in Requests,
         \/ ReadTodoText(r) \/ ReadTodoFlags(r)
         \/ PublishSucceeds(r) \/ PublishFails(r)
         \/ CloneTodoText(r) \/ CloneTodoFlags(r)
         \/ \E id \in 1..sequence : RejectMutation(r, id)
  PROVE  Moved(r)
<1> USE DEF StoreInv, TypeOK, GoTo, store, OthersKeep, Moved
<1>1. CASE ReadTodoText(r)
  BY <1>1, ReadSteps DEF ReadTodoText, InFlightPCs
<1>2. CASE ReadTodoFlags(r)
  BY <1>2, ReadSteps DEF ReadTodoFlags, InFlightPCs
<1>3. CASE PublishSucceeds(r)
  <2> DEFINE label == IF call[r].op = "create" THEN "published" ELSE "ok"
  <2>1. label \in (InFlightPCs \ {"allocated", "inserted"}) \cup {"ok"}
    BY DEF InFlightPCs
  <2>2. pc' = [pc EXCEPT ![r] = label]
    BY <1>3 DEF PublishSucceeds
  <2> HIDE DEF label
  <2>3. NothingRead(r)
    BY <1>3, <2>2 DEF PublishSucceeds, NothingRead, label
  <2> QED
    BY <1>3, <2>1, <2>2, <2>3 DEF PublishSucceeds
<1>4. CASE PublishFails(r)
  BY <1>4 DEF PublishFails, NothingRead, InFlightPCs
<1>5. CASE CloneTodoText(r)
  BY <1>5, ReadSteps DEF CloneTodoText, InFlightPCs
<1>6. CASE CloneTodoFlags(r)
  BY <1>6, ReadSteps DEF CloneTodoFlags, InFlightPCs
<1>7. ASSUME NEW id \in 1..sequence, RejectMutation(r, id) PROVE Moved(r)
  BY <1>7 DEF RejectMutation, NothingRead, InFlightPCs
<1> QED
  BY <1>1, <1>2, <1>3, <1>4, <1>5, <1>6, <1>7

LEMMA AppendedStep ==
  ASSUME StoreInv, NEW r \in Requests, KafkaAppend(r)
  PROVE  Appended(r)
BY DEF KafkaAppend, Appended, store

LEMMA AllocatedStep ==
  ASSUME StoreInv, NEW r \in Requests, NEW e \in Employees, AllocateTodo(r, e)
  PROVE  Allocated(r, e)
<1> DEFINE new == [op |-> "create", id |-> sequence + 1,
                   original |-> [employee |-> e, content |-> r,
                                 updatedAt |-> r, deleted |-> FALSE],
                   epoch |-> epoch]
<1>1. new \in Call
  BY DEF StoreInv, TypeOK, Call, Ids, Todo, Texts
<1>2. call' = [call EXCEPT ![r] = new] /\ new # None
  BY <1>1, NoneAssumption DEF AllocateTodo
<1>3. call'[r] = new /\ \A q \in Requests \ {r} : call'[q] = call[q]
  BY <1>1, <1>2 DEF StoreInv, TypeOK
<1> QED
  BY <1>2, <1>3 DEF AllocateTodo, GoTo, Allocated, OthersKeep, StoreInv, TypeOK

LEMMA InsertedStep ==
  ASSUME StoreInv, NEW r \in Requests, InsertTodo(r)
  PROVE  Inserted(r)
<1> DEFINE id == call[r].id
           todo == call[r].original
<1>1. InFlight(r) /\ pc[r] = "allocated"
  BY DEF InsertTodo, InFlight, InFlightPCs
<1>2. Creator(r) /\ todo \in Todo /\ ~todo.deleted /\ todo.employee \in Employees
  BY <1>1, CallTyped DEF StoreInv, LocalsOK, Creator, Todo
<1>3. id \notin DOMAIN todos
  BY <1>1, <1>2 DEF StoreInv, CreatedInMap
<1>4. TodoBecomes(id, todo)
  BY <1>3 DEF InsertTodo, TodoBecomes
<1>5. ListedUnder(todo.employee, id)
  BY <1>2 DEF InsertTodo, Indexed, ListedUnder, StoreInv, TypeOK
<1>6. OthersKeep(r) /\ pc'[r] = "inserted"
  BY DEF InsertTodo, GoTo, OthersKeep, StoreInv, TypeOK
<1> QED
  BY <1>1, <1>2, <1>3, <1>4, <1>5, <1>6 DEF InsertTodo, Inserted

LEMMA StartedStep ==
  ASSUME StoreInv, NEW r \in Requests, NEW id \in Nat,
         NEW op \in {"update", "delete"}, NEW after \in Todo,
         Start(r, op, id, after),
         after.employee = todos[id].employee,
         after.content = (IF op = "update" THEN r ELSE todos[id].content),
         after.updatedAt = r, after.deleted <=> op = "delete",
         todosByEmployee' = IF op = "delete"
                            THEN Unindexed(todos[id].employee, id)
                            ELSE todosByEmployee
  PROVE  Started(r, op, id, after)
<1> DEFINE new == [op |-> op, id |-> id, original |-> todos[id], epoch |-> epoch]
<1>1. /\ id \in DOMAIN todos /\ ~todos[id].deleted
      /\ todos[id] \in Todo /\ id \in Ids /\ todos[id].employee \in Employees
  BY DEF Start, Found, StoreInv, TypeOK, Todo
<1>2. new \in Call /\ new # None
  BY <1>1, NoneAssumption DEF Call, StoreInv, TypeOK
<1>3. EventFor(r, op, id, after) \in TodoEvent /\ EventFor(r, op, id, after) # None
  BY <1>1, EventForTyped, NoneAssumption DEF StoreInv
<1>4. call' = [call EXCEPT ![r] = new]
  BY DEF Start
<1> HIDE DEF new
<1>5. /\ OthersKeep(r) /\ call'[r] = new /\ pc[r] = "idle" /\ pc'[r] = "publishing"
      /\ event'[r] = EventFor(r, op, id, after)
  BY <1>4 DEF Start, GoTo, OthersKeep, StoreInv, TypeOK
<1>6. TodoBecomes(id, after)
  BY <1>1 DEF Start, TodoBecomes, StoreInv, TypeOK
<1>7. op = "delete" => NotListedUnder(todos[id].employee, id)
  BY <1>1 DEF Unindexed, NotListedUnder, StoreInv, TypeOK
<1>8. op # "delete" => UNCHANGED todosByEmployee
  OBVIOUS
<1>9. UNCHANGED <<sequence, reply, log, epoch>>
  BY DEF Start
<1> QED
  BY <1>1, <1>2, <1>3, <1>5, <1>6, <1>7, <1>8, <1>9 DEF Start, Started, new

LEMMA UpdatedStep ==
  ASSUME StoreInv, NEW r \in Requests, NEW id \in Nat, UpdateTodo(r, id)
  PROVE  \E after \in Todo : Started(r, "update", id, after)
<1> DEFINE after == [todos[id] EXCEPT !.content = r, !.updatedAt = r]
<1>1. id \in DOMAIN todos /\ ~todos[id].deleted /\ todos[id] \in Todo
  BY DEF UpdateTodo, Start, Found, StoreInv, TypeOK
<1>2. /\ after \in Todo /\ after.employee = todos[id].employee
      /\ after.content = r /\ after.updatedAt = r /\ ~after.deleted
  BY <1>1 DEF Todo, Texts
<1>3. Start(r, "update", id, after) /\ todosByEmployee' = todosByEmployee
  BY DEF UpdateTodo
<1> HIDE DEF after
<1> QED
  BY <1>2, <1>3, StartedStep

LEMMA DeletedStep ==
  ASSUME StoreInv, NEW r \in Requests, NEW id \in Nat, DeleteTodo(r, id)
  PROVE  \E after \in Todo : Started(r, "delete", id, after)
<1> DEFINE after == [todos[id] EXCEPT !.deleted = TRUE, !.updatedAt = r]
<1>1. id \in DOMAIN todos /\ todos[id] \in Todo
  BY DEF DeleteTodo, Start, Found, StoreInv, TypeOK
<1>2. /\ after \in Todo /\ after.employee = todos[id].employee
      /\ after.content = todos[id].content /\ after.updatedAt = r /\ after.deleted
  BY <1>1 DEF Todo, Texts
<1>3. /\ Start(r, "delete", id, after)
      /\ todosByEmployee' = Unindexed(todos[id].employee, id)
  BY DEF DeleteTodo
<1> HIDE DEF after
<1> QED
  BY <1>2, <1>3, StartedStep

LEMMA CreateUndoneStep ==
  ASSUME StoreInv, NEW r \in Requests, RollBackCreate(r)
  PROVE  CreateUndone(r)
<1>1. InFlight(r) /\ pc[r] = "rollback" /\ call[r].op = "create"
  BY DEF RollBackCreate, InFlight, InFlightPCs
<1>2. Creator(r) /\ call[r].original.employee \in Employees
  BY <1>1, CallTyped DEF StoreInv, Creator, Todo
<1>3. NotListedUnder(call[r].original.employee, call[r].id)
  BY <1>2 DEF RollBackCreate, Unindexed, NotListedUnder, StoreInv, TypeOK
<1>4. OthersKeep(r) /\ pc'[r] = "failed"
  BY DEF RollBackCreate, GoTo, OthersKeep, StoreInv, TypeOK
<1> QED
  BY <1>1, <1>2, <1>3, <1>4 DEF RollBackCreate, CreateUndone

LEMMA ChangeUndoneStep ==
  ASSUME StoreInv, NEW r \in Requests, RollBackUpdate(r) \/ RollBackDelete(r)
  PROVE  \E op \in {"update", "delete"} : ChangeUndone(r, op)
<1> USE DEF StoreInv
<1> DEFINE id == call[r].id
           original == call[r].original
           op == call[r].op
<1>1. pc[r] = "rollback" /\ op \in {"update", "delete"}
  BY DEF RollBackUpdate, RollBackDelete
<1>2. id \in Ids /\ original \in Todo /\ ~original.deleted /\ Current(r)
  BY <1>1, CallTyped DEF InFlight, InFlightPCs
<1>3. /\ OthersKeep(r) /\ pc'[r] = "failed"
      /\ UNCHANGED <<sequence, call, event, reply, log, epoch>>
  BY DEF RollBackUpdate, RollBackDelete, GoTo, OthersKeep, TypeOK
<1>4. CASE id \notin DOMAIN todos
  <2>1. UNCHANGED <<todos, todosByEmployee>>
    BY <1>4 DEF RollBackUpdate, RollBackDelete
  <2> QED
    BY <1>1, <1>2, <1>3, <1>4, <2>1 DEF ChangeUndone
<1>5. CASE id \in DOMAIN todos
  <2>1. todos[id] \in Todo /\ todos[id].employee \in Employees
    BY <1>5 DEF TypeOK, Todo
  <2>2. CASE RollBackUpdate(r)
    <3> DEFINE after == [todos[id] EXCEPT !.content = original.content,
                                          !.updatedAt = original.updatedAt,
                                          !.deleted = original.deleted]
    <3>1. /\ after \in Todo /\ after.employee = todos[id].employee
          /\ after.content = original.content
          /\ after.updatedAt = original.updatedAt /\ ~after.deleted
      BY <1>2, <2>1 DEF Todo
    <3>2. TodoBecomes(id, after)
      <4>1. todos' = [todos EXCEPT ![id] = after]
        BY <1>5, <2>2 DEF RollBackUpdate
      <4> HIDE DEF after
      <4> QED
        BY <1>5, <4>1 DEF TodoBecomes
    <3>3. op = "update" /\ UNCHANGED todosByEmployee
      BY <2>2 DEF RollBackUpdate
    <3> HIDE DEF after
    <3> QED
      BY <1>1, <1>2, <1>3, <1>5, <3>1, <3>2, <3>3 DEF ChangeUndone
  <2>3. CASE RollBackDelete(r)
    <3> DEFINE after == [todos[id] EXCEPT !.updatedAt = original.updatedAt,
                                          !.deleted = original.deleted]
    <3>1. /\ after \in Todo /\ after.employee = todos[id].employee
          /\ after.content = todos[id].content
          /\ after.updatedAt = original.updatedAt /\ ~after.deleted
      BY <1>2, <2>1 DEF Todo
    <3>2. TodoBecomes(id, after)
      <4>1. todos' = [todos EXCEPT ![id] = after]
        BY <1>5, <2>3 DEF RollBackDelete
      <4> HIDE DEF after
      <4> QED
        BY <1>5, <4>1 DEF TodoBecomes
    <3>3. op = "delete" /\ ListedUnder(todos[id].employee, id)
      BY <1>5, <2>1, <2>3 DEF RollBackDelete, Indexed, ListedUnder, TypeOK
    <3> HIDE DEF after
    <3> QED
      BY <1>1, <1>2, <1>3, <1>5, <3>1, <3>2, <3>3 DEF ChangeUndone
  <2> QED
    BY <2>2, <2>3
<1> QED
  BY <1>4, <1>5

LEMMA RestartedStep ==
  ASSUME StoreInv, Restart
  PROVE  Restarted
<1>1. \A r \in Requests : /\ pc'[r] = "idle" <=> pc[r] = "idle"
                          /\ event'[r] \in {event[r], None}
  BY DEF Restart, InFlight, InFlightPCs, StoreInv, TypeOK
<1>2. \A r \in Requests : call[r] # None => call[r].epoch # epoch + 1
  BY DEF StoreInv, TypeOK, Call, LocalsOK
<1> QED
  BY <1>1, <1>2 DEF Restart, Restarted, Current

\* Every step is of one of these kinds.
LEMMA StepKinds ==
  ASSUME StoreInv, [Next]_vars
  PROVE  \/ UNCHANGED vars
         \/ Restarted
         \/ \E r \in Requests :
              \/ Moved(r) \/ Appended(r) \/ Inserted(r) \/ CreateUndone(r)
              \/ \E e \in Employees : Allocated(r, e)
              \/ \E op \in {"update", "delete"} :
                   \/ ChangeUndone(r, op)
                   \/ \E id \in Ids, after \in Todo : Started(r, op, id, after)
<1>1. ASSUME NEW r \in Requests, NEW id \in 1..sequence,
             UpdateTodo(r, id) \/ DeleteTodo(r, id)
      PROVE  id \in Ids /\ \E op \in {"update", "delete"}, after \in Todo :
                              Started(r, op, id, after)
  <2>1. id \in Nat /\ id \in Ids
    BY DEF StoreInv, TypeOK, Ids
  <2> QED
    BY <1>1, <2>1, UpdatedStep, DeletedStep
<1>2. ASSUME NEW r \in Requests, Begin(r)
      PROVE  \/ Moved(r)
             \/ \E e \in Employees : Allocated(r, e)
             \/ \E op \in {"update", "delete"}, id \in Ids, after \in Todo :
                  Started(r, op, id, after)
  BY <1>1, <1>2, MovedSteps, AllocatedStep DEF Begin
<1>3. ASSUME NEW r \in Requests, Continue(r)
      PROVE  \/ Moved(r) \/ Inserted(r) \/ CreateUndone(r)
             \/ \E op \in {"update", "delete"} : ChangeUndone(r, op)
  BY <1>3, MovedSteps, InsertedStep, CreateUndoneStep, ChangeUndoneStep DEF Continue
<1> QED
  BY <1>2, <1>3, AppendedStep, RestartedStep DEF Next, AllAnswered
-----------------------------------------------------------------------------
(* CallsInv *)

\* Steps after which everybody has made the same calls, with the same texts
\* in the map as far as those that have not begun are concerned.
LEMMA SameCallsKeep ==
  ASSUME StoreInv, CallsInv, NEW r \in Requests, OthersKeep(r),
         UNCHANGED <<sequence, call, epoch>>,
         pc'[r] # "idle",
         pc'[r] # "allocated",
         Current(r) => pc'[r] \in InFlightPCs \cup {"ok", "failed"},
         \A id \in DOMAIN todos' :
           \/ id \in DOMAIN todos /\ todos'[id].content = todos[id].content
           \/ Made(r) /\ todos'[id].content = call[r].original.content
  PROVE  CallsInv'
<1> USE DEF CallsInv, OthersKeep
<1>1. \A q \in Requests : /\ Current(q)' <=> Current(q)
                          /\ Made(q)' <=> Made(q)
                          /\ pc'[q] = "idle" => pc[q] = "idle"
  BY DEF Current, Made
<1>2. CallsOK'
  BY <1>1 DEF CallsOK, InFlight
<1>3. IdleTextNowhere'
  BY <1>1 DEF IdleTextNowhere
<1>4. CreatorsApart'
  BY <1>1 DEF CreatorsApart
<1> QED
  BY <1>2, <1>3, <1>4

LEMMA AllocatedKeepsCalls ==
  ASSUME StoreInv, CallsInv, NEW r \in Requests, NEW e \in Employees, Allocated(r, e)
  PROVE  CallsInv'
<1> USE DEF CallsInv
<1>1. \A q \in Requests \ {r} : /\ Current(q)' <=> Current(q)
                                /\ Made(q)' <=> Made(q)
                                /\ pc'[q] = pc[q] /\ call'[q] = call[q]
  BY DEF Allocated, OthersKeep, Current, Made
<1>2. /\ Current(r)' /\ Made(r)' /\ ~Made(r)
      /\ pc'[r] = "allocated" /\ call'[r].id = sequence + 1
      /\ call'[r].op = "create" /\ call'[r].original.content = r
      /\ call'[r].epoch = epoch /\ sequence' = sequence + 1 /\ sequence \in Nat
  BY DEF Allocated, Current, Made, CallsOK, StoreInv, TypeOK
<1>3. \A q \in Requests : Current(q) => call[q].id \in Nat /\ call[q].id <= sequence
  BY DEF CallsOK, Current, StoreInv, TypeOK, Call, Ids
<1>4. CallsOK'
  BY <1>1, <1>2, <1>3 DEF CallsOK, InFlight, InFlightPCs
<1>5. IdleTextNowhere'
  BY <1>1, <1>2 DEF IdleTextNowhere, Allocated
<1>6. CreatorsApart'
  <2>1. epoch' = epoch
    BY DEF Allocated
  <2>2. \A q \in Requests \ {r} :
          (Made(q) /\ call[q].epoch = epoch) => call[q].id # sequence + 1
    BY <1>2, <1>3 DEF Made, Current
  <2>3. \A q \in Requests \ {r} : Current(q) => Made(q) /\ call[q].epoch = epoch
    BY DEF Made, Current
  <2> QED
    BY <1>1, <1>2, <2>1, <2>2, <2>3 DEF CreatorsApart
<1> QED
  BY <1>4, <1>5, <1>6

LEMMA StartedKeepsCalls ==
  ASSUME StoreInv, CallsInv, NEW r \in Requests, NEW op \in {"update", "delete"},
         NEW id \in Ids, NEW after \in Todo, Started(r, op, id, after)
  PROVE  CallsInv'
<1> USE DEF CallsInv
<1>1. \A q \in Requests \ {r} : /\ Current(q)' <=> Current(q)
                                /\ Made(q)' <=> Made(q)
                                /\ pc'[q] = pc[q] /\ call'[q] = call[q]
  BY DEF Started, OthersKeep, Current, Made
<1>2. /\ Current(r)' /\ Made(r)' /\ ~Made(r) /\ pc[r] = "idle"
      /\ pc'[r] = "publishing" /\ call'[r].id = id /\ id \in DOMAIN todos
      /\ call'[r].op = op /\ call'[r].original = todos[id]
      /\ UNCHANGED <<sequence, epoch>>
  BY DEF Started, Current, Made, CallsOK
<1>3. todos[id].content # r
  BY <1>2 DEF IdleTextNowhere
<1>4. id <= sequence
  BY <1>2 DEF StoreInv, IdsHandedOut
<1>5. CallsOK'
  BY <1>1, <1>2, <1>3, <1>4 DEF CallsOK, InFlight, InFlightPCs
<1>6. \A i \in DOMAIN todos' : i \in DOMAIN todos /\ todos'[i].content \in {todos[i].content, r}
  BY <1>2 DEF Started, TodoBecomes
<1>7. IdleTextNowhere'
  BY <1>1, <1>2, <1>6 DEF IdleTextNowhere
<1>8. CreatorsApart'
  <2>1. \A q \in Requests : (Current(q) /\ pc[q] = "allocated") => call[q].id # id
    BY <1>2 DEF StoreInv, LocalsOK, CreatedInMap, Creator
  <2> QED
    BY <1>1, <1>2, <2>1 DEF CreatorsApart
<1> QED
  BY <1>5, <1>7, <1>8

LEMMA RestartedKeepsCalls ==
  ASSUME StoreInv, CallsInv, Restarted
  PROVE  CallsInv'
<1> USE DEF CallsInv, Restarted
<1>1. CallsOK'
  BY DEF CallsOK, Made
<1>2. IdleTextNowhere'
  BY SeedsOK, TextAssumption DEF IdleTextNowhere, Made, SeededTodos, SeedTodo
<1>3. CreatorsApart'
  BY DEF CreatorsApart, Made
<1> QED
  BY <1>1, <1>2, <1>3

LEMMA CallsInvKept ==
  ASSUME StoreInv, CallsInv, [Next]_vars
  PROVE  CallsInv'
<1>1. CASE UNCHANGED vars
  BY <1>1 DEF vars, CallsInv, CallsOK, IdleTextNowhere, CreatorsApart, Made,
              Current, InFlight
<1>2. ASSUME NEW r \in Requests, Moved(r) PROVE CallsInv'
  <2>1. Current(r) => pc[r] # "idle"
    BY DEF Current, CallsInv, CallsOK, Made
  <2> QED
    BY <1>2, <2>1, SameCallsKeep DEF Moved, InFlightPCs
<1>3. ASSUME NEW r \in Requests, Appended(r) PROVE CallsInv'
  BY <1>3 DEF Appended, CallsInv, CallsOK, IdleTextNowhere, CreatorsApart, Made,
              Current, InFlight
<1>4. ASSUME NEW r \in Requests, Inserted(r) PROVE CallsInv'
  BY <1>4, SameCallsKeep DEF Inserted, TodoBecomes, InFlightPCs, Creator, Current, Made
<1>5. ASSUME NEW r \in Requests, CreateUndone(r) PROVE CallsInv'
  BY <1>5, SameCallsKeep DEF CreateUndone
<1>6. ASSUME NEW r \in Requests, NEW op \in {"update", "delete"}, ChangeUndone(r, op)
      PROVE  CallsInv'
  <2>1. \A id \in DOMAIN todos' :
           \/ id \in DOMAIN todos /\ todos'[id].content = todos[id].content
           \/ Made(r) /\ todos'[id].content = call[r].original.content
    BY <1>6 DEF ChangeUndone, TodoBecomes, Current, Made
  <2> QED
    BY <1>6, <2>1, SameCallsKeep DEF ChangeUndone
<1> QED
  BY <1>1, <1>2, <1>3, <1>4, <1>5, <1>6, StepKinds, AllocatedKeepsCalls,
     StartedKeepsCalls, RestartedKeepsCalls
-----------------------------------------------------------------------------
(* RacesInv *)

\* Steps that leave the maps alone, and nobody's call fails or begins.
LEMMA SameMapKeepsRaces ==
  ASSUME RacesInv, UNCHANGED <<todos, todosByEmployee, call, epoch>>,
         \A q \in Requests : Current(q) =>
           /\ pc'[q] = "failed" <=> pc[q] = "failed"
           /\ pc'[q] = "allocated" <=> pc[q] = "allocated"
  PROVE  RacesInv'
<1> USE DEF RacesInv
<1>1. \A q \in Requests : Current(q)' <=> Current(q)
  BY DEF Current
<1>2. \A op, id : Calls(op, id)' = Calls(op, id)
  BY <1>1 DEF Calls
<1>3. \A op, id : /\ Undone(op, id)' <=> Undone(op, id)
                  /\ Standing(op, id)' <=> Standing(op, id)
  BY <1>2 DEF Undone, Standing, Calls
<1>4. HiddenOK'
  BY <1>3 DEF HiddenOK
<1>5. TextsOK'
  BY <1>1, <1>2 DEF TextsOK, Calls
<1>6. DeletesOK'
  BY <1>1, <1>2, <1>3 DEF DeletesOK, Calls
<1> QED
  BY <1>4, <1>5, <1>6

LEMMA AllocatedKeepsRaces ==
  ASSUME CallsInv, RacesInv, NEW r \in Requests, NEW e \in Employees, Allocated(r, e)
  PROVE  RacesInv'
<1> USE DEF RacesInv
<1>1. \A q \in Requests \ {r} : /\ Current(q)' <=> Current(q)
                                /\ pc'[q] = pc[q] /\ call'[q] = call[q]
  BY DEF Allocated, OthersKeep, Current
<1>2. /\ ~Current(r) /\ call'[r].op = "create" /\ pc'[r] = "allocated"
      /\ UNCHANGED <<todos, todosByEmployee>>
  BY DEF Allocated, CallsInv, CallsOK, Made, Current
<1>3. \A op \in {"update", "delete"} : \A id : Calls(op, id)' = Calls(op, id)
  BY <1>1, <1>2 DEF Calls
<1>4. \A op \in {"update", "delete"} : \A id :
        /\ r \notin Calls(op, id)
        /\ Undone(op, id)' <=> Undone(op, id)
        /\ Standing(op, id)' <=> Standing(op, id)
  BY <1>1, <1>2, <1>3 DEF Undone, Standing, Calls
<1>5. HiddenOK'
  BY <1>2, <1>4 DEF HiddenOK
<1>6. TextsOK'
  BY <1>1, <1>2, <1>3 DEF TextsOK, Calls
<1>7. DeletesOK'
  BY <1>1, <1>2, <1>3, <1>4 DEF DeletesOK, Calls
<1> QED
  BY <1>5, <1>6, <1>7

LEMMA InsertedKeepsRaces ==
  ASSUME StoreInv, CallsInv, RacesInv, NEW r \in Requests, Inserted(r)
  PROVE  RacesInv'
<1> USE DEF RacesInv
<1> PICK id : id = call[r].id
  OBVIOUS
<1>1. /\ \A q \in Requests : /\ Current(q)' <=> Current(q)
                             /\ call'[q] = call[q]
                             /\ pc'[q] = "failed" <=> pc[q] = "failed"
      /\ \A q \in Requests \ {r} : pc'[q] = pc[q]
  BY DEF Inserted, OthersKeep, Current
<1>2. /\ id \notin DOMAIN todos /\ DOMAIN todos' = DOMAIN todos \cup {id}
      /\ \A i \in DOMAIN todos : todos'[i] = todos[i]
      /\ todos'[id] = call[r].original /\ call[r].original \in Todo
      /\ ~todos'[id].deleted
      /\ Creator(r) /\ Current(r) /\ pc[r] = "allocated"
  BY DEF Inserted, TodoBecomes, Creator
<1>3. todos'[id].content = r
  BY <1>2 DEF CallsInv, CallsOK, Creator, Current, Made
<1>4. \A q \in Requests \ {r} : Current(q) => call[q].id # id
  BY <1>2 DEF CallsInv, CreatorsApart
<1>5. \A op, i : /\ Calls(op, i)' = Calls(op, i)
                 /\ Undone(op, i)' <=> Undone(op, i)
                 /\ Standing(op, i)' <=> Standing(op, i)
  BY <1>1 DEF Calls, Undone, Standing
<1>6. HiddenOK'
  <2>1. \A i \in DOMAIN todos : todos[i].employee \in Employees
    BY DEF StoreInv, TypeOK, Todo
  <2>2. todos'[id].employee \in Employees /\ id \in todosByEmployee'[todos'[id].employee]
    BY <1>2 DEF Inserted, ListedUnder, Todo
  <2>3. \A i \in DOMAIN todos :
          i \in todosByEmployee[todos[i].employee] =>
            i \in todosByEmployee'[todos[i].employee]
    BY <2>1 DEF Inserted, ListedUnder
  <2> QED
    BY <1>2, <1>5, <2>2, <2>3 DEF HiddenOK
<1>7. TextsOK'
  <2>1. \A q \in Requests, i \in DOMAIN todos' :
          (Current(q) /\ call[q].id = i) =>
            \/ /\ q = r /\ i = id /\ todos'[i].content = q
               /\ call[q].op = "create"
            \/ q # r /\ i \in DOMAIN todos /\ todos'[i] = todos[i]
    <3> SUFFICES ASSUME NEW q \in Requests, NEW i \in DOMAIN todos',
                        Current(q), call[q].id = i
                 PROVE  \/ /\ q = r /\ i = id /\ todos'[i].content = q
                           /\ call[q].op = "create"
                        \/ q # r /\ i \in DOMAIN todos /\ todos'[i] = todos[i]
      OBVIOUS
    <3>1. CASE q = r
      BY <1>2, <1>3, <3>1 DEF Creator
    <3>2. CASE q # r
      BY <1>2, <1>4, <3>2
    <3> QED
      BY <3>1, <3>2
  <2> QED
    BY <1>1, <1>5, <2>1 DEF TextsOK, Calls
<1>8. DeletesOK'
  <2>1. \A q \in Calls("delete", id) : FALSE
    BY <1>2, <1>4 DEF Creator, Calls
  <2> QED
    BY <1>1, <1>2, <1>5, <2>1 DEF DeletesOK, Calls
<1> QED
  BY <1>6, <1>7, <1>8

LEMMA StartedKeepsRaces ==
  ASSUME StoreInv, CallsInv, RacesInv, NEW r \in Requests,
         NEW op \in {"update", "delete"}, NEW id \in Ids, NEW after \in Todo,
         Started(r, op, id, after)
  PROVE  RacesInv'
<1> USE DEF RacesInv
<1>1. \A q \in Requests \ {r} : /\ Current(q)' <=> Current(q)
                                /\ pc'[q] = pc[q] /\ call'[q] = call[q]
  BY DEF Started, OthersKeep, Current
<1>2. /\ ~Current(r) /\ Current(r)' /\ pc'[r] = "publishing"
      /\ call'[r].op = op /\ call'[r].id = id /\ call'[r].original = todos[id]
  BY DEF Started, CallsInv, CallsOK, Made, Current
<1>3. /\ id \in DOMAIN todos /\ ~todos[id].deleted
      /\ DOMAIN todos' = DOMAIN todos
      /\ \A i \in DOMAIN todos \ {id} : todos'[i] = todos[i]
      /\ todos'[id].employee = todos[id].employee
      /\ todos'[id].content = (IF op = "update" THEN r ELSE todos[id].content)
      /\ todos'[id].deleted <=> op = "delete"
  BY DEF Started, TodoBecomes
<1>4. \A o, i, q : q \in Calls(o, i) => q # r /\ q \in Calls(o, i)'
  BY <1>1, <1>2 DEF Calls
<1>5. \A o, i, q : (q \in Calls(o, i)' /\ q # r) => q \in Calls(o, i)
  BY <1>1 DEF Calls
<1>6. \A o, i : /\ Undone(o, i) => Undone(o, i)'
                /\ Standing(o, i) => Standing(o, i)'
  BY <1>1, <1>4 DEF Undone, Standing, Calls
<1>7. r \in Calls(op, id)'
  BY <1>2 DEF Calls
<1>8. HiddenOK'
  <2>1. op = "delete" => Standing("delete", id)'
    BY <1>2, <1>7 DEF Standing
  <2>2. \A i \in DOMAIN todos : todos[i].employee \in Employees
    BY DEF StoreInv, TypeOK, Todo
  <2>3. \A i \in DOMAIN todos :
          (op = "update" \/ i # id) =>
            (i \in todosByEmployee'[todos[i].employee] <=>
             i \in todosByEmployee[todos[i].employee])
    BY <2>2 DEF Started, NotListedUnder
  <2> QED
    BY <1>3, <1>6, <2>1, <2>3 DEF HiddenOK
<1>9. TextsOK'
  <2> SUFFICES ASSUME NEW i \in DOMAIN todos', NEW q \in Requests,
                      Current(q)', call'[q].id = i
               PROVE  /\ ( /\ call'[q].op \in {"create", "update"}
                           /\ pc'[q] \notin {"allocated", "failed"}
                           /\ todos'[i].content # q ) =>
                           \E u \in Calls("update", i)' \ {q} :
                             pc'[u] = "failed" <=> call'[u].original.content # q
                      /\ ( /\ call'[q].op = "update" /\ pc'[q] = "failed"
                           /\ todos'[i].content = q ) =>
                           \E u \in Calls("update", i)' \ {q} :
                             pc'[u] = "failed" /\ call'[u].original.content = q
    BY DEF TextsOK
  <2>1. CASE q = r
    BY <1>2, <1>3, <2>1
  <2>2. CASE q # r
    <3>1. /\ Current(q) /\ call[q].id = i /\ i \in DOMAIN todos
          /\ call'[q] = call[q] /\ pc'[q] = pc[q]
      BY <1>1, <1>3, <2>2
    <3>2. /\ ( /\ call[q].op \in {"create", "update"}
               /\ pc[q] \notin {"allocated", "failed"}
               /\ todos[i].content # q ) =>
               \E u \in Calls("update", i) \ {q} :
                 pc[u] = "failed" <=> call[u].original.content # q
          /\ ( /\ call[q].op = "update" /\ pc[q] = "failed"
               /\ todos[i].content = q ) =>
               \E u \in Calls("update", i) \ {q} :
                 pc[u] = "failed" /\ call[u].original.content = q
      BY <3>1 DEF TextsOK
    <3>3. \A u \in Calls("update", i) \ {q} :
            /\ u \in Calls("update", i)' \ {q}
            /\ call'[u] = call[u] /\ pc'[u] = pc[u]
      BY <1>1, <1>4 DEF Calls
    <3>4. CASE todos'[i].content = todos[i].content
      BY <3>1, <3>2, <3>3, <3>4
    <3>5. CASE op = "update" /\ i = id
      <4>1. /\ todos'[i].content = r /\ r \in Calls("update", i)' \ {q}
            /\ pc'[r] # "failed" /\ call'[r].original = todos[i]
        BY <1>2, <1>3, <1>7, <2>2, <3>5
      <4>2. CASE todos[i].content = q
        BY <2>2, <3>1, <4>1, <4>2
      <4>3. CASE todos[i].content # q
        BY <2>2, <3>1, <3>2, <3>3, <4>1, <4>3
      <4> QED
        BY <4>2, <4>3
    <3> QED
      BY <1>3, <3>1, <3>4, <3>5
  <2> QED
    BY <2>1, <2>2
<1>10. DeletesOK'
  <2>1. \A q \in Calls("delete", id) : pc[q] # "failed" => Undone("update", id)'
    BY <1>3, <1>6 DEF DeletesOK
  <2> SUFFICES ASSUME NEW i \in DOMAIN todos', NEW q \in Calls("delete", i)',
                      pc'[q] # "failed"
               PROVE  /\ ~todos'[i].deleted => Undone("update", i)'
                      /\ \A p \in Calls("delete", i)' \ {q} :
                           pc'[p] # "failed" => Undone("update", i)'
    BY DEF DeletesOK
  <2>2. \A p \in Calls("delete", i)' \ {r} : /\ p \in Calls("delete", i)
                                             /\ pc'[p] = pc[p]
    BY <1>1, <1>5 DEF Calls
  <2>3. r \in Calls("delete", i)' => op = "delete" /\ i = id
    BY <1>2 DEF Calls
  <2>4. CASE i # id
    BY <1>3, <1>6, <2>2, <2>3, <2>4 DEF DeletesOK
  <2>5. CASE i = id
    <3>1. CASE q = r
      BY <1>3, <2>1, <2>2, <2>3, <2>5, <3>1
    <3>2. CASE q # r
      BY <2>1, <2>2, <2>5, <3>2
    <3> QED
      BY <3>1, <3>2
  <2> QED
    BY <2>4, <2>5
<1> QED
  BY <1>8, <1>9, <1>10

LEMMA CreateUndoneKeepsRaces ==
  ASSUME StoreInv, RacesInv, NEW r \in Requests, CreateUndone(r)
  PROVE  RacesInv'
<1> USE DEF RacesInv
<1> PICK id : id = call[r].id
  OBVIOUS
<1>1. /\ \A q \in Requests : Current(q)' <=> Current(q)
      /\ \A q \in Requests \ {r} : pc'[q] = pc[q]
      /\ call' = call
  BY DEF CreateUndone, OthersKeep, Current
<1>2. /\ call[r].op = "create" /\ pc'[r] = "failed"
      /\ DOMAIN todos' = DOMAIN todos \ {id}
      /\ \A i \in DOMAIN todos' : todos'[i] = todos[i]
  BY DEF CreateUndone, Creator
<1>3. \A o, i : Calls(o, i)' = Calls(o, i)
  BY <1>1 DEF Calls
<1>4. \A o \in {"update", "delete"} : \A i :
        /\ r \notin Calls(o, i)
        /\ \A q \in Calls(o, i) : pc'[q] = pc[q]
        /\ Undone(o, i)' <=> Undone(o, i)
        /\ Standing(o, i)' <=> Standing(o, i)
  BY <1>1, <1>2, <1>3 DEF Undone, Standing, Calls
<1>5. HiddenOK'
  <2>1. \A i \in DOMAIN todos' :
          /\ todos[i].employee \in Employees
          /\ i \in todosByEmployee[todos[i].employee] =>
               i \in todosByEmployee'[todos[i].employee]
    BY <1>2 DEF CreateUndone, NotListedUnder, StoreInv, TypeOK, Todo
  <2> QED
    BY <1>2, <1>4, <2>1 DEF HiddenOK
<1>6. TextsOK'
  BY <1>1, <1>2, <1>3, <1>4 DEF TextsOK
<1>7. DeletesOK'
  BY <1>1, <1>2, <1>3, <1>4 DEF DeletesOK
<1> QED
  BY <1>5, <1>6, <1>7

LEMMA ChangeUndoneKeepsRaces ==
  ASSUME StoreInv, CallsInv, RacesInv, NEW r \in Requests,
         NEW op \in {"update", "delete"}, ChangeUndone(r, op)
  PROVE  RacesInv'
<1> USE DEF RacesInv
<1> PICK id : id = call[r].id
  OBVIOUS
<1>1. /\ \A q \in Requests : Current(q)' <=> Current(q)
      /\ \A q \in Requests \ {r} : pc'[q] = pc[q]
      /\ call' = call /\ Current(r) /\ call[r].op = op
      /\ pc[r] # "failed" /\ pc'[r] = "failed"
  BY DEF ChangeUndone, OthersKeep, Current
<1>2. /\ DOMAIN todos' = DOMAIN todos
      /\ \A i \in DOMAIN todos \ {id} : todos'[i] = todos[i]
      /\ \A i \in DOMAIN todos : todos'[i].employee = todos[i].employee
      /\ id \in DOMAIN todos =>
           /\ todos'[id].content = (IF op = "update" THEN call[r].original.content
                                    ELSE todos[id].content)
           /\ ~todos'[id].deleted
  BY DEF ChangeUndone, TodoBecomes
<1>3. \A i \in DOMAIN todos :
        /\ i \in todosByEmployee[todos[i].employee] =>
             i \in todosByEmployee'[todos[i].employee]
        /\ (op = "delete" /\ i = id) => i \in todosByEmployee'[todos[i].employee]
  <2>1. \A i \in DOMAIN todos : todos[i].employee \in Employees
    BY DEF StoreInv, TypeOK, Todo
  <2> QED
    BY <2>1 DEF ChangeUndone, ListedUnder
<1>4. \A o, i : Calls(o, i)' = Calls(o, i)
  BY <1>1 DEF Calls
<1>5. r \in Calls(op, id) /\ \A o, i : r \in Calls(o, i) => o = op /\ i = id
  BY <1>1 DEF Calls
<1>6. \A o, i : /\ Undone(o, i) => Undone(o, i)'
                /\ (o # op \/ i # id) => (Standing(o, i) => Standing(o, i)')
  BY <1>1, <1>4, <1>5 DEF Undone, Standing, Calls
<1>7. Undone(op, id)'
  BY <1>1, <1>4, <1>5 DEF Undone
<1>8. HiddenOK'
  <2> SUFFICES ASSUME NEW i \in DOMAIN todos
               PROVE  /\ todos'[i].deleted => Standing("delete", i)'
                      /\ (~todos'[i].deleted /\ i \notin todosByEmployee'[todos[i].employee]) =>
                           Undone("update", i)' /\ Standing("delete", i)'
    BY <1>2 DEF HiddenOK
  <2>1. CASE i # id
    BY <1>2, <1>3, <1>6, <2>1 DEF HiddenOK
  <2>2. CASE i = id /\ op = "delete"
    BY <1>2, <1>3, <2>2
  <2>3. CASE i = id /\ op = "update"
    BY <1>2, <1>3, <1>6, <1>7, <2>3 DEF HiddenOK
  <2> QED
    BY <2>1, <2>2, <2>3
<1>9. TextsOK'
  <2> SUFFICES ASSUME NEW i \in DOMAIN todos, NEW q \in Requests,
                      Current(q), call[q].id = i
               PROVE  /\ ( /\ call[q].op \in {"create", "update"}
                           /\ pc'[q] \notin {"allocated", "failed"}
                           /\ todos'[i].content # q ) =>
                           \E u \in Calls("update", i) \ {q} :
                             pc'[u] = "failed" <=> call[u].original.content # q
                      /\ ( /\ call[q].op = "update" /\ pc'[q] = "failed"
                           /\ todos'[i].content = q ) =>
                           \E u \in Calls("update", i) \ {q} :
                             pc'[u] = "failed" /\ call[u].original.content = q
    BY <1>1, <1>2, <1>4 DEF TextsOK
  <2>1. CASE op = "update" /\ i = id
    <3>1. todos'[i].content = call[r].original.content /\ r \in Calls("update", i)
      BY <1>2, <1>5, <2>1
    <3>2. CASE q = r
      <4>1. todos'[i].content # r
        BY <1>1, <2>1, <3>1 DEF CallsInv, CallsOK, Current, Made
      <4> QED
        BY <1>1, <3>2, <4>1
    <3>3. CASE q # r
      BY <1>1, <3>1, <3>3
    <3> QED
      BY <3>2, <3>3
  <2>2. CASE ~(op = "update" /\ i = id)
    <3>1. \A u \in Calls("update", i) : pc'[u] = pc[u]
      BY <1>1, <1>5, <2>2 DEF Calls
    <3>2. todos'[i].content = todos[i].content
      BY <1>2, <2>2
    <3>3. call[q].op = "update" => pc'[q] = pc[q]
      BY <1>1, <2>2
    <3>4. pc'[q] # "failed" => pc'[q] = pc[q]
      BY <1>1
    <3> QED
      BY <3>1, <3>2, <3>3, <3>4 DEF TextsOK
  <2> QED
    BY <2>1, <2>2
<1>10. DeletesOK'
  <2> SUFFICES ASSUME NEW i \in DOMAIN todos, NEW q \in Calls("delete", i),
                      pc'[q] # "failed"
               PROVE  /\ ~todos'[i].deleted => Undone("update", i)'
                      /\ \A p \in Calls("delete", i) \ {q} :
                           pc'[p] # "failed" => Undone("update", i)'
    BY <1>2, <1>4 DEF DeletesOK
  <2>1. /\ q # r /\ pc[q] # "failed"
        /\ \A p \in Calls("delete", i) : pc'[p] # "failed" => pc[p] # "failed"
    BY <1>1 DEF Calls
  <2>2. \A p \in Calls("delete", i) \ {q} : pc[p] # "failed" => Undone("update", i)'
    BY <1>6, <2>1 DEF DeletesOK
  <2>3. ~todos'[i].deleted => Undone("update", i)'
    <3>1. CASE i # id
      BY <1>2, <1>6, <2>1, <3>1 DEF DeletesOK
    <3>2. CASE i = id /\ op = "update"
      BY <1>7, <3>2
    <3>3. CASE i = id /\ op = "delete"
      BY <1>1, <1>5, <2>1, <2>2, <3>3
    <3> QED
      BY <3>1, <3>2, <3>3
  <2> QED
    BY <2>1, <2>2, <2>3
<1> QED
  BY <1>8, <1>9, <1>10

LEMMA RacesInvKept ==
  ASSUME StoreInv, CallsInv, RacesInv, [Next]_vars
  PROVE  RacesInv'
<1>1. CASE UNCHANGED vars
  BY <1>1, SameMapKeepsRaces DEF vars
<1>2. ASSUME NEW r \in Requests, Moved(r) PROVE RacesInv'
  <2>1. Current(r) => pc[r] # "idle"
    BY DEF Current, CallsInv, CallsOK, Made
  <2> QED
    BY <1>2, <2>1, SameMapKeepsRaces DEF Moved, OthersKeep, InFlightPCs
<1>3. ASSUME NEW r \in Requests, Appended(r) PROVE RacesInv'
  BY <1>3, SameMapKeepsRaces DEF Appended
<1>4. CASE Restarted
  <2>1. \A op, id : Calls(op, id)' = {}
    BY <1>4 DEF Restarted, Calls
  <2>2. DOMAIN todos' = 1..2 /\ \A id \in 1..2 :
          ~todos'[id].deleted /\ id \in todosByEmployee'[todos'[id].employee]
    BY <1>4, SeedAssumption DEF Restarted, SeededTodos, SeedTodo, SeededIndex
  <2> QED
    BY <1>4, <2>1, <2>2 DEF Restarted, RacesInv, HiddenOK, TextsOK, DeletesOK
<1> QED
  BY <1>1, <1>2, <1>3, <1>4, StepKinds, AllocatedKeepsRaces, InsertedKeepsRaces,
     StartedKeepsRaces, CreateUndoneKeepsRaces, ChangeUndoneKeepsRaces
-----------------------------------------------------------------------------
(* ReportsInv *)

\* Unless the process restarts, a call stays made and a failed one failed.
Onward ==
  /\ epoch' = epoch
  /\ \A q \in Requests : Made(q) =>
       call'[q] = call[q] /\ (pc[q] = "failed" => pc'[q] = "failed")

LEMMA StepsOnward ==
  ASSUME StoreInv, CallsInv, [Next]_vars
  PROVE  Restarted \/ Onward
<1>1. \A r \in Requests : pc[r] = "idle" => ~Made(r)
  BY DEF CallsInv, CallsOK
<1>2. ASSUME NEW r \in Requests, Moved(r) PROVE Onward
  BY <1>2 DEF Moved, OthersKeep, Onward
<1>3. ASSUME NEW r \in Requests, Appended(r) PROVE Onward
  BY <1>3 DEF Appended, Onward
<1>4. ASSUME NEW r \in Requests, Inserted(r) PROVE Onward
  BY <1>4 DEF Inserted, OthersKeep, Onward
<1>5. ASSUME NEW r \in Requests, CreateUndone(r) PROVE Onward
  BY <1>5 DEF CreateUndone, OthersKeep, Onward
<1>6. ASSUME NEW r \in Requests, NEW e \in Employees, Allocated(r, e)
      PROVE  Onward
  BY <1>1, <1>6 DEF Allocated, OthersKeep, Onward
<1>7. ASSUME NEW r \in Requests, NEW op \in {"update", "delete"}, ChangeUndone(r, op)
      PROVE  Onward
  BY <1>7 DEF ChangeUndone, OthersKeep, Onward
<1>8. ASSUME NEW r \in Requests, NEW op \in {"update", "delete"},
             NEW id \in Ids, NEW after \in Todo, Started(r, op, id, after)
      PROVE  Onward
  BY <1>1, <1>8 DEF Started, OthersKeep, Onward
<1>9. CASE UNCHANGED vars
  BY <1>9 DEF vars, Onward
<1> QED
  BY <1>2, <1>3, <1>4, <1>5, <1>6, <1>7, <1>8, <1>9, StepKinds

LEMMA OnwardKeepsCauses ==
  ASSUME Onward, NEW r \in Requests, Made(r)
  PROVE  /\ Made(r)'
         /\ Creator(r)' <=> Creator(r)
         /\ \A op : Reached(op, r) => Reached(op, r)'
         /\ TakenBack(r) => TakenBack(r)'
<1>1. call'[r] = call[r]
  BY DEF Onward
<1>2. \A q \in Requests : Current(q) =>
        Current(q)' /\ call'[q] = call[q] /\ (pc[q] = "failed" => pc'[q] = "failed")
  BY DEF Onward, Current, Made
<1>3. \A op : Reached(op, r) => Reached(op, r)'
  BY <1>1, <1>2 DEF Reached
<1>4. TakenBack(r) => TakenBack(r)'
  BY <1>1, <1>2 DEF TakenBack
<1> QED
  BY <1>1, <1>3, <1>4 DEF Onward, Made, Creator, Current

LEMMA EntryTyped ==
  ASSUME TypeOK, NEW i \in DOMAIN log
  PROVE  log[i] \in TodoEvent
<1>1. log \in Seq(TodoEvent)
  BY DEF TypeOK
<1> QED
  BY <1>1

\* Steps of r that append nothing: what r's event says of itself is all
\* that can go wrong.
LEMMA HeadersKept ==
  ASSUME StoreInv, EventsOK, NEW r \in Requests, OthersKeep(r), Onward,
         UNCHANGED log,
         event'[r] # None => About(event[r], r)',
         Current(r)' => (event'[r] = None <=> pc'[r] \in {"allocated", "inserted"})
  PROVE  EventsOK'
<1>1. \A q \in Requests \ {r} : (event[q] # None => About(event[q], q))'
  BY DEF EventsOK, OthersKeep, About, Made
<1>2. \A q \in Requests \ {r} :
        Current(q)' => (event'[q] = None <=> pc'[q] \in {"allocated", "inserted"})
  BY DEF EventsOK, OthersKeep, Current, Onward
<1>3. \A i \in DOMAIN log : log[i].by \in Requests
  BY EntryTyped DEF StoreInv, TodoEvent
<1>4. \A i \in DOMAIN log : About(log[i], log[i].by)'
  <2> TAKE i \in DOMAIN log
  <2> PICK q \in Requests : q = log[i].by
    BY <1>3
  <2>1. About(log[i], q)
    BY DEF EventsOK
  <2>2. Made(q)' /\ call'[q] = call[q]
    BY <2>1 DEF About, Onward, Made
  <2> QED
    BY <2>1, <2>2 DEF About, Made
<1> QED
  BY <1>1, <1>2, <1>4 DEF EventsOK

LEMMA EventsOKKept ==
  ASSUME StoreInv, CallsInv, EventsOK, [Next]_vars
  PROVE  EventsOK'
<1>1. \A r \in Requests : pc[r] = "idle" => ~Made(r) /\ event[r] = None
  BY DEF CallsInv, CallsOK, EventsOK, About
<1>2. ASSUME NEW r \in Requests, Moved(r) PROVE EventsOK'
  <2>1. /\ OthersKeep(r) /\ Onward /\ UNCHANGED <<call, log, epoch>>
        /\ pc'[r] \notin {"allocated", "inserted"}
    BY <1>2 DEF Moved, OthersKeep, Onward, InFlightPCs
  <2>2. CASE EventRead(r)
    <3>1. Made(r) /\ call[r].op = "create" /\ call[r].epoch = epoch
      BY <2>2 DEF EventRead, StoreInv, LocalsOK, InFlight, InFlightPCs, Current, Made
    <3> QED
      BY <2>1, <2>2, <3>1, HeadersKept DEF EventRead, EventFor, About, Made
  <2>3. CASE EventReread(r)
    <3>1. About(event[r], r)
      BY <2>3 DEF EventReread, EventsOK, StoreInv, LocalsOK
    <3> QED
      BY <2>1, <2>3, <3>1, HeadersKept DEF EventReread, About, Made
  <2>4. CASE ReplyRead(r) \/ ReplyReread(r) \/ NothingRead(r)
    <3>1. event' = event /\ pc[r] \notin {"allocated", "inserted"}
      BY <2>4 DEF ReplyRead, ReplyReread, NothingRead
    <3>2. event[r] # None => About(event[r], r)'
      BY <2>1, <3>1 DEF EventsOK, About, Made
    <3>3. Current(r)' => event[r] # None
      BY <2>1, <3>1 DEF EventsOK, Current
    <3> QED
      BY <2>1, <3>1, <3>2, <3>3, HeadersKept
  <2> QED
    BY <1>2, <2>2, <2>3, <2>4 DEF Moved
<1>3. ASSUME NEW r \in Requests, Appended(r) PROVE EventsOK'
  <2>1. About(event[r], r)
    BY <1>3 DEF Appended, EventsOK
  <2>2. /\ Len(log') = Len(log) + 1 /\ log'[Len(log) + 1] = event[r]
        /\ \A i \in DOMAIN log : log'[i] = log[i]
        /\ DOMAIN log' = DOMAIN log \cup {Len(log) + 1}
    BY <1>3 DEF Appended, StoreInv, TypeOK
  <2>3. event[r].by = r
    BY <2>1 DEF About
  <2>4. \A i \in DOMAIN log' : About(log[i], log[i].by)'
    <3> TAKE i \in DOMAIN log'
    <3> PICK q : q = log'[i].by
      OBVIOUS
    <3>1. About(log[i], q)'
      <4>1. CASE i \in DOMAIN log
        BY <1>3, <2>2, <4>1 DEF EventsOK, Appended, About, Made
      <4>2. CASE i = Len(log) + 1
        BY <1>3, <2>1, <2>2, <2>3, <4>2 DEF Appended, About, Made
      <4> QED
        BY <2>2, <4>1, <4>2
    <3> QED
      BY <3>1 DEF About, Made
  <2>5. \A q \in Requests :
          /\ (event[q] # None => About(event[q], q))'
          /\ Current(q)' => (event'[q] = None <=> pc'[q] \in {"allocated", "inserted"})
    BY <1>3 DEF Appended, EventsOK, About, Made, Current
  <2> QED
    BY <2>4, <2>5 DEF EventsOK
<1>4. ASSUME NEW r \in Requests, Inserted(r) PROVE EventsOK'
  <2>1. /\ OthersKeep(r) /\ Onward /\ UNCHANGED <<call, event, log, epoch>>
        /\ Current(r) /\ pc[r] = "allocated" /\ pc'[r] = "inserted"
    BY <1>4 DEF Inserted, Onward, OthersKeep, Creator
  <2>2. event[r] = None
    BY <2>1 DEF EventsOK
  <2> QED
    BY <2>1, <2>2, HeadersKept
<1>5. ASSUME NEW r \in Requests, CreateUndone(r) PROVE EventsOK'
  BY <1>5, HeadersKept
     DEF CreateUndone, Onward, OthersKeep, EventsOK, About, Made, Current
<1>6. ASSUME NEW r \in Requests, NEW e \in Employees, Allocated(r, e)
      PROVE  EventsOK'
  <2>1. /\ OthersKeep(r) /\ Onward /\ UNCHANGED log
        /\ event'[r] = None /\ pc'[r] = "allocated"
    BY <1>1, <1>6 DEF Allocated, Onward, OthersKeep
  <2> QED
    BY <2>1, HeadersKept
<1>7. ASSUME NEW r \in Requests, NEW op \in {"update", "delete"}, ChangeUndone(r, op)
      PROVE  EventsOK'
  BY <1>7, HeadersKept
     DEF ChangeUndone, Onward, OthersKeep, EventsOK, About, Made, Current
<1>8. ASSUME NEW r \in Requests, NEW op \in {"update", "delete"},
             NEW id \in Ids, NEW after \in Todo, Started(r, op, id, after)
      PROVE  EventsOK'
  <2>1. /\ OthersKeep(r) /\ Onward /\ UNCHANGED log
        /\ event'[r] # None /\ pc'[r] = "publishing"
    BY <1>1, <1>8 DEF Started, Onward, OthersKeep
  <2>2. About(event[r], r)'
    BY <1>8 DEF Started, EventFor, About, Made
  <2> QED
    BY <2>1, <2>2, HeadersKept
<1>9. CASE Restarted
  <2>1. \A q \in Requests : (event[q] # None => About(event[q], q))'
    BY <1>9 DEF Restarted, EventsOK, About, Made
  <2>2. \A i \in DOMAIN log : About(log[i], log[i].by)'
    BY <1>9 DEF Restarted, EventsOK, About, Made
  <2> QED
    BY <1>9, <2>1, <2>2 DEF Restarted, EventsOK
<1>10. CASE UNCHANGED vars
  BY <1>10 DEF vars, EventsOK, About, Made, Current
<1> QED
  BY <1>2, <1>3, <1>4, <1>5, <1>6, <1>7, <1>8, <1>9, <1>10, StepKinds

\* What the steps of r leave true of the reports about the others, and of
\* every todo and entry that the step does not touch.
LEMMA ReportsOnward ==
  ASSUME StoreInv, EventsOK, ReportsOK, NEW r \in Requests, Onward, OthersKeep(r)
  PROVE  /\ \A q \in Requests \ {r} : EventTruthful(q)' /\ ReplyTruthful(q)'
         /\ \A q \in Requests, id \in DOMAIN todos :
              (event'[q] = event[q] /\ todos'[id] = todos[id]) => TodoExplained(q, id)'
         /\ \A q \in Requests, i \in DOMAIN log :
              log'[i] = log[i] => EntryTruthful(q, i)'
<1>1. \A q \in Requests : event[q] # None => About(event[q], q) /\ Made(q)
  BY DEF EventsOK, About
<1>2. ASSUME NEW q \in Requests \ {r} PROVE EventTruthful(q)'
  <2> SUFFICES ASSUME Creator(q)', event'[q] # None
               PROVE  /\ event'[q].content # q => Reached("update", q)'
                      /\ event'[q].deleted => Reached("delete", q)'
    BY DEF EventTruthful, Caused
  <2>1. event'[q] = event[q] /\ Made(q) /\ Creator(q)
    BY <1>1, OnwardKeepsCauses DEF OthersKeep
  <2> QED
    BY <2>1, OnwardKeepsCauses DEF ReportsOK, EventTruthful, Caused
<1>3. ASSUME NEW q \in Requests \ {r} PROVE ReplyTruthful(q)'
  <2> SUFFICES ASSUME Creator(q)', pc'[q] \in {"answering", "ok"}
               PROVE  /\ reply'[q].content # q => Reached("update", q)'
                      /\ reply'[q].deleted => Reached("delete", q)'
                      /\ ( \/ event'[q].content # q /\ reply'[q].content = q
                           \/ event'[q].deleted /\ ~reply'[q].deleted ) => TakenBack(q)'
    BY DEF ReplyTruthful, Caused, Explained
  <2>1. /\ event'[q] = event[q] /\ reply'[q] = reply[q] /\ pc'[q] = pc[q]
        /\ Creator(q) /\ Made(q)
    BY DEF OthersKeep, Onward, Creator, Current, Made
  <2> QED
    BY <2>1, OnwardKeepsCauses DEF ReportsOK, ReplyTruthful, Caused, Explained
<1>4. ASSUME NEW q \in Requests, NEW id \in DOMAIN todos,
             event'[q] = event[q], todos'[id] = todos[id]
      PROVE  TodoExplained(q, id)'
  <2> SUFFICES ASSUME Creator(q)', event'[q] # None, call'[q].id = id,
                      \/ event'[q].content # q /\ todos'[id].content = q
                      \/ event'[q].deleted /\ ~todos'[id].deleted
               PROVE  TakenBack(q)'
    BY DEF TodoExplained, Explained
  <2>1. Made(q) /\ Creator(q) /\ call[q].id = id
    BY <1>1, <1>4, OnwardKeepsCauses DEF Onward
  <2> QED
    BY <1>4, <2>1, OnwardKeepsCauses DEF ReportsOK, TodoExplained, Explained
<1>5. ASSUME NEW q \in Requests, NEW i \in DOMAIN log, log'[i] = log[i]
      PROVE  EntryTruthful(q, i)'
  <2> SUFFICES ASSUME log'[i].by = q, log'[i].type = "create", log'[i].epoch = epoch'
               PROVE  /\ log'[i].content # q => Reached("update", q)'
                      /\ log'[i].deleted => Reached("delete", q)'
    BY DEF EntryTruthful, Caused
  <2>1. Made(q)
    BY <1>5 DEF EventsOK, About
  <2>2. EntryTruthful(q, i) /\ epoch' = epoch
    BY DEF ReportsOK, Onward
  <2> QED
    BY <1>5, <2>1, <2>2, OnwardKeepsCauses DEF EntryTruthful, Caused
<1> QED
  BY <1>2, <1>3, <1>4, <1>5

\* A step of r that neither reads nor writes a todo.
LEMMA SameReportsKeep ==
  ASSUME StoreInv, EventsOK, ReportsOK, NEW r \in Requests, Onward, OthersKeep(r),
         UNCHANGED <<event, reply, log>>,
         Creator(r)' => pc'[r] \notin {"answering", "ok"},
         \A q \in Requests, id \in DOMAIN todos' :
           (Creator(q) /\ event[q] # None /\ call[q].id = id) =>
             TakenBack(q)' \/ (id \in DOMAIN todos /\ todos'[id] = todos[id])
  PROVE  ReportsOK'
<1>1. \A q \in Requests : event[q] # None => Made(q)
  BY DEF EventsOK, About
<1>2. EventTruthful(r)'
  <2> SUFFICES ASSUME Creator(r)', event[r] # None
               PROVE  /\ event[r].content # r => Reached("update", r)'
                      /\ event[r].deleted => Reached("delete", r)'
    BY DEF EventTruthful, Caused
  <2>1. Creator(r) /\ Made(r)
    BY <1>1, OnwardKeepsCauses
  <2> QED
    BY <2>1, OnwardKeepsCauses DEF ReportsOK, EventTruthful, Caused
<1>3. ReplyTruthful(r)'
  BY DEF ReplyTruthful
<1>4. \A q \in Requests, id \in DOMAIN todos' : TodoExplained(q, id)'
  <2> TAKE q \in Requests, id \in DOMAIN todos'
  <2>1. CASE id \in DOMAIN todos /\ todos'[id] = todos[id]
    BY <2>1, ReportsOnward
  <2>2. CASE TakenBack(q)'
    BY <2>2 DEF TodoExplained, Explained
  <2>3. CASE ~(Creator(q) /\ event[q] # None /\ call[q].id = id)
    <3>1. event[q] # None => (Creator(q)' <=> Creator(q)) /\ call'[q] = call[q]
      BY <1>1, OnwardKeepsCauses DEF Onward
    <3> QED
      BY <2>3, <3>1 DEF TodoExplained
  <2> QED
    BY <2>1, <2>2, <2>3
<1>5. \A q \in Requests, i \in DOMAIN log : EntryTruthful(q, i)'
  BY ReportsOnward
<1> QED
  BY <1>2, <1>3, <1>4, <1>5, ReportsOnward DEF ReportsOK

\* What a createTodo call can find when it looks at its todo.
LEMMA LooksCaused ==
  ASSUME StoreInv, RacesInv, NEW r \in Requests,
         pc[r] \in {"inserted", "reading", "published", "answering"}
  PROVE  /\ Creator(r) /\ Made(r)
         /\ call[r].id \in DOMAIN todos
         /\ todos[call[r].id].content # r => Reached("update", r)
         /\ todos[call[r].id].deleted => Reached("delete", r)
<1> PICK id : id = call[r].id
  OBVIOUS
<1>1. Creator(r) /\ Current(r) /\ Made(r) /\ id \in DOMAIN todos
  BY DEF StoreInv, LocalsOK, CreatedInMap, Creator, Current, Made, InFlight, InFlightPCs
<1>2. todos[id].content # r => Calls("update", id) # {}
  BY <1>1 DEF RacesInv, TextsOK, Creator
<1>3. todos[id].deleted => Calls("delete", id) # {}
  BY <1>1 DEF RacesInv, HiddenOK, Standing
<1> QED
  BY <1>1, <1>2, <1>3 DEF Calls, Reached

LEMMA MovedKeepsReports ==
  ASSUME StoreInv, RacesInv, EventsOK, ReportsOK, NEW r \in Requests, Moved(r)
  PROVE  ReportsOK'
<1> PICK id : id = call[r].id
  OBVIOUS
<1>1. /\ Onward /\ OthersKeep(r) /\ UNCHANGED <<todos, call, epoch, log>>
  BY DEF Moved, OthersKeep, Onward
<1>2. CASE NothingRead(r)
  <2>1. Creator(r)' => pc'[r] \notin {"answering", "ok"}
    BY <1>1, <1>2 DEF NothingRead, Creator
  <2> QED
    BY <1>1, <1>2, <2>1, SameReportsKeep DEF NothingRead
<1> SUFFICES ASSUME EventRead(r) \/ EventReread(r) \/ ReplyRead(r) \/ ReplyReread(r)
             PROVE  ReportsOK'
  BY <1>2 DEF Moved
<1>3. /\ Creator(r) /\ Made(r) /\ id \in DOMAIN todos
      /\ todos[id].content # r => Reached("update", r)
      /\ todos[id].deleted => Reached("delete", r)
  BY LooksCaused DEF EventRead, EventReread, ReplyRead, ReplyReread
<1>4. /\ \A op : Reached(op, r) => Reached(op, r)'
      /\ TakenBack(r) => TakenBack(r)'
  BY <1>1, <1>3, OnwardKeepsCauses
<1>5. EventTruthful(r)'
  <2> SUFFICES /\ event'[r].content # r => Reached("update", r)
               /\ event'[r].deleted => Reached("delete", r)
    BY <1>4 DEF EventTruthful, Caused
  <2>1. pc[r] \notin {"inserted"} => EventTruthful(r) /\ event[r] # None
    BY <1>3 DEF EventRead, EventReread, ReplyRead, ReplyReread, ReportsOK,
                EventsOK, Creator
  <2>2. pc[r] \notin {"inserted"} =>
          /\ event[r].content # r => Reached("update", r)
          /\ event[r].deleted => Reached("delete", r)
    BY <1>3, <2>1 DEF EventTruthful, Caused
  <2>3. CASE EventRead(r)
    BY <1>3, <2>3 DEF EventRead, EventFor
  <2>4. CASE EventReread(r)
    BY <1>3, <2>2, <2>4 DEF EventReread
  <2>5. CASE ReplyRead(r) \/ ReplyReread(r)
    BY <2>2, <2>5 DEF ReplyRead, ReplyReread
  <2> QED
    BY <2>3, <2>4, <2>5
<1>6. ( /\ pc[r] # "inserted"
        /\ \/ event[r].content # r /\ todos[id].content = r
           \/ event[r].deleted /\ ~todos[id].deleted ) => TakenBack(r)
  <2>1. pc[r] # "inserted" => event[r] # None
    BY <1>3 DEF EventRead, EventReread, ReplyRead, ReplyReread, EventsOK, Creator
  <2> QED
    BY <1>3, <2>1 DEF ReportsOK, TodoExplained, Explained
<1>7. ( \/ event'[r].content # r /\ todos[id].content = r
        \/ event'[r].deleted /\ ~todos[id].deleted ) => TakenBack(r)
  <2>1. CASE EventRead(r)
    BY <2>1 DEF EventRead, EventFor
  <2>2. CASE EventReread(r)
    BY <1>6, <2>2 DEF EventReread
  <2>3. CASE ReplyRead(r) \/ ReplyReread(r)
    BY <1>6, <2>3 DEF ReplyRead, ReplyReread
  <2> QED
    BY <2>1, <2>2, <2>3
<1>8. \A q \in Requests, i \in DOMAIN todos' : TodoExplained(q, i)'
  <2> TAKE q \in Requests, i \in DOMAIN todos'
  <2>1. CASE q = r
    BY <1>1, <1>4, <1>7, <2>1 DEF TodoExplained, Explained
  <2>2. CASE q # r
    <3>1. event'[q] = event[q]
      BY <1>1, <2>2 DEF OthersKeep
    <3> QED
      BY <1>1, <3>1, ReportsOnward
  <2> QED
    BY <2>1, <2>2
<1>9. ReplyTruthful(r)'
  <2> SUFFICES ASSUME pc'[r] \in {"answering", "ok"}
               PROVE  /\ reply'[r].content # r => Reached("update", r)
                      /\ reply'[r].deleted => Reached("delete", r)
                      /\ ( \/ event'[r].content # r /\ reply'[r].content = r
                           \/ event'[r].deleted /\ ~reply'[r].deleted ) => TakenBack(r)
    BY <1>4 DEF ReplyTruthful, Caused, Explained
  <2>1. CASE ReplyRead(r)
    BY <1>3, <1>6, <2>1 DEF ReplyRead
  <2>2. CASE ReplyReread(r)
    <3>1. /\ reply[r].content # r => Reached("update", r)
          /\ event[r].content # r /\ reply[r].content = r => TakenBack(r)
      BY <1>3, <2>2 DEF ReplyReread, ReportsOK, ReplyTruthful, Caused, Explained
    <3> QED
      BY <1>3, <1>6, <2>2, <3>1, TextAssumption DEF ReplyReread
  <2>3. CASE EventRead(r) \/ EventReread(r)
    BY <2>3 DEF EventRead, EventReread
  <2> QED
    BY <2>1, <2>2, <2>3
<1>10. \A q \in Requests, i \in DOMAIN log' : EntryTruthful(q, i)'
  BY <1>1, ReportsOnward
<1> QED
  BY <1>1, <1>5, <1>8, <1>9, <1>10, ReportsOnward DEF ReportsOK

LEMMA AppendedKeepsReports ==
  ASSUME StoreInv, CallsInv, EventsOK, ReportsOK, NEW r \in Requests, Appended(r)
  PROVE  ReportsOK'
<1>1. Onward /\ OthersKeep(r) /\ UNCHANGED <<todos, pc, call, event, reply, epoch>>
  BY DEF Appended, Onward, OthersKeep
<1>2. About(event[r], r)
  BY DEF Appended, EventsOK
<1>3. /\ DOMAIN log' = DOMAIN log \cup {Len(log) + 1}
      /\ log'[Len(log) + 1] = event[r]
      /\ \A i \in DOMAIN log : log'[i] = log[i]
  BY DEF Appended, StoreInv, TypeOK
<1>4. \A q \in Requests : EventTruthful(q)' /\ ReplyTruthful(q)'
  <2> TAKE q \in Requests
  <2>1. /\ Creator(q)' <=> Creator(q)
        /\ \A op : Reached(op, q)' <=> Reached(op, q)
        /\ TakenBack(q)' <=> TakenBack(q)
    BY <1>1 DEF Creator, Current, Reached, TakenBack
  <2>2. EventTruthful(q)'
    BY <1>1, <2>1 DEF ReportsOK, EventTruthful, Caused
  <2>3. ReplyTruthful(q)'
    BY <1>1, <2>1 DEF ReportsOK, ReplyTruthful, Caused, Explained
  <2> QED
    BY <2>2, <2>3
<1>5. \A q \in Requests, id \in DOMAIN todos : TodoExplained(q, id)'
  BY <1>1, ReportsOnward
<1>6. \A q \in Requests, i \in DOMAIN log' :
        i = Len(log) + 1 => EntryTruthful(q, i)'
  <2> SUFFICES ASSUME event[r].type = "create", event[r].epoch = epoch
               PROVE  /\ event[r].content # r => Reached("update", r)'
                      /\ event[r].deleted => Reached("delete", r)'
    BY <1>1, <1>2, <1>3 DEF EntryTruthful, Caused, About
  <2>1. Creator(r) /\ Made(r)
    BY <1>2 DEF About, Creator, Current, Made
  <2>2. /\ event[r].content # r => Reached("update", r)
        /\ event[r].deleted => Reached("delete", r)
    BY <2>1 DEF Appended, ReportsOK, EventTruthful, Caused
  <2> QED
    BY <1>1, <2>1, <2>2, OnwardKeepsCauses
<1>7. \A q \in Requests, i \in DOMAIN log : EntryTruthful(q, i)'
  BY <1>1, <1>3, ReportsOnward
<1> QED
  BY <1>1, <1>3, <1>4, <1>5, <1>6, <1>7 DEF ReportsOK

LEMMA AllocatedKeepsReports ==
  ASSUME StoreInv, CallsInv, EventsOK, ReportsOK, NEW r \in Requests,
         NEW e \in Employees, Allocated(r, e)
  PROVE  ReportsOK'
<1>1. /\ ~Made(r) /\ Onward /\ OthersKeep(r)
      /\ UNCHANGED <<todos, event, reply, log>> /\ pc'[r] = "allocated"
  BY DEF Allocated, CallsInv, CallsOK, Onward, OthersKeep
<1> QED
  BY <1>1, SameReportsKeep

LEMMA InsertedKeepsReports ==
  ASSUME StoreInv, CallsInv, EventsOK, ReportsOK, NEW r \in Requests, Inserted(r)
  PROVE  ReportsOK'
<1> PICK id : id = call[r].id
  OBVIOUS
<1>1. /\ Onward /\ OthersKeep(r) /\ UNCHANGED <<event, reply, log>>
      /\ Creator(r) /\ Current(r) /\ pc[r] = "allocated" /\ pc'[r] = "inserted"
      /\ DOMAIN todos' = DOMAIN todos \cup {id} /\ id \notin DOMAIN todos
      /\ \A i \in DOMAIN todos \ {id} : todos'[i] = todos[i]
  BY DEF Inserted, TodoBecomes, Onward, OthersKeep, Creator
<1>2. \A q \in Requests : Creator(q) /\ event[q] # None => call[q].id # id
  BY <1>1 DEF CallsInv, CreatorsApart, EventsOK, Creator
<1> QED
  BY <1>1, <1>2, SameReportsKeep

LEMMA CreateUndoneKeepsReports ==
  ASSUME StoreInv, EventsOK, ReportsOK, NEW r \in Requests, CreateUndone(r)
  PROVE  ReportsOK'
<1>1. /\ Onward /\ OthersKeep(r) /\ UNCHANGED <<event, reply, log>>
      /\ pc'[r] = "failed" /\ \A id \in DOMAIN todos' :
                                id \in DOMAIN todos /\ todos'[id] = todos[id]
  BY DEF CreateUndone, Onward, OthersKeep
<1> QED
  BY <1>1, SameReportsKeep

\* Whatever a rollback restores, it explains.
LEMMA ChangeUndoneKeepsReports ==
  ASSUME StoreInv, EventsOK, ReportsOK, NEW r \in Requests,
         NEW op \in {"update", "delete"}, ChangeUndone(r, op)
  PROVE  ReportsOK'
<1> PICK id : id = call[r].id
  OBVIOUS
<1>1. /\ Onward /\ OthersKeep(r) /\ UNCHANGED <<call, event, reply, log>>
      /\ Current(r)' /\ call[r].op = op /\ pc'[r] = "failed"
      /\ DOMAIN todos' = DOMAIN todos
      /\ \A i \in DOMAIN todos \ {id} : todos'[i] = todos[i]
  BY DEF ChangeUndone, TodoBecomes, Onward, OthersKeep, Current
<1>2. \A q \in Requests : call[q].id = id => TakenBack(q)'
  BY <1>1 DEF TakenBack
<1> QED
  BY <1>1, <1>2, SameReportsKeep

LEMMA StartedKeepsReports ==
  ASSUME StoreInv, CallsInv, EventsOK, ReportsOK, NEW r \in Requests,
         NEW op \in {"update", "delete"}, NEW id \in Ids, NEW after \in Todo,
         Started(r, op, id, after)
  PROVE  ReportsOK'
<1>1. /\ Onward /\ OthersKeep(r) /\ ~Made(r) /\ UNCHANGED <<reply, log>>
      /\ call'[r].op = op /\ pc'[r] = "publishing"
  BY DEF Started, CallsInv, CallsOK, Onward, OthersKeep
<1>2. /\ DOMAIN todos' = DOMAIN todos /\ id \in DOMAIN todos
      /\ ~todos[id].deleted /\ (todos'[id].deleted <=> op = "delete")
      /\ todos'[id].content = (IF op = "update" THEN r ELSE todos[id].content)
      /\ \A i \in DOMAIN todos \ {id} : todos'[i] = todos[i]
  BY DEF Started, TodoBecomes
<1>3. ~Creator(r)'
  BY <1>1 DEF Creator
<1>4. EventTruthful(r)' /\ ReplyTruthful(r)'
  BY <1>3 DEF EventTruthful, ReplyTruthful
<1>5. \A q \in Requests, i \in DOMAIN todos' : TodoExplained(q, i)'
  <2> TAKE q \in Requests, i \in DOMAIN todos'
  <2>1. CASE q = r
    BY <1>3, <2>1 DEF TodoExplained
  <2>2. CASE q # r /\ i # id
    <3>1. event'[q] = event[q]
      BY <1>1, <2>2 DEF OthersKeep
    <3> QED
      BY <1>1, <1>2, <2>2, <3>1, ReportsOnward
  <2>3. CASE q # r /\ i = id
    <3> SUFFICES ASSUME Creator(q)', event'[q] # None, call'[q].id = id,
                        \/ event'[q].content # q /\ todos'[id].content = q
                        \/ event'[q].deleted /\ ~todos'[id].deleted
                 PROVE  TakenBack(q)'
      BY <2>3 DEF TodoExplained, Explained
    <3>1. event'[q] = event[q] /\ call'[q] = call[q]
      BY <1>1, <2>3 DEF OthersKeep
    <3>2. Made(q) /\ Creator(q)
      BY <1>1, <2>3, <3>1, OnwardKeepsCauses DEF EventsOK, About
    <3>3. \/ event[q].content # q /\ todos[id].content = q
          \/ event[q].deleted /\ ~todos[id].deleted
      BY <1>2, <2>3, <3>1
    <3>4. TakenBack(q)
      BY <1>2, <3>1, <3>2, <3>3 DEF ReportsOK, TodoExplained, Explained
    <3> QED
      BY <1>1, <3>2, <3>4, OnwardKeepsCauses
  <2> QED
    BY <2>1, <2>2, <2>3
<1>6. \A q \in Requests, i \in DOMAIN log' : EntryTruthful(q, i)'
  BY <1>1, ReportsOnward
<1> QED
  BY <1>1, <1>4, <1>5, <1>6, ReportsOnward DEF ReportsOK

LEMMA ReportsInvKept ==
  ASSUME StoreInv, CallsInv, RacesInv, ReportsInv, [Next]_vars
  PROVE  ReportsInv'
<1> USE DEF ReportsInv
<1>1. CASE UNCHANGED vars
  <2>1. \A q \in Requests : /\ Creator(q)' <=> Creator(q)
                            /\ \A op : Reached(op, q)' <=> Reached(op, q)
                            /\ TakenBack(q)' <=> TakenBack(q)
    BY <1>1 DEF vars, Creator, Current, Reached, TakenBack
  <2>2. \A q \in Requests : EventTruthful(q)' /\ ReplyTruthful(q)'
    BY <1>1, <2>1 DEF vars, ReportsOK, EventTruthful, ReplyTruthful, Caused, Explained
  <2>3. \A q \in Requests, id \in DOMAIN todos : TodoExplained(q, id)'
    BY <1>1, <2>1 DEF vars, ReportsOK, TodoExplained, Explained
  <2>4. \A q \in Requests, i \in DOMAIN log : EntryTruthful(q, i)'
    BY <1>1, <2>1 DEF vars, ReportsOK, EntryTruthful, Caused
  <2> QED
    BY <1>1, <2>2, <2>3, <2>4, EventsOKKept DEF vars, ReportsOK
<1>2. CASE Restarted
  <2>1. \A q \in Requests : ~Creator(q)'
    BY <1>2 DEF Restarted, Creator
  <2>2. \A q \in Requests, i \in DOMAIN log : EntryTruthful(q, i)'
    <3> TAKE q \in Requests, i \in DOMAIN log
    <3>1. log[i].by = q => call[q] # None /\ log[i].epoch = call[q].epoch
      BY DEF EventsOK, About, Made
    <3>2. call[q] # None => call[q].epoch \in Nat /\ call[q].epoch <= epoch
      BY DEF StoreInv, TypeOK, LocalsOK, Call
    <3> QED
      BY <1>2, <3>1, <3>2 DEF Restarted, EntryTruthful, StoreInv, TypeOK
  <2> QED
    BY <1>2, <2>1, <2>2, EventsOKKept
       DEF Restarted, ReportsOK, EventTruthful, ReplyTruthful, TodoExplained
<1> QED
  BY <1>1, <1>2, StepKinds, EventsOKKept, MovedKeepsReports, AppendedKeepsReports,
     AllocatedKeepsReports, InsertedKeepsReports, CreateUndoneKeepsReports,
     ChangeUndoneKeepsReports, StartedKeepsReports
-----------------------------------------------------------------------------
(* The theorems *)

LEMMA InitGuaranteesInv == Init => GuaranteesInv
<1> SUFFICES ASSUME Init PROVE GuaranteesInv
  OBVIOUS
<1>1. \A r \in Requests : pc[r] = "idle" /\ call[r] = None /\ event[r] = None
                          /\ ~Made(r) /\ ~Current(r)
  BY DEF Init, Made, Current
<1>2. /\ DOMAIN todos = 1..2 /\ log = <<>>
      /\ \A id \in 1..2 : /\ ~todos[id].deleted /\ todos[id].content = Seed
                          /\ id \in todosByEmployee[todos[id].employee]
  BY SeedAssumption DEF Init, SeededTodos, SeedTodo, SeededIndex
<1>3. CallsInv
  BY <1>1, <1>2, TextAssumption DEF CallsInv, CallsOK, IdleTextNowhere, CreatorsApart
<1>4. RacesInv
  BY <1>1, <1>2 DEF RacesInv, HiddenOK, TextsOK, DeletesOK, Calls
<1>5. EventsOK
  BY <1>1, <1>2 DEF EventsOK
<1>6. ReportsOK
  BY <1>1, <1>2 DEF ReportsOK, EventTruthful, ReplyTruthful, TodoExplained,
                    EntryTruthful, Creator
<1> QED
  BY <1>3, <1>4, <1>5, <1>6, InitStoreInv DEF GuaranteesInv, ReportsInv

\* No step, of the program, of Kafka or of a restart, breaks the invariants
\* of TodoGuarantees.
THEOREM GuaranteesInvAlways == Spec => []GuaranteesInv
<1>1. StoreInv /\ StoreInv' /\ GuaranteesInv /\ [Next]_vars => GuaranteesInv'
  BY CallsInvKept, RacesInvKept, ReportsInvKept DEF GuaranteesInv
<1> QED
  BY <1>1, InitGuaranteesInv, StoreInvInductive, PTL DEF Spec

\* A todo that TodoByID shows and EmployeeTodos does not was brought back by
\* the rollback of an update from a delete that stands.
THEOREM HiddenOnlyByFailedUpdateAlways == Spec => []HiddenOnlyByFailedUpdate
<1>1. GuaranteesInv => HiddenOnlyByFailedUpdate
  BY DEF GuaranteesInv, RacesInv, HiddenOK, Undone, Standing,
         HiddenOnlyByFailedUpdate, TodoByID, Found, EmployeeTodos
<1> QED
  BY <1>1, GuaranteesInvAlways, PTL

\* From its insertion on, a created todo is listed unless its creation
\* failed or a delete of it did not.
THEOREM CreatedTodoListedAlways == Spec => []CreatedTodoListed
<1>1. GuaranteesInv => CreatedTodoListed
  <2> SUFFICES ASSUME GuaranteesInv, NEW r \in Requests, Current(r),
                      pc[r] \in (InFlightPCs \ {"allocated"}) \cup {"ok"},
                      call[r].op = "create",
                      call[r].id \notin EmployeeTodos(call[r].original.employee)
               PROVE  \E d \in Calls("delete", call[r].id) : pc[d] # "failed"
    BY DEF CreatedTodoListed
  <2>1. /\ call[r].id \in DOMAIN todos
        /\ todos[call[r].id].employee = call[r].original.employee
    BY DEF GuaranteesInv, StoreInv, CreatedInMap, Creator, InFlightPCs
  <2>2. Standing("delete", call[r].id)
    BY <2>1 DEF GuaranteesInv, RacesInv, HiddenOK, EmployeeTodos
  <2> QED
    BY <2>2 DEF Standing
<1> QED
  BY <1>1, GuaranteesInvAlways, PTL

\* An acknowledged text is lost only to a later update, or to the rollback
\* of an update that began before it.
THEOREM AckedTextSurvivesAlways == Spec => []AckedTextSurvives
<1>1. GuaranteesInv => AckedTextSurvives
  BY DEF GuaranteesInv, RacesInv, TextsOK, AckedTextSurvives
<1> QED
  BY <1>1, GuaranteesInvAlways, PTL

\* The text of a failed update comes back only with the rollback of an
\* update that had seen it.
THEOREM FailedTextGoneAlways == Spec => []FailedTextGone
<1>1. GuaranteesInv => FailedTextGone
  BY DEF GuaranteesInv, RacesInv, TextsOK, FailedTextGone
<1> QED
  BY <1>1, GuaranteesInvAlways, PTL

\* An acknowledged delete is undone only by the rollback of an update.
THEOREM AckedDeleteSticksAlways == Spec => []AckedDeleteSticks
<1>1. GuaranteesInv => AckedDeleteSticks
  BY DEF GuaranteesInv, RacesInv, DeletesOK, Undone, AckedDeleteSticks,
         TodoByID, Found, Calls
<1> QED
  BY <1>1, GuaranteesInvAlways, PTL

\* What createTodo publishes and answers of its todo, read without the lock,
\* differs from what it created only as far as other calls reached the todo.
THEOREM CreatedReportsTruthfulAlways == Spec => []CreatedReportsTruthful
<1>1. GuaranteesInv => CreatedReportsTruthful
  <2> SUFFICES ASSUME GuaranteesInv PROVE CreatedReportsTruthful
    OBVIOUS
  <2> USE DEF GuaranteesInv, ReportsInv
  <2>1. ASSUME NEW i \in DOMAIN log, log[i].type = "create", log[i].epoch = epoch
        PROVE  /\ log[i].content # log[i].by => Calls("update", log[i].todo) # {}
               /\ log[i].deleted => Calls("delete", log[i].todo) # {}
    <3>1. log[i].by \in Requests
      BY EntryTyped DEF StoreInv, TodoEvent
    <3>2. call[log[i].by].id = log[i].todo
      BY DEF EventsOK, About
    <3>3. Caused(log[i].by, log[i].content, log[i].deleted)
      BY <2>1, <3>1 DEF ReportsOK, EntryTruthful
    <3> QED
      BY <3>2, <3>3 DEF Caused, Reached, Calls
  <2>2. ASSUME NEW r \in Requests, Current(r), pc[r] = "ok", call[r].op = "create"
        PROVE  /\ Caused(r, reply[r].content, reply[r].deleted)
               /\ Explained(r, reply[r].content, reply[r].deleted)
    BY <2>2 DEF ReportsOK, ReplyTruthful, Creator
  <2>3. \A r \in Requests, op \in {"update", "delete"} :
          Reached(op, r) => Calls(op, call[r].id) # {}
    BY DEF Reached, Calls
  <2>4. \A r \in Requests : TakenBack(r) =>
          \E q \in Calls("update", call[r].id) \cup Calls("delete", call[r].id) :
            pc[q] = "failed"
    BY DEF TakenBack, Calls
  <2> QED
    BY <2>1, <2>2, <2>3, <2>4 DEF CreatedReportsTruthful, Caused, Explained
<1> QED
  BY <1>1, GuaranteesInvAlways, PTL

\* In the topic, too, an id names one created todo per process.
THEOREM IdsUniqueInEpochAlways == Spec => []IdsUniqueInEpoch
<1>1. GuaranteesInv => IdsUniqueInEpoch
  <2> SUFFICES ASSUME GuaranteesInv, NEW i \in DOMAIN log, NEW j \in DOMAIN log,
                      log[i].type = "create", log[j].type = "create",
                      log[i].todo = log[j].todo, log[i].epoch = log[j].epoch
               PROVE  log[i].by = log[j].by
    BY DEF IdsUniqueInEpoch
  <2>1. log[i].by \in Requests /\ log[j].by \in Requests
    BY EntryTyped DEF GuaranteesInv, StoreInv, TodoEvent
  <2>2. About(log[i], log[i].by) /\ About(log[j], log[j].by)
    BY DEF GuaranteesInv, ReportsInv, EventsOK
  <2> QED
    BY <2>1, <2>2 DEF About, GuaranteesInv, CallsInv, CreatorsApart
<1> QED
  BY <1>1, GuaranteesInvAlways, PTL
=============================================================================
