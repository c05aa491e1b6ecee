--------------------------- MODULE TodoTurnsProofs ---------------------------
(***************************************************************************)
(* Proofs about clients that take turns: the topic's last event about a    *)
(* todo describes it, and TodoStore implements TodoContract, for any       *)
(* number of employees, requests and copies of an event.                   *)
(***************************************************************************)
EXTENDS TodoTurns, TodoStoreProofs, FiniteSetTheorems

Creates == {r \in Requests : Made(r) /\ call[r].op = "create"}

\* No request works on r's todo but r.
LEMMA OthersElsewhere ==
  ASSUME OneInFlight, NEW r \in Requests, InFlight(r)
  PROVE  \A q \in Requests \ {r} : InFlight(q) => call[q].id # call[r].id
BY DEF OneInFlight

LEMMA MadeIsCurrent ==
  ASSUME StoreInv, OneInFlight, NEW r \in Requests
  PROVE  Made(r) <=> Current(r)
<1>1. Made(r) => call[r].epoch \in Nat /\ call[r].epoch <= epoch
  BY DEF Made, StoreInv, LocalsOK, TypeOK, Call
<1> QED
  BY <1>1 DEF Made, Current, OneInFlight

LEMMA NoRestart ==
  ASSUME ClientsTakeTurns, StoreInv
  PROVE  ~Restarted
BY DEF ClientsTakeTurns, StoreInv, TypeOK, Restarted

\* Steps after which nobody is in flight who was not before.
LEMMA FlightsEnd ==
  ASSUME OneInFlight, NEW r \in Requests, OthersKeep(r),
         UNCHANGED <<call, epoch>>, pc'[r] # "lost",
         InFlight(r)' => InFlight(r)
  PROVE  OneInFlight'
<1>1. \A q \in Requests : InFlight(q)' => InFlight(q)
  BY DEF OthersKeep, InFlight
<1> QED
  BY <1>1 DEF OneInFlight, OthersKeep

LEMMA OneInFlightKept ==
  ASSUME ClientsTakeTurns, StoreInv, CallsInv, OneInFlight, [Next]_vars
  PROVE  OneInFlight'
<1>1. CASE UNCHANGED vars
  BY <1>1 DEF vars, OneInFlight, InFlight
<1>2. ASSUME NEW r \in Requests, Moved(r) PROVE OneInFlight'
  BY <1>2, FlightsEnd DEF Moved, InFlight, InFlightPCs
<1>3. ASSUME NEW r \in Requests, Appended(r) PROVE OneInFlight'
  BY <1>3 DEF Appended, OneInFlight, InFlight
<1>4. ASSUME NEW r \in Requests, Inserted(r) PROVE OneInFlight'
  BY <1>4, FlightsEnd DEF Inserted, InFlight, InFlightPCs
<1>5. ASSUME NEW r \in Requests, CreateUndone(r) PROVE OneInFlight'
  BY <1>5, FlightsEnd DEF CreateUndone, InFlight, InFlightPCs
<1>6. ASSUME NEW r \in Requests, NEW op \in {"update", "delete"}, ChangeUndone(r, op)
      PROVE  OneInFlight'
  BY <1>6, FlightsEnd DEF ChangeUndone, InFlight, InFlightPCs
<1>7. ASSUME NEW r \in Requests, NEW id, OthersKeep(r), UNCHANGED epoch,
             pc'[r] # "lost", call'[r].id = id,
             \A q \in Requests \ {r} : InFlight(q) => call[q].id # id
      PROVE  OneInFlight'
  <2>1. \A q \in Requests \ {r} : /\ InFlight(q)' <=> InFlight(q)
                                  /\ call'[q] = call[q] /\ pc'[q] = pc[q]
    BY <1>7 DEF OthersKeep, InFlight
  <2> QED
    BY <1>7, <2>1 DEF OneInFlight
<1>8. ASSUME NEW r \in Requests, NEW e \in Employees, Allocated(r, e)
      PROVE  OneInFlight'
  <2>1. \A q \in Requests : InFlight(q) => call[q].id \in Nat /\ call[q].id <= sequence
    BY DEF StoreInv, LocalsOK, CallsInv, CallsOK, TypeOK, Call, Ids, Current
  <2>2. \A q \in Requests : InFlight(q) => call[q].id # sequence + 1
    BY <2>1 DEF StoreInv, TypeOK
  <2>3. /\ OthersKeep(r) /\ UNCHANGED epoch /\ pc'[r] # "lost"
        /\ call'[r].id = sequence + 1
    BY <1>8 DEF Allocated
  <2> QED
    BY <1>7, <2>2, <2>3
<1>9. ASSUME NEW r \in Requests, NEW op \in {"update", "delete"},
             NEW id \in Ids, NEW after \in Todo, Started(r, op, id, after)
      PROVE  OneInFlight'
  <2>1. /\ OthersKeep(r) /\ UNCHANGED epoch /\ pc'[r] # "lost"
        /\ call'[r].id = id /\ Available(id)
    BY <1>9 DEF Started
  <2> QED
    BY <1>7, <2>1 DEF Available, ClientsTakeTurns
<1> QED
  BY <1>1, <1>2, <1>3, <1>4, <1>5, <1>6, <1>8, <1>9, StepKinds, NoRestart

\* What r holds, r being in flight with its todo in the map.
Holds(r) ==
  LET todo == todos[call[r].id]  original == call[r].original
  IN /\ call[r].id \in DOMAIN todos
     /\ todo.employee = original.employee
     /\ todo.content = (IF call[r].op = "delete" THEN original.content ELSE r)
     /\ todo.updatedAt = r
     /\ todo.deleted <=> call[r].op = "delete"

LEMMA HeldMeans ==
  HeldOK <=> \A r \in Requests :
    /\ (Made(r) /\ call[r].op = "create") => call[r].original.updatedAt = r
    /\ (InFlight(r) /\ pc[r] # "allocated") => Holds(r)
BY DEF HeldOK, Holds

\* Steps of r that touch no todo another request works on.
LEMMA OthersHold ==
  ASSUME HeldOK, NEW r \in Requests, OthersKeep(r),
         NEW id,
         \A q \in Requests \ {r} : InFlight(q) => call[q].id # id,
         \A i \in DOMAIN todos \ {id} : i \in DOMAIN todos' /\ todos'[i] = todos[i],
         (Made(r) /\ call[r].op = "create")' => call'[r].original.updatedAt = r,
         (InFlight(r) /\ pc[r] # "allocated")' => Holds(r)'
  PROVE  HeldOK'
<1>1. ASSUME NEW q \in Requests \ {r}
      PROVE  /\ (Made(q) /\ call[q].op = "create")' => call'[q].original.updatedAt = q
             /\ (InFlight(q) /\ pc[q] # "allocated")' => Holds(q)'
  <2>1. pc'[q] = pc[q] /\ call'[q] = call[q]
    BY DEF OthersKeep
  <2>2. (InFlight(q) /\ pc[q] # "allocated")' => Holds(q)'
    <3> SUFFICES ASSUME InFlight(q), pc[q] # "allocated" PROVE Holds(q)'
      BY <2>1 DEF InFlight
    <3> PICK i : i = call[q].id
      OBVIOUS
    <3>1. Holds(q) /\ i # id
      BY HeldMeans
    <3>2. i \in DOMAIN todos' /\ todos'[i] = todos[i]
      BY <3>1 DEF Holds
    <3> QED
      BY <2>1, <3>1, <3>2 DEF Holds
  <2> QED
    BY <2>1, <2>2, HeldMeans DEF Made
<1> QED
  BY <1>1 DEF HeldOK, Holds

LEMMA HeldOKKept ==
  ASSUME ClientsTakeTurns, StoreInv, CallsInv, OneInFlight, HeldOK, [Next]_vars
  PROVE  HeldOK'
<1> USE DEF OthersKeep
<1>1. CASE UNCHANGED vars
  BY <1>1 DEF vars, HeldOK, Made, InFlight
<1>2. ASSUME NEW r \in Requests, Moved(r) PROVE HeldOK'
  <2>1. /\ UNCHANGED <<call, todos>>
        /\ \A q \in Requests : (InFlight(q) /\ pc[q] # "allocated")' =>
                                 InFlight(q) /\ pc[q] # "allocated"
    BY <1>2 DEF Moved, InFlight, InFlightPCs
  <2>2. \A q \in Requests : Holds(q)' <=> Holds(q)
    BY <2>1 DEF Holds
  <2> QED
    BY <2>1, <2>2 DEF HeldOK, Holds, Made
<1>3. ASSUME NEW r \in Requests, Appended(r) PROVE HeldOK'
  BY <1>3 DEF Appended, HeldOK, Made, InFlight
<1>4. ASSUME NEW r \in Requests, Inserted(r) PROVE HeldOK'
  <2> PICK id : id = call[r].id
    OBVIOUS
  <2>1. /\ call' = call /\ OthersKeep(r) /\ Current(r) /\ InFlight(r)
        /\ call[r].op = "create" /\ Made(r)
        /\ id \in DOMAIN todos' /\ todos'[id] = call[r].original
        /\ ~call[r].original.deleted
        /\ \A i \in DOMAIN todos \ {id} : i \in DOMAIN todos' /\ todos'[i] = todos[i]
    BY <1>4 DEF Inserted, TodoBecomes, Creator, Current, Made, InFlight, InFlightPCs
  <2>2. call[r].original.content = r /\ call[r].original.updatedAt = r
    BY <2>1 DEF CallsInv, CallsOK, HeldOK
  <2>3. Holds(r)'
    BY <2>1, <2>2 DEF Holds
  <2>4. \A q \in Requests \ {r} : InFlight(q) => call[q].id # id
    BY <2>1, OthersElsewhere
  <2>5. /\ OthersKeep(r) /\ call'[r].original.updatedAt = r
        /\ \A i \in DOMAIN todos \ {id} : i \in DOMAIN todos' /\ todos'[i] = todos[i]
    BY <2>1, <2>2
  <2> QED
    BY <2>3, <2>4, <2>5, OthersHold
<1>5. ASSUME NEW r \in Requests, CreateUndone(r) PROVE HeldOK'
  <2> PICK id : id = call[r].id
    OBVIOUS
  <2>1. /\ call' = call /\ InFlight(r) /\ ~InFlight(r)' /\ OthersKeep(r)
        /\ \A i \in DOMAIN todos \ {id} : i \in DOMAIN todos' /\ todos'[i] = todos[i]
    BY <1>5 DEF CreateUndone, InFlight, InFlightPCs
  <2>2. (Made(r) /\ call[r].op = "create")' => call'[r].original.updatedAt = r
    BY <2>1 DEF HeldOK, Made
  <2> QED
    BY <2>1, <2>2, OthersElsewhere, OthersHold
<1>6. ASSUME NEW r \in Requests, NEW op \in {"update", "delete"}, ChangeUndone(r, op)
      PROVE  HeldOK'
  <2> PICK id : id = call[r].id
    OBVIOUS
  <2>1. /\ call' = call /\ InFlight(r) /\ ~InFlight(r)' /\ OthersKeep(r)
        /\ \A i \in DOMAIN todos \ {id} : i \in DOMAIN todos' /\ todos'[i] = todos[i]
    BY <1>6 DEF ChangeUndone, TodoBecomes, InFlight, InFlightPCs
  <2>2. (Made(r) /\ call[r].op = "create")' => call'[r].original.updatedAt = r
    BY <2>1 DEF HeldOK, Made
  <2>3. \A q \in Requests \ {r} : InFlight(q) => call[q].id # id
    BY <2>1, OthersElsewhere
  <2> QED
    BY <2>1, <2>2, <2>3, OthersHold
<1>7. ASSUME NEW r \in Requests, NEW e \in Employees, Allocated(r, e)
      PROVE  HeldOK'
  <2>1. /\ OthersKeep(r) /\ UNCHANGED todos /\ pc'[r] = "allocated"
        /\ call'[r].original.updatedAt = r
    BY <1>7 DEF Allocated
  <2>2. \A i \in DOMAIN todos : i \in DOMAIN todos' /\ todos'[i] = todos[i]
    BY <2>1
  <2>3. \A q \in Requests : InFlight(q) => call[q].id # 0
    BY CallTyped DEF StoreInv, Ids
  <2>4. ~(InFlight(r) /\ pc[r] # "allocated")'
    BY <2>1
  <2>5. \A i \in DOMAIN todos \ {0} : i \in DOMAIN todos' /\ todos'[i] = todos[i]
    BY <2>2
  <2>6. /\ \A q \in Requests \ {r} : InFlight(q) => call[q].id # 0
        /\ (Made(r) /\ call[r].op = "create")' => call'[r].original.updatedAt = r
        /\ (InFlight(r) /\ pc[r] # "allocated")' => Holds(r)'
    BY <2>1, <2>3, <2>4
  <2>7. OthersKeep(r)
    BY <2>1
  <2> HIDE DEF OthersKeep
  <2> QED
    BY <2>5, <2>6, <2>7, OthersHold
<1>8. ASSUME NEW r \in Requests, NEW op \in {"update", "delete"},
             NEW id \in Ids, NEW after \in Todo, Started(r, op, id, after)
      PROVE  HeldOK'
  <2>1. /\ OthersKeep(r) /\ Available(id)
        /\ call'[r].op = op /\ call'[r].id = id /\ call'[r].original = todos[id]
        /\ id \in DOMAIN todos' /\ todos'[id] = after
        /\ \A i \in DOMAIN todos \ {id} : i \in DOMAIN todos' /\ todos'[i] = todos[i]
    BY <1>8 DEF Started, TodoBecomes
  <2>2. /\ after.employee = todos[id].employee /\ after.updatedAt = r
        /\ after.content = (IF op = "update" THEN r ELSE todos[id].content)
        /\ after.deleted <=> op = "delete"
    BY <1>8 DEF Started
  <2>3. \A q \in Requests : InFlight(q) => call[q].id # id
    BY <2>1 DEF Available, ClientsTakeTurns
  <2>4. Holds(r)'
    BY <2>1, <2>2 DEF Holds
  <2> QED
    BY <2>1, <2>3, <2>4, OthersHold
<1> QED
  BY <1>1, <1>2, <1>3, <1>4, <1>5, <1>6, <1>7, <1>8, StepKinds, NoRestart

LEMMA LiveListedKept ==
  ASSUME ClientsTakeTurns, StoreInv, OneInFlight, HeldOK, LiveListed, [Next]_vars
  PROVE  LiveListed'
<1>0. \A i \in DOMAIN todos : todos[i].employee \in Employees
  BY DEF StoreInv, TypeOK, Todo
<1>1. CASE UNCHANGED vars
  BY <1>1 DEF vars, LiveListed
<1>2. ASSUME NEW r \in Requests, Moved(r) \/ Appended(r) PROVE LiveListed'
  BY <1>2 DEF Moved, Appended, LiveListed
<1>3. ASSUME NEW r \in Requests, Inserted(r) PROVE LiveListed'
  <2> PICK id : id = call[r].id
    OBVIOUS
  <2>1. /\ DOMAIN todos' = DOMAIN todos \cup {id} /\ id \notin DOMAIN todos
        /\ \A i \in DOMAIN todos : todos'[i] = todos[i]
        /\ todos'[id].employee = call[r].original.employee
        /\ todos'[id].employee \in Employees
        /\ \A f \in Employees : todosByEmployee'[f] =
             todosByEmployee[f] \cup (IF f = call[r].original.employee THEN {id} ELSE {})
    BY <1>3 DEF Inserted, TodoBecomes, ListedUnder, Todo
  <2> QED
    BY <1>0, <2>1 DEF LiveListed
<1>4. ASSUME NEW r \in Requests, CreateUndone(r) PROVE LiveListed'
  BY <1>0, <1>4 DEF CreateUndone, NotListedUnder, LiveListed
<1>5. ASSUME NEW r \in Requests, NEW op \in {"update", "delete"}, ChangeUndone(r, op)
      PROVE  LiveListed'
  <2> PICK id : id = call[r].id
    OBVIOUS
  <2>1. InFlight(r) /\ pc[r] # "allocated" /\ call[r].op = op
    BY <1>5 DEF ChangeUndone, InFlight, InFlightPCs
  <2>2. id \in DOMAIN todos /\ (op = "update" => ~todos[id].deleted)
    BY <2>1 DEF HeldOK
  <2>3. /\ DOMAIN todos' = DOMAIN todos
        /\ \A i \in DOMAIN todos \ {id} : todos'[i] = todos[i]
        /\ todos'[id].employee = todos[id].employee
        /\ \A f \in Employees : todosByEmployee'[f] = todosByEmployee[f] \cup
             (IF op = "delete" /\ f = todos[id].employee THEN {id} ELSE {})
    BY <1>5, <2>2 DEF ChangeUndone, TodoBecomes, ListedUnder
  <2> QED
    BY <1>0, <2>2, <2>3 DEF LiveListed
<1>6. ASSUME NEW r \in Requests, NEW e \in Employees, Allocated(r, e)
      PROVE  LiveListed'
  BY <1>6 DEF Allocated, LiveListed
<1>7. ASSUME NEW r \in Requests, NEW op \in {"update", "delete"},
             NEW id \in Ids, NEW after \in Todo, Started(r, op, id, after)
      PROVE  LiveListed'
  <2>1. /\ DOMAIN todos' = DOMAIN todos /\ id \in DOMAIN todos
        /\ \A i \in DOMAIN todos \ {id} : todos'[i] = todos[i]
        /\ todos'[id].employee = todos[id].employee /\ ~todos[id].deleted
        /\ todos'[id].deleted <=> op = "delete"
        /\ \A f \in Employees : todosByEmployee'[f] = todosByEmployee[f] \
             (IF op = "delete" /\ f = todos[id].employee THEN {id} ELSE {})
    BY <1>7 DEF Started, TodoBecomes, NotListedUnder
  <2> QED
    BY <1>0, <2>1 DEF LiveListed
<1> QED
  BY <1>1, <1>2, <1>3, <1>4, <1>5, <1>6, <1>7, StepKinds, NoRestart

LEMMA CreatesCountedKept ==
  ASSUME ClientsTakeTurns, IsFiniteSet(Requests), StoreInv, CallsInv,
         CreatesCounted, [Next]_vars
  PROVE  CreatesCounted'
<1>1. IsFiniteSet(Creates) /\ Cardinality(Creates) \in Nat
  BY FS_Subset, FS_CardinalityType DEF Creates
<1>2. ASSUME UNCHANGED <<sequence, call>> PROVE CreatesCounted'
  BY <1>2 DEF CreatesCounted, Made
<1>3. ASSUME NEW r \in Requests, NEW e \in Employees, Allocated(r, e)
      PROVE  CreatesCounted'
  <2>1. r \notin Creates
    BY <1>3 DEF Allocated, Creates, CallsInv, CallsOK
  <2>2. Creates' = Creates \cup {r}
    BY <1>3 DEF Allocated, OthersKeep, Creates, Made
  <2>3. Cardinality(Creates') = Cardinality(Creates) + 1
    BY <1>1, <2>1, <2>2, FS_AddElement
  <2>4. sequence' = sequence + 1 /\ sequence \in Nat
    BY <1>3 DEF Allocated, StoreInv, TypeOK
  <2> QED
    BY <1>1, <2>3, <2>4 DEF CreatesCounted, Creates
<1>4. ASSUME NEW r \in Requests, NEW op \in {"update", "delete"},
             NEW id \in Ids, NEW after \in Todo, Started(r, op, id, after)
      PROVE  CreatesCounted'
  <2>1. r \notin Creates /\ r \notin Creates'
    BY <1>4 DEF Started, Creates, CallsInv, CallsOK
  <2>2. Creates' = Creates /\ sequence' = sequence
    BY <1>4, <2>1 DEF Started, OthersKeep, Creates, Made
  <2> QED
    BY <2>2 DEF CreatesCounted, Creates
<1>5. ASSUME NEW r \in Requests, Moved(r) \/ Appended(r) \/ Inserted(r) \/ CreateUndone(r)
      PROVE  CreatesCounted'
  BY <1>2, <1>5 DEF Moved, Appended, Inserted, CreateUndone
<1>6. ASSUME NEW r \in Requests, NEW op \in {"update", "delete"}, ChangeUndone(r, op)
      PROVE  CreatesCounted'
  BY <1>2, <1>6 DEF ChangeUndone
<1> QED
  BY <1>2, <1>3, <1>4, <1>5, <1>6, StepKinds, NoRestart DEF vars

LEMMA InitTurnsInv ==
  ASSUME ClientsTakeTurns, Init
  PROVE  OneInFlight /\ HeldOK /\ LiveListed
<1>1. \A r \in Requests : /\ pc[r] = "idle" /\ ~InFlight(r) /\ ~Made(r)
  BY DEF Init, Made, InFlight, InFlightPCs
<1>2. \A id \in DOMAIN todos : id \in todosByEmployee[todos[id].employee]
  BY SeedAssumption DEF Init, SeededTodos, SeedTodo, SeededIndex
<1>3. epoch = 0
  BY DEF Init
<1> QED
  BY <1>1, <1>2, <1>3 DEF OneInFlight, HeldOK, LiveListed
-----------------------------------------------------------------------------
(* The last event about a todo *)

\* A failed mutation of a todo stays failed.
LEMMA FailuresStay ==
  ASSUME ClientsTakeTurns, StoreInv, CallsInv, [Next]_vars
  PROVE  \A id : NoneFailed(id)' => NoneFailed(id)
<1>1. \A q \in Requests : Made(q) => call'[q] = call[q] /\ Made(q)'
  BY StepsOnward, NoRestart DEF Onward, Made
<1>2. \A q \in Requests :
        (Made(q) /\ pc[q] \in {"rollback", "failed"}) => pc'[q] \in {"rollback", "failed"}
  <2> SUFFICES ASSUME NEW q \in Requests, pc[q] = "rollback"
               PROVE  pc'[q] \in {"rollback", "failed"}
    BY StepsOnward, NoRestart DEF Onward
  <2>1. ASSUME NEW r \in Requests, Moved(r) \/ Appended(r) \/ Inserted(r) \/ CreateUndone(r)
        PROVE  pc'[q] \in {"rollback", "failed"}
    BY <2>1 DEF Moved, Appended, Inserted, CreateUndone, OthersKeep
  <2>2. ASSUME NEW r \in Requests, NEW e \in Employees, Allocated(r, e)
        PROVE  pc'[q] \in {"rollback", "failed"}
    BY <2>2 DEF Allocated, OthersKeep
  <2>3. ASSUME NEW r \in Requests, NEW op \in {"update", "delete"}, ChangeUndone(r, op)
        PROVE  pc'[q] \in {"rollback", "failed"}
    BY <2>3 DEF ChangeUndone, OthersKeep
  <2>4. ASSUME NEW r \in Requests, NEW op \in {"update", "delete"},
               NEW id \in Ids, NEW after \in Todo, Started(r, op, id, after)
        PROVE  pc'[q] \in {"rollback", "failed"}
    BY <2>4 DEF Started, OthersKeep
  <2> QED
    BY <2>1, <2>2, <2>3, <2>4, StepKinds, NoRestart DEF vars
<1> QED
  BY <1>1, <1>2 DEF NoneFailed

\* A step of r that changes at most the todo its call is about, appends
\* nothing, and leaves the call unpublished or failed.
LEMMA WriterKeepsLastEvents ==
  ASSUME CallsInv, EventsOK, LastEventsOK, NEW r \in Requests, NEW id,
         Onward, OthersKeep(r), UNCHANGED log,
         Made(r)', call'[r].id = id,
         pc'[r] \in {"allocated", "inserted", "publishing", "failed"},
         pc'[r] # "failed" => pc[r] \in {"idle", "allocated"},
         pc'[r] = "publishing" => pc[r] = "idle" /\ Describes(event'[r], todos'[id]),
         \A q \in Requests \ {r} : InFlight(q) => call[q].id # id,
         \A i \in DOMAIN todos \ {id} : i \in DOMAIN todos' /\ todos'[i] = todos[i],
         DOMAIN todos' \subseteq DOMAIN todos \cup {id},
         \A q \in Requests : InFlight(q) /\ pc[q] # "allocated" =>
           call[q].id \in DOMAIN todos,
         \A i : NoneFailed(i)' => NoneFailed(i)
  PROVE  LastEventsOK'
<1> USE DEF OthersKeep
<1>1. pc[r] \in {"idle", "allocated"} => \A i \in DOMAIN log : log[i].by # r
  BY DEF CallsInv, CallsOK, EventsOK, LastEventsOK, About
<1>2. \A i \in DOMAIN log : \E k \in DOMAIN log : IsLast(k, log[i].todo)'
  <2> TAKE i \in DOMAIN log
  <2>1. PICK k \in DOMAIN log : IsLast(k, log[i].todo)
    BY DEF LastEventsOK
  <2>2. IsLast(k, log[i].todo)'
    BY <2>1 DEF IsLast, IsRepeat
  <2> QED
    BY <2>2
<1>3. \A q \in Requests, i \in DOMAIN log :
        log[i].by = q => pc'[q] \notin {"allocated", "inserted", "reading"}
  BY <1>1 DEF LastEventsOK
<1>3a. \A q \in Requests : Acknowledged(q)' => \E i \in DOMAIN log : log[i].by = q
  <2> TAKE q \in Requests
  <2>1. Acknowledged(q)' => Acknowledged(q)
    BY DEF Acknowledged
  <2> QED
    BY <2>1 DEF LastEventsOK
<1>4. \A q \in Requests : EventDescribes(q)'
  <2> TAKE q \in Requests
  <2>1. CASE q = r
    BY <2>1 DEF EventDescribes
  <2>2. CASE q # r
    <3> SUFFICES ASSUME pc[q] \in {"reading", "publishing", "published", "answering"}
                 PROVE  Describes(event[q], todos'[call[q].id])
      BY <2>2 DEF EventDescribes
    <3>1. InFlight(q) /\ pc[q] # "allocated"
      BY DEF InFlight, InFlightPCs
    <3>2. call[q].id \in DOMAIN todos \ {id}
      BY <2>2, <3>1
    <3>3. Describes(event[q], todos[call[q].id])
      BY DEF LastEventsOK, EventDescribes
    <3> QED
      BY <3>2, <3>3
  <2> QED
    BY <2>1, <2>2
<1>5. \A q \in Requests, k \in DOMAIN log : OwnEventLast(q, k)'
  <2> TAKE q \in Requests, k \in DOMAIN log
  <2> PICK i : i = call'[q].id
    OBVIOUS
  <2> SUFFICES ASSUME pc'[q] = "publishing", NoneFailed(i)', IsLast(k, i)',
                      \E j \in DOMAIN log : log[j].by = q
               PROVE  log'[k] = event'[q]
    BY DEF OwnEventLast
  <2>1. q # r
    BY <1>1
  <2>2. IsLast(k, i) /\ NoneFailed(i)
    BY DEF IsLast, IsRepeat
  <2>3. /\ pc[q] = "publishing" /\ call[q].id = i /\ event'[q] = event[q]
    BY <2>1
  <2> QED
    BY <2>2, <2>3 DEF LastEventsOK, OwnEventLast
<1>6. \A i \in DOMAIN todos', k \in DOMAIN log : LastDescribes(i, k)'
  <2> SUFFICES ASSUME NEW i \in DOMAIN todos', NEW k \in DOMAIN log,
                      AllPublished(i)', IsLast(k, i)'
               PROVE  Describes(log[k], todos'[i])
    BY DEF LastDescribes
  <2>1. i # id
    BY DEF AllPublished
  <2>2. AllPublished(i)
    BY <2>1 DEF AllPublished, Onward, Made
  <2>3. IsLast(k, i) /\ i \in DOMAIN todos /\ todos'[i] = todos[i]
    BY <2>1 DEF IsLast, IsRepeat
  <2> QED
    BY <2>2, <2>3 DEF LastEventsOK, LastDescribes
<1> QED
  BY <1>2, <1>3, <1>3a, <1>4, <1>5, <1>6 DEF LastEventsOK

\* What WriteMessages was told it wrote is on the topic.
LEMMA CopyOnTopic ==
  ASSUME NEW r \in Requests, Copies(r) > 0
  PROVE  \E i \in DOMAIN log : log[i].by = r
<1> DEFINE byR == {i \in DOMAIN log : log[i].by = r}
<1>1. Cardinality(byR) > 0
  BY DEF Copies
<1>2. Cardinality({}) = 0
  BY FS_EmptySet
<1>3. byR # {}
  <2> HIDE DEF byR
  <2> QED
    BY <1>1, <1>2
<1> QED
  BY <1>3

LEMMA MovedKeepsLastEvents ==
  ASSUME ClientsTakeTurns, StoreInv, CallsInv, EventsOK, OneInFlight, HeldOK,
         LastEventsOK, [Next]_vars, NEW r \in Requests, Moved(r)
  PROVE  LastEventsOK'
<1>1. /\ OthersKeep(r) /\ UNCHANGED <<todos, call, log>>
      /\ \A i : NoneFailed(i)' => NoneFailed(i)
  BY FailuresStay DEF Moved
<1>2. \A q \in Requests \ {r} : pc'[q] = pc[q] /\ event'[q] = event[q]
  BY <1>1 DEF OthersKeep
<1>3. \A i \in DOMAIN log : \E k \in DOMAIN log : IsLast(k, log[i].todo)'
  <2> TAKE i \in DOMAIN log
  <2>1. PICK k \in DOMAIN log : IsLast(k, log[i].todo)
    BY DEF LastEventsOK
  <2>2. IsLast(k, log[i].todo)'
    BY <1>1, <2>1 DEF IsLast, IsRepeat
  <2> QED
    BY <2>2
<1>3a. \A q \in Requests : Acknowledged(q)' => \E i \in DOMAIN log : log[i].by = q
  <2> TAKE q \in Requests
  <2>1. CASE q # r
    BY <1>2, <2>1 DEF LastEventsOK, Acknowledged
  <2>2. CASE q = r
    <3>1. Acknowledged(r)' => Acknowledged(r) \/ Copies(r) > 0
      BY DEF Moved, EventRead, EventReread, ReplyRead, ReplyReread, NothingRead,
             Acknowledged
    <3> QED
      BY <2>2, <3>1, CopyOnTopic DEF LastEventsOK
  <2> QED
    BY <2>1, <2>2
<1>4. \A q \in Requests, i \in DOMAIN log :
        log[i].by = q => pc'[q] \notin {"allocated", "inserted", "reading"}
  <2>1. pc'[r] \notin {"allocated", "inserted"} /\ (pc'[r] = "reading" => pc[r] = "inserted")
    BY DEF Moved, EventRead, EventReread, ReplyRead, ReplyReread, NothingRead
  <2> QED
    BY <1>2, <2>1 DEF LastEventsOK
<1>5. \A q \in Requests : EventDescribes(q)'
  <2> TAKE q \in Requests
  <2>1. CASE q # r
    BY <1>1, <1>2, <2>1 DEF LastEventsOK, EventDescribes
  <2>2. CASE q = r
    <3> SUFFICES ASSUME pc'[r] \in {"reading", "publishing", "published", "answering"}
                 PROVE  Describes(event'[r], todos[call[r].id])
      BY <1>1, <2>2 DEF EventDescribes
    <3>1. CASE EventRead(r)
      BY <3>1 DEF EventRead, EventFor, Describes
    <3>2. CASE EventReread(r)
      <4>1. Describes(event[r], todos[call[r].id])
        BY <3>2 DEF EventReread, LastEventsOK, EventDescribes
      <4> QED
        BY <3>2, <4>1 DEF EventReread, Describes
    <3>3. CASE ReplyRead(r) \/ ReplyReread(r) \/ NothingRead(r)
      BY <3>3 DEF ReplyRead, ReplyReread, NothingRead, LastEventsOK, EventDescribes
    <3> QED
      BY <3>1, <3>2, <3>3 DEF Moved
  <2> QED
    BY <2>1, <2>2
<1>6. \A q \in Requests, k \in DOMAIN log : OwnEventLast(q, k)'
  <2> TAKE q \in Requests, k \in DOMAIN log
  <2> PICK id : id = call[q].id
    OBVIOUS
  <2> SUFFICES ASSUME pc'[q] = "publishing", NoneFailed(id)', IsLast(k, id)',
                      \E j \in DOMAIN log : log[j].by = q
               PROVE  log[k] = event'[q]
    BY <1>1 DEF OwnEventLast
  <2>1. q # r
    BY DEF Moved, EventRead, EventReread, ReplyRead, ReplyReread, NothingRead,
           LastEventsOK
  <2>2. IsLast(k, id) /\ NoneFailed(id)
    BY <1>1 DEF IsLast, IsRepeat
  <2> QED
    BY <1>2, <2>1, <2>2 DEF LastEventsOK, OwnEventLast
<1>7. \A id \in DOMAIN todos, k \in DOMAIN log : LastDescribes(id, k)'
  <2> SUFFICES ASSUME NEW id \in DOMAIN todos, NEW k \in DOMAIN log,
                      AllPublished(id)', IsLast(k, id)'
               PROVE  Describes(log[k], todos[id])
    BY <1>1 DEF LastDescribes
  <2>1. IsLast(k, id)
    BY <1>1 DEF IsLast, IsRepeat
  <2>2. CASE Made(r) /\ call[r].id = id /\ pc[r] = "publishing"
    <3>1. Copies(r) > 0
      BY <1>1, <2>2 DEF Moved, EventRead, EventReread, ReplyRead, ReplyReread,
                        NothingRead, AllPublished, Made
    <3>2. \E i \in DOMAIN log : log[i].by = r
      BY <3>1, CopyOnTopic
    <3>3. NoneFailed(id)
      BY <1>1, <1>2, <2>2 DEF AllPublished, NoneFailed, Made
    <3>4. log[k] = event[r]
      BY <2>1, <2>2, <3>2, <3>3 DEF LastEventsOK, OwnEventLast
    <3>5. Describes(event[r], todos[call[r].id])
      BY <2>2 DEF LastEventsOK, EventDescribes
    <3> QED
      BY <2>2, <3>4, <3>5
  <2>3. CASE ~(Made(r) /\ call[r].id = id /\ pc[r] = "publishing")
    <3>1. (Made(r) /\ call[r].id = id) => pc[r] \in {"published", "answering", "ok"}
      <4>1. pc[r] = "idle" => ~Made(r)
        BY DEF CallsInv, CallsOK
      <4>2. Made(r) /\ call[r].id = id => pc'[r] \in {"published", "answering", "ok"}
        BY <1>1 DEF AllPublished, Made
      <4> QED
        BY <2>3, <4>1, <4>2 DEF Moved, EventRead, EventReread, ReplyRead,
                                ReplyReread, NothingRead
    <3>2. AllPublished(id)
      BY <1>1, <1>2, <3>1 DEF AllPublished, Made
    <3> QED
      BY <2>1, <3>2 DEF LastEventsOK, LastDescribes
  <2> QED
    BY <2>2, <2>3
<1> QED
  BY <1>1, <1>3, <1>3a, <1>4, <1>5, <1>6, <1>7 DEF LastEventsOK

LEMMA AppendedKeepsLastEvents ==
  ASSUME StoreInv, CallsInv, EventsOK, OneInFlight, HeldOK, LastEventsOK,
         NEW r \in Requests, Appended(r)
  PROVE  LastEventsOK'
<1> PICK n : n = Len(log) + 1
  OBVIOUS
<1> PICK id : id = call[r].id
  OBVIOUS
<1>1. /\ UNCHANGED <<todos, pc, call, event>>
      /\ event[r] # None
      /\ pc[r] \in {"publishing", "rollback", "failed"} \/ Acknowledged(r)
  BY DEF Appended, OneInFlight, Acknowledged
<1>2. /\ DOMAIN log' = DOMAIN log \cup {n} /\ n \notin DOMAIN log
      /\ \A i \in DOMAIN log : i \in Nat /\ i < n
      /\ log'[n] = event[r] /\ \A i \in DOMAIN log : log'[i] = log[i]
      /\ n \in Nat
  BY DEF Appended, StoreInv, TypeOK
<1> DEFINE repeated == \E j \in DOMAIN log : log[j].by = r
<1>3. Made(r) /\ event[r].by = r /\ event[r].todo = id
  BY <1>1 DEF EventsOK, About
<1>4. \A q \in Requests : \A i :
        /\ Made(q)' <=> Made(q)
        /\ NoneFailed(i)' <=> NoneFailed(i)
        /\ AllPublished(i)' <=> AllPublished(i)
  BY <1>1 DEF Made, NoneFailed, AllPublished
<1>5. /\ \A i \in DOMAIN log : IsRepeat(i)' <=> IsRepeat(i)
      /\ IsRepeat(n)' <=> repeated
  <2>1. ASSUME NEW i \in DOMAIN log PROVE IsRepeat(i)' <=> IsRepeat(i)
    BY <1>2 DEF IsRepeat
  <2>2. IsRepeat(n)' <=> repeated
    BY <1>2, <1>3 DEF IsRepeat
  <2> QED
    BY <2>1, <2>2
<1> HIDE DEF repeated
<1>5a. \A i : IsLast(n, i)' <=> i = id /\ ~repeated
  BY <1>2, <1>3, <1>5 DEF IsLast
<1>5b. \A k \in DOMAIN log : \A i :
         IsLast(k, i)' <=> IsLast(k, i) /\ (i = id => repeated)
  BY <1>2, <1>3, <1>5 DEF IsLast
<1>5c. ~repeated => pc[r] \in {"publishing", "rollback", "failed"}
  BY <1>1 DEF LastEventsOK, repeated
<1>6. \A i \in DOMAIN log' : \E k \in DOMAIN log' : IsLast(k, log[i].todo)'
  <2> TAKE i \in DOMAIN log'
  <2> PICK t : t = log'[i].todo
    OBVIOUS
  <2>1. \E k \in DOMAIN log' : IsLast(k, t)'
    <3>1. CASE t = id /\ ~repeated
      BY <1>2, <1>5a, <3>1
    <3>2. CASE t # id \/ repeated
      <4>1. \E j \in DOMAIN log : log[j].todo = t
        <5>1. CASE i \in DOMAIN log
          BY <1>2, <5>1
        <5>2. CASE i = n
          <6>1. t = id /\ repeated
            BY <1>2, <1>3, <3>2, <5>2
          <6> QED
            BY <6>1 DEF repeated, EventsOK, About
        <5> QED
          BY <1>2, <5>1, <5>2
      <4>2. PICK k \in DOMAIN log : IsLast(k, t)
        BY <4>1 DEF LastEventsOK
      <4> QED
        BY <1>2, <1>5b, <3>2, <4>2
    <3> QED
      BY <3>1, <3>2
  <2> QED
    BY <2>1 DEF IsLast
<1>7. \A q \in Requests, i \in DOMAIN log' :
        log'[i].by = q => pc'[q] \notin {"allocated", "inserted", "reading"}
  BY <1>1, <1>2, <1>3 DEF LastEventsOK, Acknowledged
<1>7a. \A q \in Requests : Acknowledged(q)' => \E i \in DOMAIN log' : log'[i].by = q
  BY <1>1, <1>2 DEF LastEventsOK, Acknowledged
<1>8. \A q \in Requests : EventDescribes(q)'
  BY <1>1 DEF LastEventsOK, EventDescribes
<1>9. \A q \in Requests, k \in DOMAIN log' : OwnEventLast(q, k)'
  <2> TAKE q \in Requests, k \in DOMAIN log'
  <2> PICK i : i = call[q].id
    OBVIOUS
  <2> SUFFICES ASSUME pc[q] = "publishing", NoneFailed(i), IsLast(k, i)',
                      \E j \in DOMAIN log' : log'[j].by = q
               PROVE  log'[k] = event[q]
    BY <1>1, <1>4 DEF OwnEventLast
  <2>1. CASE i = id /\ ~repeated
    <3>1. k = n
      BY <1>2, <1>5b, <2>1
    <3>2. pc[r] = "publishing"
      BY <1>3, <1>5c, <2>1 DEF NoneFailed
    <3>3. q = r
      BY <2>1, <3>2 DEF OneInFlight, InFlight, InFlightPCs
    <3> QED
      BY <1>2, <3>1, <3>3
  <2>2. CASE i # id \/ repeated
    <3>1. k \in DOMAIN log /\ IsLast(k, i)
      BY <1>2, <1>5a, <1>5b, <2>2
    <3>2. \E j \in DOMAIN log : log[j].by = q
      BY <1>2, <1>3, <2>2 DEF repeated
    <3> QED
      BY <1>2, <3>1, <3>2 DEF LastEventsOK, OwnEventLast
  <2> QED
    BY <2>1, <2>2
<1>10. \A i \in DOMAIN todos, k \in DOMAIN log' : LastDescribes(i, k)'
  <2> SUFFICES ASSUME NEW i \in DOMAIN todos, NEW k \in DOMAIN log',
                      AllPublished(i), IsLast(k, i)'
               PROVE  Describes(log'[k], todos[i])
    BY <1>1, <1>4 DEF LastDescribes
  <2>1. i # id \/ repeated
    BY <1>3, <1>5c DEF AllPublished
  <2>2. k \in DOMAIN log /\ IsLast(k, i) /\ log'[k] = log[k]
    BY <1>2, <1>5a, <1>5b, <2>1
  <2> QED
    BY <2>2 DEF LastEventsOK, LastDescribes
<1> QED
  BY <1>1, <1>6, <1>7, <1>7a, <1>8, <1>9, <1>10 DEF LastEventsOK

LEMMA LastEventsOKKept ==
  ASSUME ClientsTakeTurns, StoreInv, CallsInv, EventsOK, OneInFlight, HeldOK,
         LastEventsOK, [Next]_vars
  PROVE  LastEventsOK'
<1>0. /\ Onward
      /\ \A i : NoneFailed(i)' => NoneFailed(i)
      /\ \A q \in Requests : InFlight(q) /\ pc[q] # "allocated" =>
           call[q].id \in DOMAIN todos
      /\ \A q \in Requests : Made(q) => Made(q)'
  BY StepsOnward, NoRestart, FailuresStay DEF HeldOK, Onward, Made
<1>1. CASE UNCHANGED vars
  <2>1. /\ \A k, i : IsLast(k, i)' <=> IsLast(k, i)
        /\ \A i : NoneFailed(i)' <=> NoneFailed(i)
        /\ \A i : AllPublished(i)' <=> AllPublished(i)
    BY <1>1 DEF vars, IsLast, IsRepeat, NoneFailed, AllPublished, Made
  <2>2. \A i \in DOMAIN log : \E k \in DOMAIN log : IsLast(k, log[i].todo)'
    BY <1>1 DEF vars, LastEventsOK, IsLast, IsRepeat
  <2>3. \A q \in Requests : EventDescribes(q)'
    BY <1>1 DEF vars, LastEventsOK, EventDescribes
  <2>4. \A q \in Requests, k \in DOMAIN log : OwnEventLast(q, k)'
    BY <1>1 DEF vars, LastEventsOK, OwnEventLast, NoneFailed, IsLast, IsRepeat, Made
  <2>5. \A i \in DOMAIN todos, k \in DOMAIN log : LastDescribes(i, k)'
    BY <1>1, <2>1 DEF vars, LastEventsOK, LastDescribes
  <2> QED
    BY <1>1, <2>2, <2>3, <2>4, <2>5 DEF vars, LastEventsOK, Acknowledged
<1>2. ASSUME NEW r \in Requests, Inserted(r) PROVE LastEventsOK'
  <2> PICK id : id = call[r].id
    OBVIOUS
  <2>1. /\ OthersKeep(r) /\ UNCHANGED <<call, log>> /\ Made(r) /\ InFlight(r)
        /\ pc[r] = "allocated" /\ pc'[r] = "inserted"
        /\ \A i \in DOMAIN todos \ {id} : i \in DOMAIN todos' /\ todos'[i] = todos[i]
        /\ DOMAIN todos' \subseteq DOMAIN todos \cup {id}
    BY <1>2 DEF Inserted, TodoBecomes, Creator, Current, Made, InFlight, InFlightPCs
  <2>2. \A q \in Requests \ {r} : InFlight(q) => call[q].id # id
    BY <2>1, OthersElsewhere
  <2> QED
    BY <1>0, <2>1, <2>2, WriterKeepsLastEvents
<1>3. ASSUME NEW r \in Requests,
             CreateUndone(r) \/ \E op \in {"update", "delete"} : ChangeUndone(r, op)
      PROVE  LastEventsOK'
  <2> PICK id : id = call[r].id
    OBVIOUS
  <2>1. /\ OthersKeep(r) /\ UNCHANGED <<call, log>> /\ Made(r) /\ InFlight(r)
        /\ pc'[r] = "failed"
        /\ \A i \in DOMAIN todos \ {id} : i \in DOMAIN todos' /\ todos'[i] = todos[i]
        /\ DOMAIN todos' \subseteq DOMAIN todos \cup {id}
    BY <1>3 DEF CreateUndone, ChangeUndone, TodoBecomes, Creator, Current, Made,
                InFlight, InFlightPCs
  <2>2. \A q \in Requests \ {r} : InFlight(q) => call[q].id # id
    BY <2>1, OthersElsewhere
  <2> QED
    BY <1>0, <2>1, <2>2, WriterKeepsLastEvents
<1>4. ASSUME NEW r \in Requests, NEW e \in Employees, Allocated(r, e)
      PROVE  LastEventsOK'
  <2> PICK id : id = sequence + 1
    OBVIOUS
  <2>1. /\ OthersKeep(r) /\ UNCHANGED <<todos, log>> /\ Made(r)'
        /\ call'[r].id = id /\ pc[r] = "idle" /\ pc'[r] = "allocated"
    BY <1>4 DEF Allocated, Made
  <2>2. \A q \in Requests : InFlight(q) => call[q].id # id
    BY DEF StoreInv, LocalsOK, CallsInv, CallsOK, TypeOK, Call, Ids, Current
  <2> QED
    BY <1>0, <2>1, <2>2, WriterKeepsLastEvents
<1>5. ASSUME NEW r \in Requests, NEW op \in {"update", "delete"},
             NEW id \in Ids, NEW after \in Todo, Started(r, op, id, after)
      PROVE  LastEventsOK'
  <2>1. /\ OthersKeep(r) /\ UNCHANGED log /\ Made(r)' /\ Available(id)
        /\ call'[r].id = id /\ pc[r] = "idle" /\ pc'[r] = "publishing"
        /\ todos'[id] = after
        /\ \A i \in DOMAIN todos \ {id} : i \in DOMAIN todos' /\ todos'[i] = todos[i]
        /\ DOMAIN todos' \subseteq DOMAIN todos \cup {id}
    BY <1>5 DEF Started, TodoBecomes, Made
  <2>2. Describes(event'[r], todos'[id])
    BY <1>5, <2>1 DEF Started, EventFor, Describes
  <2>3. \A q \in Requests : InFlight(q) => call[q].id # id
    BY <2>1 DEF Available, ClientsTakeTurns
  <2> QED
    BY <1>0, <2>1, <2>2, <2>3, WriterKeepsLastEvents
<1> QED
  BY <1>1, <1>2, <1>3, <1>4, <1>5, MovedKeepsLastEvents, AppendedKeepsLastEvents,
     StepKinds, NoRestart

LEMMA InitLastEventsOK == Init => LastEventsOK
<1> SUFFICES ASSUME Init PROVE LastEventsOK
  OBVIOUS
<1>1. \A r \in Requests : pc[r] = "idle"
  BY DEF Init
<1>2. log = <<>>
  BY DEF Init
<1> QED
  BY <1>1, <1>2 DEF LastEventsOK, EventDescribes, Acknowledged

\* For as long as the process runs and clients take turns.
TurnsTaken ==
  GuaranteesInv /\ OneInFlight /\ HeldOK /\ LiveListed /\ LastEventsOK

LEMMA TurnsTakenAlways ==
  ASSUME ClientsTakeTurns
  PROVE  Spec => []TurnsTaken
<1>1. Init => TurnsTaken
  BY InitGuaranteesInv, InitTurnsInv, InitLastEventsOK DEF TurnsTaken
<1>2. TurnsTaken /\ GuaranteesInv' /\ [Next]_vars => TurnsTaken'
  BY OneInFlightKept, HeldOKKept, LiveListedKept, LastEventsOKKept
     DEF TurnsTaken, GuaranteesInv, ReportsInv
<1> QED
  BY <1>1, <1>2, GuaranteesInvAlways, PTL DEF Spec

\* With one writer per todo, the last event of the topic about a todo whose
\* mutations all succeeded, not counting repeats, describes it; repeats may
\* arrive at any time, after their event was acknowledged, too.
THEOREM LastEventDescribesTodoAlways ==
  ASSUME ClientsTakeTurns
  PROVE  Spec => []LastEventDescribesTodo
<1>1. TurnsTaken => LastEventDescribesTodo
  <2> SUFFICES ASSUME TurnsTaken, NEW id \in DOMAIN todos,
                      \E i \in DOMAIN log : log[i].todo = id,
                      \A r \in Requests : (Current(r) /\ call[r].id = id) => pc[r] = "ok"
               PROVE  Describes(LastEvent(id), todos[id])
    BY DEF LastEventDescribesTodo, Describes
  <2>1. AllPublished(id)
    BY MadeIsCurrent DEF TurnsTaken, GuaranteesInv, AllPublished
  <2>2. PICK k \in DOMAIN log : IsLast(k, id)
    BY DEF TurnsTaken, LastEventsOK
  <2>3. \A j \in DOMAIN log : IsLast(j, id) => j = k
    BY <2>2 DEF IsLast, TurnsTaken, GuaranteesInv, StoreInv, TypeOK
  <2>4. LastEvent(id) = log[k]
    BY <2>2, <2>3 DEF LastEvent, IsLast
  <2> QED
    BY <2>1, <2>2, <2>4 DEF TurnsTaken, LastEventsOK, LastDescribes
<1> QED
  BY <1>1, TurnsTakenAlways, PTL
-----------------------------------------------------------------------------
(* TodoStore implements TodoContract *)

\* The todos of the contract, one by one: a todo nobody works on is as in
\* the map, one that is being changed is as it was, one being created is
\* not there yet.
SettledOneByOne ==
  /\ SettledTodos = [id \in SettledIds |-> SettledTodos[id]]
  /\ \A id : id \in SettledIds <=>
       /\ id \in DOMAIN todos
       /\ \A r \in Requests : (InFlight(r) /\ call[r].id = id) => call[r].op # "create"
  /\ \A id \in SettledIds :
       (\A r \in Requests : InFlight(r) => call[r].id # id) =>
         SettledTodos[id] = todos[id]
  /\ \A r \in Requests : \A id : (InFlight(r) /\ call[r].op # "create" /\ call[r].id = id) =>
       id \in SettledIds /\ SettledTodos[id] = call[r].original

LEMMA SettledMeans == TurnsTaken => SettledOneByOne
<1> SUFFICES ASSUME TurnsTaken PROVE SettledOneByOne
  OBVIOUS
<1>1. \A r \in Requests : \A op, id : r \in Unsettled(op, id) <=>
        InFlight(r) /\ call[r].op = op /\ call[r].id = id
  BY DEF Unsettled, Calls, TurnsTaken, GuaranteesInv, StoreInv, LocalsOK
<1>2. \A op, id : Unsettled(op, id) \subseteq Requests
  BY DEF Unsettled, Calls
<1>3. \A id : id \in SettledIds <=>
       /\ id \in DOMAIN todos
       /\ \A r \in Requests : (InFlight(r) /\ call[r].id = id) => call[r].op # "create"
  BY <1>1, <1>2 DEF SettledIds
<1>4. ASSUME NEW id \in SettledIds, \A r \in Requests : InFlight(r) => call[r].id # id
      PROVE  SettledTodos[id] = todos[id]
  BY <1>1, <1>2, <1>4 DEF SettledTodos
<1>5. ASSUME NEW r \in Requests, NEW id, InFlight(r), call[r].op # "create",
             call[r].id = id
      PROVE  id \in SettledIds /\ SettledTodos[id] = call[r].original
  <2>1. pc[r] # "allocated" /\ call[r].op \in {"update", "delete"}
    BY <1>5, CallTyped DEF TurnsTaken, GuaranteesInv, StoreInv, LocalsOK
  <2>2. id \in DOMAIN todos /\ \A q \in Requests : InFlight(q) /\ call[q].id = id => q = r
    BY <1>5, <2>1 DEF TurnsTaken, HeldOK, OneInFlight
  <2>3. id \in SettledIds
    BY <1>3, <1>5, <2>2
  <2>4. Unsettled("update", id) \cup Unsettled("delete", id) = {r}
    BY <1>1, <1>2, <1>5, <2>1, <2>2
  <2>5. (CHOOSE q \in {r} : TRUE) = r
    OBVIOUS
  <2> QED
    BY <2>3, <2>4, <2>5 DEF SettledTodos
<1>6. SettledTodos = [id \in SettledIds |-> SettledTodos[id]]
  BY DEF SettledTodos
<1> QED
  BY <1>3, <1>4, <1>5, <1>6 DEF SettledOneByOne

LEMMA SettledMeansNext == TurnsTaken' => SettledOneByOne'
BY SettledMeans, PTL

\* What the contract's clients are listed is its live todos.
LiveOnesListed == SettledIndex = Contract!Listing(SettledTodos)

LEMMA SettledListing == TurnsTaken => LiveOnesListed
<1> SUFFICES ASSUME TurnsTaken PROVE LiveOnesListed
  OBVIOUS
<1> USE DEF TurnsTaken, GuaranteesInv, StoreInv
<1>1. \A r \in Requests : \A id : r \in Unsettled("delete", id) <=>
        InFlight(r) /\ call[r].op = "delete" /\ call[r].id = id
  BY DEF Unsettled, Calls, LocalsOK
<1>2. \A id : Unsettled("delete", id) \subseteq Requests
  BY DEF Unsettled, Calls
<1>3. SettledOneByOne
  BY SettledMeans
<1>4. ASSUME NEW e \in Employees, NEW id \in SettledIds
      PROVE  id \in SettledIndex[e] <=>
               SettledTodos[id].employee = e /\ ~SettledTodos[id].deleted
  <2>1. /\ id \in DOMAIN todos /\ todos[id].employee \in Employees
        /\ id \in todosByEmployee[e] <=> todos[id].employee = e /\ ~todos[id].deleted
    BY <1>3 DEF SettledOneByOne, TypeOK, Todo, IndexSound, LiveListed
  <2>2. id \in SettledIndex[e] <=>
          \/ id \in todosByEmployee[e]
          \/ Unsettled("delete", id) # {} /\ todos[id].employee = e
    BY DEF SettledIndex
  <2>3. CASE \A r \in Requests : InFlight(r) => call[r].id # id
    <3>1. Unsettled("delete", id) = {}
      BY <1>1, <1>2, <2>3
    <3> QED
      BY <1>3, <2>1, <2>2, <2>3, <3>1 DEF SettledOneByOne
  <2>4. ASSUME NEW r \in Requests, InFlight(r), call[r].id = id
        PROVE  id \in SettledIndex[e] <=>
                 SettledTodos[id].employee = e /\ ~SettledTodos[id].deleted
    <3>1. /\ call[r].op # "create" /\ pc[r] # "allocated"
          /\ SettledTodos[id] = call[r].original /\ ~call[r].original.deleted
      BY <1>3, <2>4, CallTyped DEF SettledOneByOne, LocalsOK
    <3>2. /\ todos[id].employee = call[r].original.employee
          /\ todos[id].deleted <=> call[r].op = "delete"
      BY <2>4, <3>1 DEF HeldOK
    <3>3. Unsettled("delete", id) # {} <=> call[r].op = "delete"
      BY <1>1, <1>2, <2>4 DEF OneInFlight
    <3> QED
      BY <2>1, <2>2, <3>1, <3>2, <3>3
  <2> QED
    BY <2>3, <2>4
<1>5. \A e \in Employees : SettledIndex[e] \subseteq SettledIds
  BY DEF SettledIndex
<1>6. SettledIndex = [e \in Employees |-> SettledIndex[e]]
  BY DEF SettledIndex
<1>7. DOMAIN SettledTodos = SettledIds
  BY DEF SettledTodos
<1> HIDE DEF TurnsTaken, GuaranteesInv, StoreInv
<1>8. \A e \in Employees : SettledIndex[e] =
        {id \in DOMAIN SettledTodos :
           SettledTodos[id].employee = e /\ ~SettledTodos[id].deleted}
  BY <1>4, <1>5, <1>7
<1> QED
  BY <1>6, <1>8 DEF LiveOnesListed, Contract!Listing

LEMMA SettledListingNext == TurnsTaken' => LiveOnesListed'
BY SettledListing, PTL

LEMMA TodosEqual ==
  ASSUME NEW a \in Todo, NEW b \in Todo,
         a.employee = b.employee, a.content = b.content,
         a.updatedAt = b.updatedAt, a.deleted <=> b.deleted
  PROVE  a = b
<1>1. a = [employee |-> a.employee, content |-> a.content,
           updatedAt |-> a.updatedAt, deleted |-> a.deleted]
  BY DEF Todo
<1>2. b = [employee |-> b.employee, content |-> b.content,
           updatedAt |-> b.updatedAt, deleted |-> b.deleted]
  BY DEF Todo
<1> DEFINE A == a.deleted  B == b.deleted
<1>3. A \in BOOLEAN /\ B \in BOOLEAN
  BY DEF Todo
<1> HIDE DEF A, B
<1>4. A = B
  BY <1>3 DEF A, B
<1> QED
  BY <1>1, <1>2, <1>4 DEF A, B

\* Away from the todo of r's call, a step of r is not seen.
LEMMA Elsewhere ==
  ASSUME SettledOneByOne, SettledOneByOne', NEW r \in Requests, NEW id,
         OthersKeep(r),
         InFlight(r) => call[r].id = id,
         InFlight(r)' => call'[r].id = id,
         \A i \in DOMAIN todos \ {id} : i \in DOMAIN todos' /\ todos'[i] = todos[i],
         DOMAIN todos' \subseteq DOMAIN todos \cup {id},
         NEW i, i # id
  PROVE  /\ i \in SettledIds' <=> i \in SettledIds
         /\ i \in SettledIds => SettledTodos'[i] = SettledTodos[i]
<1>1. \A q \in Requests \ {r} : (InFlight(q)' <=> InFlight(q)) /\ call'[q] = call[q]
  BY DEF OthersKeep, InFlight
<1>2. \A q \in Requests :
        /\ (InFlight(q)' /\ call'[q].id = i) <=> (InFlight(q) /\ call[q].id = i)
        /\ (InFlight(q) /\ call[q].id = i) => call'[q] = call[q]
  BY <1>1
<1>3. i \in DOMAIN todos' <=> i \in DOMAIN todos
  OBVIOUS
<1>4. i \in SettledIds' <=> i \in SettledIds
  BY <1>2, <1>3 DEF SettledOneByOne
<1>5. ASSUME i \in SettledIds PROVE SettledTodos'[i] = SettledTodos[i]
  <2>1. CASE \A q \in Requests : InFlight(q) => call[q].id # i
    BY <1>2, <1>4, <1>5, <2>1 DEF SettledOneByOne
  <2>2. ASSUME NEW q \in Requests, InFlight(q), call[q].id = i
        PROVE  SettledTodos'[i] = SettledTodos[i]
    <3>1. InFlight(q)' /\ call'[q] = call[q] /\ call[q].op # "create"
      BY <1>2, <1>5, <2>2 DEF SettledOneByOne
    <3> QED
      BY <2>2, <3>1 DEF SettledOneByOne
  <2> QED
    BY <2>1, <2>2
<1> QED
  BY <1>4, <1>5

LEMMA SameTodos ==
  ASSUME SettledOneByOne, SettledOneByOne',
         \A i : i \in SettledIds' <=> i \in SettledIds,
         \A i \in SettledIds : SettledTodos'[i] = SettledTodos[i]
  PROVE  SettledTodos' = SettledTodos
<1>1. SettledIds' = SettledIds
  OBVIOUS
<1> QED
  BY <1>1 DEF SettledOneByOne

\* Only r's answer can change.
LEMMA AnswersMove ==
  ASSUME StoreInv, NEW r \in Requests, OthersKeep(r)
  PROVE  /\ Answer' = [Answer EXCEPT ![r] = Answer'[r]]
         /\ Answer \in [Requests -> {"none", "ok", "failed"}]
         /\ pc[r] \in InFlightPCs \cup {"idle"} <=> Answer[r] = "none"
         /\ pc'[r] \in InFlightPCs \cup {"idle"} => Answer'[r] = "none"
         /\ pc'[r] = "ok" => Answer'[r] = "ok"
         /\ pc'[r] \in {"failed", "rejected"} => Answer'[r] = "failed"
<1>1. Answer = [q \in Requests |-> Answer[q]] /\ Answer' = [q \in Requests |-> Answer'[q]]
  BY DEF Answer
<1>2. \A q \in Requests \ {r} : Answer'[q] = Answer[q]
  BY DEF Answer, OthersKeep
<1>3. \A q \in Requests : Answer[q] \in {"none", "ok", "failed"}
  BY DEF Answer
<1>4. pc[r] \in InFlightPCs \cup {"idle"} <=> Answer[r] = "none"
  BY DEF Answer, StoreInv, TypeOK, InFlightPCs, FinalPCs
<1>5. /\ pc'[r] \in InFlightPCs \cup {"idle"} => Answer'[r] = "none"
      /\ pc'[r] = "ok" => Answer'[r] = "ok"
      /\ pc'[r] \in {"failed", "rejected"} => Answer'[r] = "failed"
  BY DEF Answer, InFlightPCs
<1> QED
  BY <1>1, <1>2, <1>3, <1>4, <1>5

\* What a step of r may do at most, id being the todo of its call.
WorksOn(r, id) ==
  /\ OthersKeep(r)
  /\ InFlight(r) => call[r].id = id
  /\ InFlight(r)' => call'[r].id = id
  /\ \A i \in DOMAIN todos \ {id} : i \in DOMAIN todos' /\ todos'[i] = todos[i]
  /\ DOMAIN todos' \subseteq DOMAIN todos \cup {id}

\* Steps that leave the todo of r's call as it is for the contract.
LEMMA NothingSettled ==
  ASSUME TurnsTaken, TurnsTaken', NEW r \in Requests, NEW id, WorksOn(r, id),
         id \in SettledIds' <=> id \in SettledIds,
         id \in SettledIds => SettledTodos'[id] = SettledTodos[id]
  PROVE  UNCHANGED <<SettledTodos, SettledIndex>>
<1>1. SettledOneByOne /\ SettledOneByOne'
  BY SettledMeans, SettledMeansNext
<1>2. \A i : i # id => /\ i \in SettledIds' <=> i \in SettledIds
                       /\ i \in SettledIds => SettledTodos'[i] = SettledTodos[i]
  BY <1>1, Elsewhere DEF WorksOn
<1>3. SettledTodos' = SettledTodos
  BY <1>1, <1>2, SameTodos
<1>4. LiveOnesListed /\ LiveOnesListed'
  BY SettledListing, SettledListingNext
<1> QED
  BY <1>3, <1>4 DEF LiveOnesListed, Contract!Listing

\* Steps that settle the todo of r's call.
LEMMA OneTodoSettled ==
  ASSUME TurnsTaken, TurnsTaken', NEW r \in Requests, NEW id, WorksOn(r, id),
         id \in SettledIds', pc[r] \in InFlightPCs, pc'[r] = "ok",
         NEW ts,
         ts = [i \in DOMAIN SettledTodos \cup {id} |->
                 IF i = id THEN SettledTodos'[id] ELSE SettledTodos[i]]
  PROVE  Contract!Answered(r, "ok") /\ Contract!Commit(ts)
<1>1. SettledOneByOne /\ SettledOneByOne'
  BY SettledMeans, SettledMeansNext
<1>2. \A i : i # id => /\ i \in SettledIds' <=> i \in SettledIds
                       /\ i \in SettledIds => SettledTodos'[i] = SettledTodos[i]
  BY <1>1, Elsewhere DEF WorksOn
<1>3. /\ DOMAIN SettledTodos = SettledIds
      /\ SettledTodos' = [i \in SettledIds' |-> SettledTodos'[i]]
  BY <1>1 DEF SettledOneByOne
<1>4. SettledIds' = SettledIds \cup {id}
  BY <1>2
<1>5. SettledTodos' = ts
  BY <1>2, <1>3, <1>4
<1>6. LiveOnesListed'
  BY SettledListingNext
<1>7. SettledIndex' = Contract!Listing(ts)
  BY <1>5, <1>6 DEF LiveOnesListed, Contract!Listing
<1>8. Answer[r] = "none" /\ Answer' = [Answer EXCEPT ![r] = "ok"]
  BY AnswersMove DEF TurnsTaken, GuaranteesInv, WorksOn
<1> QED
  BY <1>5, <1>7, <1>8 DEF Contract!Answered, Contract!Commit

LEMMA NothingAnswered ==
  ASSUME TurnsTaken, NEW r \in Requests, OthersKeep(r),
         pc[r] \in InFlightPCs \cup {"idle"}, pc'[r] \in InFlightPCs \cup {"idle"},
         UNCHANGED <<SettledTodos, SettledIndex>>
  PROVE  UNCHANGED Contract!vars
<1>1. /\ Answer' = [Answer EXCEPT ![r] = Answer'[r]]
      /\ Answer \in [Requests -> {"none", "ok", "failed"}]
      /\ Answer[r] = "none" /\ Answer'[r] = "none"
  BY AnswersMove DEF TurnsTaken, GuaranteesInv
<1>2. Answer' = Answer
  BY <1>1
<1> QED
  BY <1>2 DEF Contract!vars

LEMMA Refused ==
  ASSUME TurnsTaken, NEW r \in Requests, OthersKeep(r),
         pc[r] \in InFlightPCs \cup {"idle"}, pc'[r] \in {"failed", "rejected"},
         UNCHANGED <<SettledTodos, SettledIndex>>
  PROVE  Contract!Next
<1>1. Answer[r] = "none" /\ Answer' = [Answer EXCEPT ![r] = "failed"]
  BY AnswersMove DEF TurnsTaken, GuaranteesInv
<1> QED
  BY <1>1 DEF Contract!Next, Contract!Fail, Contract!Answered

\* Nobody's flight begins or ends, and no todo changes.
LEMMA SameFlights ==
  ASSUME TurnsTaken, TurnsTaken', NEW r \in Requests, OthersKeep(r),
         UNCHANGED <<todos, call>>, InFlight(r)' <=> InFlight(r)
  PROVE  UNCHANGED <<SettledTodos, SettledIndex>>
<1> PICK id : id = call[r].id
  OBVIOUS
<1>1. SettledOneByOne /\ SettledOneByOne'
  BY SettledMeans, SettledMeansNext
<1>2. WorksOn(r, id)
  BY DEF WorksOn
<1>3. \A q \in Requests : InFlight(q)' <=> InFlight(q)
  BY DEF OthersKeep, InFlight
<1>4. id \in SettledIds' <=> id \in SettledIds
  BY <1>1, <1>3 DEF SettledOneByOne
<1>5. ASSUME id \in SettledIds PROVE SettledTodos'[id] = SettledTodos[id]
  <2>1. CASE \A q \in Requests : InFlight(q) => call[q].id # id
    BY <1>1, <1>3, <1>4, <1>5, <2>1 DEF SettledOneByOne
  <2>2. ASSUME NEW q \in Requests, InFlight(q), call[q].id = id
        PROVE  SettledTodos'[id] = SettledTodos[id]
    BY <1>1, <1>3, <1>5, <2>2 DEF SettledOneByOne
  <2> QED
    BY <2>1, <2>2
<1> QED
  BY <1>2, <1>4, <1>5, NothingSettled

LEMMA AllocatedSettlesNothing ==
  ASSUME TurnsTaken, TurnsTaken', NEW r \in Requests, NEW e \in Employees,
         Allocated(r, e)
  PROVE  UNCHANGED Contract!vars
<1> PICK id : id = sequence + 1
  OBVIOUS
<1>1. /\ OthersKeep(r) /\ UNCHANGED todos /\ call'[r].id = id
      /\ pc[r] = "idle" /\ pc'[r] = "allocated"
      /\ ~InFlight(r)
  BY DEF Allocated, InFlight, InFlightPCs
<1>2. WorksOn(r, id)
  BY <1>1 DEF WorksOn
<1>3. id \notin DOMAIN todos
  BY DEF TurnsTaken, GuaranteesInv, StoreInv, IdsHandedOut, TypeOK, Ids
<1>4. id \notin SettledIds /\ id \notin SettledIds'
  BY <1>1, <1>3, SettledMeans, SettledMeansNext DEF SettledOneByOne
<1>5. UNCHANGED <<SettledTodos, SettledIndex>>
  BY <1>2, <1>4, NothingSettled
<1> QED
  BY <1>1, <1>5, NothingAnswered DEF InFlightPCs

LEMMA InsertedSettlesNothing ==
  ASSUME TurnsTaken, TurnsTaken', NEW r \in Requests, Inserted(r)
  PROVE  UNCHANGED Contract!vars
<1> PICK id : id = call[r].id
  OBVIOUS
<1>1. /\ OthersKeep(r) /\ call' = call /\ call[r].op = "create"
      /\ pc[r] = "allocated" /\ pc'[r] = "inserted"
      /\ InFlight(r) /\ InFlight(r)'
      /\ \A i \in DOMAIN todos \ {id} : i \in DOMAIN todos' /\ todos'[i] = todos[i]
      /\ DOMAIN todos' \subseteq DOMAIN todos \cup {id}
  BY DEF Inserted, TodoBecomes, InFlight, InFlightPCs, Creator
<1>2. WorksOn(r, id)
  BY <1>1 DEF WorksOn
<1>3. id \notin SettledIds /\ id \notin SettledIds'
  BY <1>1, SettledMeans, SettledMeansNext DEF SettledOneByOne
<1>4. UNCHANGED <<SettledTodos, SettledIndex>>
  BY <1>2, <1>3, NothingSettled
<1> QED
  BY <1>1, <1>4, NothingAnswered DEF InFlightPCs

LEMMA StartedSettlesNothing ==
  ASSUME ClientsTakeTurns, TurnsTaken, TurnsTaken', NEW r \in Requests,
         NEW op \in {"update", "delete"}, NEW id \in Ids, NEW after \in Todo,
         Started(r, op, id, after)
  PROVE  UNCHANGED Contract!vars
<1>1. /\ OthersKeep(r) /\ pc[r] = "idle" /\ pc'[r] = "publishing"
      /\ ~InFlight(r) /\ InFlight(r)'
      /\ call'[r].id = id /\ call'[r].op = op /\ call'[r].original = todos[id]
      /\ id \in DOMAIN todos /\ Available(id)
      /\ \A i \in DOMAIN todos \ {id} : i \in DOMAIN todos' /\ todos'[i] = todos[i]
      /\ DOMAIN todos' \subseteq DOMAIN todos \cup {id}
  BY DEF Started, TodoBecomes, InFlight, InFlightPCs
<1>2. WorksOn(r, id)
  BY <1>1 DEF WorksOn
<1>3. \A q \in Requests : InFlight(q) => call[q].id # id
  BY <1>1 DEF Available, ClientsTakeTurns
<1>4. id \in SettledIds /\ SettledTodos[id] = todos[id]
  BY <1>1, <1>3, SettledMeans DEF SettledOneByOne
<1>5. id \in SettledIds' /\ SettledTodos'[id] = todos[id]
  BY <1>1, SettledMeansNext DEF SettledOneByOne
<1>6. UNCHANGED <<SettledTodos, SettledIndex>>
  BY <1>2, <1>4, <1>5, NothingSettled
<1> QED
  BY <1>1, <1>6, NothingAnswered DEF InFlightPCs

LEMMA CreateUndoneIsRefused ==
  ASSUME TurnsTaken, TurnsTaken', NEW r \in Requests, CreateUndone(r)
  PROVE  Contract!Next
<1> PICK id : id = call[r].id
  OBVIOUS
<1>1. /\ OthersKeep(r) /\ call' = call /\ call[r].op = "create"
      /\ pc[r] = "rollback" /\ pc'[r] = "failed"
      /\ InFlight(r) /\ ~InFlight(r)'
      /\ \A i \in DOMAIN todos \ {id} : i \in DOMAIN todos' /\ todos'[i] = todos[i]
      /\ DOMAIN todos' \subseteq DOMAIN todos \cup {id} /\ id \notin DOMAIN todos'
  BY DEF CreateUndone, InFlight, InFlightPCs, Creator
<1>2. WorksOn(r, id)
  BY <1>1 DEF WorksOn
<1>3. id \notin SettledIds /\ id \notin SettledIds'
  BY <1>1, SettledMeans, SettledMeansNext DEF SettledOneByOne
<1>4. UNCHANGED <<SettledTodos, SettledIndex>>
  BY <1>2, <1>3, NothingSettled
<1> QED
  BY <1>1, <1>4, Refused DEF InFlightPCs

\* A flight of r that ends leaves its todo settled, as it is in the map.
LEMMA SettledAsLeft ==
  ASSUME TurnsTaken, TurnsTaken', NEW r \in Requests, OthersKeep(r),
         call' = call, InFlight(r), ~InFlight(r)', NEW id, id = call[r].id,
         id \in DOMAIN todos'
  PROVE  id \in SettledIds' /\ SettledTodos'[id] = todos'[id]
<1>1. \A q \in Requests : InFlight(q)' => call'[q].id # id
  BY OthersElsewhere DEF TurnsTaken, OthersKeep, InFlight
<1> QED
  BY <1>1, SettledMeansNext DEF SettledOneByOne

LEMMA ChangeUndoneIsRefused ==
  ASSUME TurnsTaken, TurnsTaken', NEW r \in Requests,
         NEW op \in {"update", "delete"}, ChangeUndone(r, op)
  PROVE  Contract!Next
<1> PICK id : id = call[r].id
  OBVIOUS
<1>1. /\ OthersKeep(r) /\ call' = call /\ call[r].op = op /\ op # "create"
      /\ pc[r] = "rollback" /\ pc'[r] = "failed"
      /\ InFlight(r) /\ ~InFlight(r)'
  BY DEF ChangeUndone, InFlight, InFlightPCs
<1>2. /\ id \in DOMAIN todos
      /\ todos[id].employee = call[r].original.employee
      /\ op = "delete" => todos[id].content = call[r].original.content
  BY <1>1 DEF TurnsTaken, HeldOK
<1>3. call[r].original \in Todo /\ ~call[r].original.deleted
  BY <1>1, CallTyped DEF TurnsTaken, GuaranteesInv, StoreInv
<1>4. PICK after \in Todo :
        /\ TodoBecomes(id, after)
        /\ after.employee = todos[id].employee
        /\ after.content = (IF op = "update" THEN call[r].original.content
                            ELSE todos[id].content)
        /\ after.updatedAt = call[r].original.updatedAt /\ ~after.deleted
  BY <1>2 DEF ChangeUndone
<1>5. after = call[r].original
  BY <1>2, <1>3, <1>4, TodosEqual
<1>6. WorksOn(r, id)
  BY <1>1, <1>4 DEF WorksOn, TodoBecomes
<1>7. id \in SettledIds /\ SettledTodos[id] = call[r].original
  BY <1>1, SettledMeans DEF SettledOneByOne
<1>8. id \in SettledIds' /\ SettledTodos'[id] = call[r].original
  BY <1>1, <1>4, <1>5, SettledAsLeft DEF TodoBecomes
<1>9. UNCHANGED <<SettledTodos, SettledIndex>>
  BY <1>6, <1>7, <1>8, NothingSettled
<1> QED
  BY <1>1, <1>9, Refused DEF InFlightPCs

\* A create, an update and a delete that succeed.
LEMMA Answers ==
  ASSUME TurnsTaken, NEW r \in Requests, Moved(r), InFlight(r), ~InFlight(r)'
  PROVE  /\ pc'[r] = "ok"
         /\ pc[r] # "allocated"
         /\ call[r].op # "create" => pc[r] = "publishing"
<1>1. pc[r] \in InFlightPCs /\ pc'[r] \notin InFlightPCs
  BY DEF InFlight
<1>2. pc'[r] = "ok" /\ pc[r] # "allocated"
  BY <1>1 DEF Moved, InFlightPCs
<1>3. pc[r] \in {"inserted", "reading", "published", "answering"} =>
        call[r].op = "create"
  BY DEF TurnsTaken, GuaranteesInv, StoreInv, LocalsOK
<1> QED
  BY <1>1, <1>2, <1>3 DEF Moved, InFlightPCs

LEMMA MovedImplements ==
  ASSUME TurnsTaken, TurnsTaken', CreatesCounted, IsFiniteSet(Requests),
         NEW r \in Requests, Moved(r)
  PROVE  [Contract!Next]_Contract!vars
<1> PICK id : id = call[r].id
  OBVIOUS
<1>1. OthersKeep(r) /\ UNCHANGED <<todos, call>>
  BY DEF Moved
<1>2. CASE pc[r] = "idle"
  <2>1. pc'[r] = "rejected" /\ ~InFlight(r) /\ ~InFlight(r)'
    BY <1>2 DEF Moved, InFlight, InFlightPCs
  <2> QED
    BY <1>1, <1>2, <2>1, SameFlights, Refused
<1>3. CASE InFlight(r) /\ InFlight(r)'
  BY <1>1, <1>3, SameFlights, NothingAnswered DEF InFlight
<1>4. ASSUME InFlight(r), ~InFlight(r)' PROVE Contract!Next
  <2> DEFINE op == call[r].op  original == call[r].original
  <2>1. pc'[r] = "ok" /\ pc[r] # "allocated" /\ pc[r] \in InFlightPCs
    BY <1>4, Answers DEF InFlight
  <2>2. /\ original \in Todo /\ ~original.deleted
        /\ op \in {"create", "update", "delete"} /\ id \in Ids /\ Current(r)
    BY <1>4, CallTyped DEF TurnsTaken, GuaranteesInv, StoreInv
  <2>3. /\ id \in DOMAIN todos
        /\ todos[id].employee = original.employee
        /\ todos[id].content = (IF op = "delete" THEN original.content ELSE r)
        /\ todos[id].updatedAt = r
        /\ todos[id].deleted <=> op = "delete"
    BY <1>4, <2>1 DEF TurnsTaken, HeldOK
  <2>4. todos[id] \in Todo
    BY <2>3 DEF TurnsTaken, GuaranteesInv, StoreInv, TypeOK
  <2>5. id \in SettledIds' /\ SettledTodos'[id] = todos[id]
    BY <1>1, <1>4, <2>3, SettledAsLeft
  <2>6. WorksOn(r, id)
    BY <1>1 DEF WorksOn
  <2>7. \A ts : ts = [i \in DOMAIN SettledTodos \cup {id} |->
                        IF i = id THEN todos[id] ELSE SettledTodos[i]]
                => Contract!Answered(r, "ok") /\ Contract!Commit(ts)
    BY <2>1, <2>5, <2>6, OneTodoSettled
  <2>8. DOMAIN SettledTodos = SettledIds
    BY SettledMeans DEF SettledOneByOne
  <2> HIDE DEF op, original
  <2>9. CASE op = "create"
    <3> PICK e \in Employees : e = original.employee
      BY <2>2 DEF Todo
    <3>1. id \notin DOMAIN SettledTodos
      BY <1>4, <2>8, <2>9, SettledMeans DEF SettledOneByOne, op
    <3>2. todos[id] = [employee |-> e, content |-> r, updatedAt |-> r,
                       deleted |-> FALSE]
      <4>1. [employee |-> e, content |-> r, updatedAt |-> r, deleted |-> FALSE] \in Todo
        BY DEF Todo, Texts
      <4> QED
        BY <2>3, <2>4, <2>9, <4>1, TodosEqual
    <3>3. id \in 1..(2 + Cardinality(Requests))
      <4>1. /\ IsFiniteSet(Creates) /\ Cardinality(Creates) \in Nat
            /\ Cardinality(Creates) <= Cardinality(Requests)
            /\ Cardinality(Requests) \in Nat
        BY FS_Subset, FS_CardinalityType DEF Creates
      <4>2. id <= sequence /\ sequence \in Nat
        BY <2>2 DEF TurnsTaken, GuaranteesInv, StoreInv, TypeOK, CallsInv, CallsOK
      <4> QED
        BY <2>2, <4>1, <4>2 DEF CreatesCounted, Creates, Ids
    <3>4. Contract!Create(r, e, id)
      BY <2>7, <3>1, <3>2 DEF Contract!Create
    <3> QED
      BY <2>7, <3>3, <3>4 DEF Contract!Next, Contract!Succeed
  <2>10. CASE op # "create"
    <3>1. id \in DOMAIN SettledTodos /\ SettledTodos[id] = original
      BY <1>4, <2>8, <2>10, SettledMeans DEF SettledOneByOne, op, original
    <3>2. Contract!Live(id)
      BY <2>2, <3>1 DEF Contract!Live
    <3>3. DOMAIN SettledTodos \cup {id} = DOMAIN SettledTodos
      BY <3>1
    <3>4. CASE op = "update"
      <4>1. todos[id] = [original EXCEPT !.content = r, !.updatedAt = r]
        <5>1. [original EXCEPT !.content = r, !.updatedAt = r] \in Todo
          BY <2>2 DEF Todo, Texts
        <5> QED
          BY <2>2, <2>3, <2>4, <3>4, <5>1, TodosEqual DEF Todo
      <4>2. [SettledTodos EXCEPT ![id].content = r, ![id].updatedAt = r] =
              [i \in DOMAIN SettledTodos \cup {id} |->
                 IF i = id THEN todos[id] ELSE SettledTodos[i]]
        BY <3>1, <3>3, <4>1
      <4>3. Contract!Update(r, id)
        BY <2>7, <3>2, <4>2 DEF Contract!Update
      <4> QED
        BY <2>7, <3>1, <4>3 DEF Contract!Next, Contract!Succeed
    <3>5. CASE op = "delete"
      <4>1. todos[id] = [original EXCEPT !.deleted = TRUE, !.updatedAt = r]
        <5>1. [original EXCEPT !.deleted = TRUE, !.updatedAt = r] \in Todo
          BY <2>2 DEF Todo, Texts
        <5> QED
          BY <2>2, <2>3, <2>4, <3>5, <5>1, TodosEqual DEF Todo
      <4>2. [SettledTodos EXCEPT ![id].deleted = TRUE, ![id].updatedAt = r] =
              [i \in DOMAIN SettledTodos \cup {id} |->
                 IF i = id THEN todos[id] ELSE SettledTodos[i]]
        BY <3>1, <3>3, <4>1
      <4>3. Contract!Delete(r, id)
        BY <2>7, <3>2, <4>2 DEF Contract!Delete
      <4> QED
        BY <2>7, <3>1, <4>3 DEF Contract!Next, Contract!Succeed
    <3> QED
      BY <2>2, <2>10, <3>4, <3>5
  <2> QED
    BY <2>9, <2>10
<1>5. pc[r] = "idle" \/ InFlight(r)
  BY DEF Moved, InFlight, InFlightPCs
<1> QED
  BY <1>2, <1>3, <1>4, <1>5

\* The kinds of steps, one by one, as steps of the contract.
LEMMA StepsImplement ==
  ASSUME ClientsTakeTurns, IsFiniteSet(Requests),
         TurnsTaken, TurnsTaken', CreatesCounted, [Next]_vars
  PROVE  [Contract!Next]_Contract!vars
<1>0. StoreInv
  BY DEF TurnsTaken, GuaranteesInv
<1>1. CASE UNCHANGED vars
  <2>1. UNCHANGED <<todos, todosByEmployee, call, pc, epoch>>
    BY <1>1 DEF vars
  <2> QED
    BY <2>1 DEF Contract!vars, SettledTodos, SettledIndex, SettledIds, Answer,
                Unsettled, Calls, Current, InFlight
<1>2. ASSUME NEW r \in Requests, Appended(r) PROVE UNCHANGED Contract!vars
  <2>1. UNCHANGED <<todos, todosByEmployee, call, pc, epoch>>
    BY <1>2 DEF Appended
  <2> QED
    BY <2>1 DEF Contract!vars, SettledTodos, SettledIndex, SettledIds, Answer,
                Unsettled, Calls, Current, InFlight
<1> QED
  BY <1>0, <1>1, <1>2, MovedImplements, AllocatedSettlesNothing,
     InsertedSettlesNothing, StartedSettlesNothing, CreateUndoneIsRefused,
     ChangeUndoneIsRefused, StepKinds, NoRestart

LEMMA InitImplements ==
  ASSUME ClientsTakeTurns, Init
  PROVE  Contract!Init
<1>1. \A r \in Requests : pc[r] = "idle" /\ ~InFlight(r)
  BY DEF Init, InFlight, InFlightPCs
<1>2. TurnsTaken
  BY InitGuaranteesInv, InitTurnsInv, InitLastEventsOK DEF TurnsTaken
<1>3. \A id : id \in SettledIds <=> id \in DOMAIN todos
  BY <1>1, <1>2, SettledMeans DEF SettledOneByOne
<1>4. SettledIds = 1..2 /\ todos = SeededTodos
  BY <1>3 DEF Init, SeededTodos
<1>5. /\ SettledTodos = [id \in SettledIds |-> SettledTodos[id]]
      /\ \A id \in SettledIds : SettledTodos[id] = todos[id]
  BY <1>1, <1>2, SettledMeans DEF SettledOneByOne
<1>6. SettledTodos = SeededTodos
  BY <1>4, <1>5 DEF SeededTodos
<1>7. SettledIndex = Contract!Listing(SeededTodos)
  BY <1>2, <1>6, SettledListing DEF LiveOnesListed
<1>8. Answer = [r \in Requests |-> "none"]
  BY <1>1 DEF Answer
<1> QED
  BY <1>6, <1>7, <1>8 DEF Contract!Init

\* A sequence that no more than counts the creates; needs the requests to
\* be finitely many, as the contract's ids are.
LEMMA CountedAlways ==
  ASSUME ClientsTakeTurns, IsFiniteSet(Requests)
  PROVE  Spec => []CreatesCounted
<1>1. Init => CreatesCounted
  <2> SUFFICES ASSUME Init PROVE CreatesCounted
    OBVIOUS
  <2>1. Creates = {}
    BY DEF Init, Made, Creates
  <2>2. Cardinality(Creates) = 0
    BY <2>1, FS_EmptySet
  <2>3. sequence = 2
    BY DEF Init
  <2> QED
    BY <2>2, <2>3 DEF CreatesCounted, Creates
<1>2. GuaranteesInv /\ CreatesCounted /\ [Next]_vars => CreatesCounted'
  BY CreatesCountedKept DEF GuaranteesInv
<1> QED
  BY <1>1, <1>2, GuaranteesInvAlways, PTL DEF Spec

\* The invariants of clients that take turns: a todo has one mutation in
\* flight, which finds it as it left it, every live todo is listed, and the
\* last event about a todo follows what happens to it.
THEOREM TurnsAndEventsAlways ==
  ASSUME ClientsTakeTurns, IsFiniteSet(Requests)
  PROVE  Spec => []TurnsAndEventsInv
<1>1. TurnsTaken /\ CreatesCounted => TurnsAndEventsInv
  BY DEF TurnsTaken, TurnsAndEventsInv, TurnsInv
<1> QED
  BY <1>1, TurnsTakenAlways, CountedAlways, PTL

\* To clients that take turns every mutation is atomic: TodoStore, with the
\* rollbacks of its mutations, implements TodoContract, where a mutation
\* takes effect at once and succeeds or fails and changes nothing.
THEOREM ContractImplemented ==
  ASSUME ClientsTakeTurns, IsFiniteSet(Requests)
  PROVE  Spec => ImplementsContract
<1>1. Init => Contract!Init
  BY InitImplements
<1>2. TurnsTaken /\ TurnsTaken' /\ CreatesCounted /\ [Next]_vars =>
        [Contract!Next]_Contract!vars
  BY StepsImplement
<1> QED
  BY <1>1, <1>2, TurnsTakenAlways, CountedAlways, PTL
     DEF Spec, ImplementsContract, Contract!Spec
=============================================================================
