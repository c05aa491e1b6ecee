------------------------- MODULE GraphQLServersProofs -------------------------
(***************************************************************************)
(* Proofs about the GraphQL servers, for any workloads, employees, tokens  *)
(* and numbers of requests and fields.  The first part says what each step *)
(* does to the slot of the field that takes it.                            *)
(***************************************************************************)
EXTENDS GraphQLInvariants, TLAPS, FiniteSetTheorems

-----------------------------------------------------------------------------
(* The kinds of steps, as far as pointers and words are concerned *)

\* Nothing happens but to field i of r.
OtherFields(r, i) ==
  /\ UNCHANGED <<workload, phase, after>>
  /\ slot' = [q \in Requests |-> [j \in Fields(q) |-> slot'[q][j]]]
  /\ \A q \in Requests : \A j \in Fields(q) :
       (q # r \/ j # i) => slot'[q][j] = slot[q][j]
  /\ IsSlot(slot'[r][i])

\* A pointer to an employee is all there is to read of a value.
Sound(value) ==
  \A place \in LivePlaces(value) : Pointer(value, place) \in Employees

\* The field gets a result, or part of one; no word is shown or written.
Resolved(r, i) ==
  /\ OtherFields(r, i) /\ UNCHANGED employees
  /\ \/ MayStart(r, i)
     \/ slot[r][i].st = "resolving"
     \/ slot[r][i].st = "writing" /\ Unwritten(r, i) = {}
  /\ slot'[r][i].st \in {"resolving", "marshalling", "done"}
  /\ slot'[r][i].shown = slot[r][i].shown /\ slot'[r][i].wrote = slot[r][i].wrote
  /\ slot'[r][i].st = "resolving" =>
       slot'[r][i].value = List(slot'[r][i].value.items)
  /\ Sound(slot'[r][i].value)

UpdateBegun(r, i) ==
  /\ OtherFields(r, i) /\ UNCHANGED employees
  /\ MayStart(r, i) /\ ~Locked /\ Call(r, i).id \in Employees
  /\ slot'[r][i].st = "writing" /\ slot'[r][i].value = slot[r][i].value
  /\ slot'[r][i].shown = slot[r][i].shown /\ slot'[r][i].wrote = slot[r][i].wrote

WordWritten(r, i, word) ==
  /\ OtherFields(r, i)
  /\ slot[r][i].st = "writing" /\ slot'[r][i].st = "writing"
  /\ slot'[r][i].value = slot[r][i].value
  /\ slot'[r][i].shown = slot[r][i].shown
  /\ word \in Unwritten(r, i)
  /\ employees' = [employees EXCEPT ![Call(r, i).id][word] = @ + 1]
  /\ slot'[r][i].wrote = slot[r][i].wrote \cup
       {[of |-> Call(r, i).id, word |-> word,
         version |-> employees[Call(r, i).id][word] + 1]}

WordShown(r, i, place, e, word) ==
  /\ OtherFields(r, i) /\ UNCHANGED employees
  /\ e \in Employees /\ word \in Words
  /\ slot[r][i].st = "marshalling" /\ slot'[r][i].st \in {"marshalling", "done"}
  /\ slot'[r][i].value = slot[r][i].value
  /\ slot'[r][i].wrote = slot[r][i].wrote
  /\ slot'[r][i].shown = slot[r][i].shown \cup
       {[at |-> place, of |-> e, word |-> word, version |-> employees[e][word]]}

\* The request is taken up, answered or refused.
PhaseMoved(r) ==
  /\ UNCHANGED <<workload, slot, employees>>
  /\ \A q \in Requests \ {r} : phase'[q] = phase[q] /\ after'[q] = after[q]
  /\ phase' \in [Requests -> {"new", "running", "answered", "refused"}]
  /\ after' \in [Requests -> SUBSET Requests]
  /\ \/ phase[r] = "new" /\ phase'[r] = "running" /\ after'[r] = Answered
     \/ phase[r] = "new" /\ phase'[r] = "refused" /\ after'[r] = after[r]
     \/ /\ phase[r] = "running" /\ phase'[r] = "answered" /\ after'[r] = after[r]
        /\ \A i \in Fields(r) : Done(r, i)

LEMMA UpdateStep ==
  ASSUME ServersTypeOK, NEW r \in Requests, NEW i \in Fields(r), NEW new, IsSlot(new),
         Update(r, i, new)
  PROVE  OtherFields(r, i) /\ slot'[r][i] = new
<1>1. /\ UNCHANGED <<workload, phase, after>>
      /\ slot' = [slot EXCEPT ![r][i] = new]
  BY DEF Update
<1>2. /\ slot = [q \in Requests |-> [j \in Fields(q) |-> slot[q][j]]]
  BY DEF ServersTypeOK
<1>3. slot'[r][i] = new
  BY <1>1, <1>2
<1>4. \A q \in Requests : \A j \in Fields(q) :
       (q # r \/ j # i) => slot'[q][j] = slot[q][j]
  BY <1>1, <1>2
<1>5. slot' = [q \in Requests |-> [j \in Fields(q) |-> slot'[q][j]]]
  BY <1>1, <1>2
<1> QED
  BY <1>1, <1>3, <1>4, <1>5 DEF OtherFields

\* The values a field of a slot can be given.
LEMMA SlotWith ==
  ASSUME NEW s, IsSlot(s), NEW v
  PROVE  /\ IsSlot([s EXCEPT !.value = v]) /\ [s EXCEPT !.value = v].value = v
         /\ [s EXCEPT !.value = v].st = s.st
         /\ [s EXCEPT !.value = v].shown = s.shown
         /\ [s EXCEPT !.value = v].wrote = s.wrote
         /\ IsSlot([s EXCEPT !.st = v]) /\ [s EXCEPT !.st = v].st = v
         /\ [s EXCEPT !.st = v].value = s.value
         /\ [s EXCEPT !.st = v].shown = s.shown
         /\ [s EXCEPT !.st = v].wrote = s.wrote
BY DEF IsSlot

LEMMA SettledMeans ==
  ASSUME NEW s, IsSlot(s)
  PROVE  /\ IsSlot(Settled(s)) /\ Settled(s).st \in {"marshalling", "done"}
         /\ Settled(s).value = s.value
         /\ Settled(s).shown = s.shown /\ Settled(s).wrote = s.wrote
<1> DEFINE st == IF \A p \in LivePlaces(s.value) : Unread(s, p) = {}
                  THEN "done" ELSE "marshalling"
<1>1. Settled(s) = [s EXCEPT !.st = st] /\ st \in {"marshalling", "done"}
  BY DEF Settled
<1> HIDE DEF st
<1>2. /\ IsSlot([s EXCEPT !.st = st]) /\ [s EXCEPT !.st = st].st = st
      /\ [s EXCEPT !.st = st].value = s.value
      /\ [s EXCEPT !.st = st].shown = s.shown
      /\ [s EXCEPT !.st = st].wrote = s.wrote
  BY SlotWith
<1> QED
  BY <1>1, <1>2

LEMMA ReturnedMeans ==
  ASSUME NEW s, IsSlot(s), NEW v
  PROVE  /\ IsSlot(Returned(s, v)) /\ Returned(s, v).st \in {"marshalling", "done"}
         /\ Returned(s, v).value = v
         /\ Returned(s, v).shown = s.shown /\ Returned(s, v).wrote = s.wrote
<1> DEFINE t == [s EXCEPT !.value = v]
<1>1. /\ IsSlot(t) /\ t.value = v /\ t.shown = s.shown /\ t.wrote = s.wrote
      /\ Returned(s, v) = Settled(t)
  BY SlotWith DEF Returned
<1> HIDE DEF t
<1> QED
  BY <1>1, SettledMeans

\* A resolver returns.
LEMMA ReturnedStep ==
  ASSUME ServersTypeOK, NEW r \in Requests, NEW i \in Fields(r), NEW v,
         Update(r, i, Returned(slot[r][i], v)), Sound(v), UNCHANGED employees,
         \/ MayStart(r, i)
         \/ slot[r][i].st = "writing" /\ Unwritten(r, i) = {}
  PROVE  Resolved(r, i) /\ slot'[r][i].value = v
<1> DEFINE new == Returned(slot[r][i], v)
<1>1. IsSlot(slot[r][i])
  BY DEF ServersTypeOK
<1>2. /\ IsSlot(new) /\ new.st \in {"marshalling", "done"} /\ new.value = v
      /\ new.shown = slot[r][i].shown /\ new.wrote = slot[r][i].wrote
  BY <1>1, ReturnedMeans
<1> HIDE DEF new
<1>3. OtherFields(r, i) /\ slot'[r][i] = new
  BY <1>2, UpdateStep DEF new
<1> QED
  BY <1>2, <1>3 DEF Resolved

LEMMA SoundValues ==
  /\ Sound(Nil) /\ Sound(Failed)
  /\ \A x : Sound(Leaf(x))
  /\ \A type, key, fields : Sound(Object(type, key, fields))
  /\ \A key \in Employees : Sound(Live(key))
  /\ \A items :
       (\A k \in DOMAIN items : items[k].kind = "live" => items[k].key \in Employees)
         => Sound(List(items))
<1>1. Sound(Nil) /\ Sound(Failed)
  BY DEF Sound, LivePlaces, Nil, Failed
<1>2. \A x : Sound(Leaf(x))
  BY DEF Sound, LivePlaces, Leaf
<1>3. \A type, key, fields : Sound(Object(type, key, fields))
  BY DEF Sound, LivePlaces, Object
<1>4. \A key \in Employees : Sound(Live(key))
  BY DEF Sound, LivePlaces, Live, Pointer
<1>5. ASSUME NEW items,
             \A k \in DOMAIN items : items[k].kind = "live" => items[k].key \in Employees
      PROVE  Sound(List(items))
  <2>1. LivePlaces(List(items)) = {k \in DOMAIN items : items[k].kind = "live"}
    BY DEF LivePlaces, List
  <2> QED
    BY <1>5, <2>1 DEF Sound, Pointer, List
<1> QED
  BY <1>1, <1>2, <1>3, <1>4, <1>5

LEMMA CollectedStep ==
  ASSUME ServersTypeOK, UNCHANGED employees,
         NEW r \in Requests, NEW i \in Fields(r), NEW s, IsSlot(s),
         Update(r, i, Collected(s)), Sound(s.value),
         s.st = "resolving", s.value = List(s.value.items),
         s.shown = slot[r][i].shown, s.wrote = slot[r][i].wrote,
         MayStart(r, i) \/ slot[r][i].st = "resolving"
  PROVE  Resolved(r, i) /\ slot'[r][i].value = s.value
<1> DEFINE new == Collected(s)
<1>1. /\ IsSlot(new) /\ new.st \in {"resolving", "marshalling", "done"}
      /\ new.value = s.value /\ new.shown = s.shown /\ new.wrote = s.wrote
  BY SettledMeans DEF Collected
<1> HIDE DEF new
<1>2. OtherFields(r, i) /\ slot'[r][i] = new
  BY <1>1, UpdateStep DEF new
<1> QED
  BY <1>1, <1>2 DEF Resolved

\* A group's goroutine ends.
LEMMA EntityStep ==
  ASSUME ServersTypeOK, StagesOK, PointersOK, UNCHANGED employees,
         NEW r \in Requests, NEW i \in Fields(r), slot[r][i].st = "resolving",
         NEW place, NEW type, NEW k, NEW entity,
         EntityAt(place, r, i, type, k, entity),
         entity.kind = "live" => entity.key \in Employees
  PROVE  Resolved(r, i) /\ slot'[r][i].value = List(slot'[r][i].value.items)
<1> DEFINE s == slot[r][i]
           rest == [s EXCEPT !.left = @ \ {<<type, k>>}]
           err == [rest EXCEPT !.failed = @ \cup {place}]
           got == [rest EXCEPT !.value.items[place] = entity]
<1>1. IsSlot(s) /\ s.value = List(s.value.items) /\ s.st = "resolving" /\ Sound(s.value)
  BY DEF ServersTypeOK, StagesOK, PointersOK, Sound
<1> HIDE DEF s
<1>2. /\ IsSlot(rest) /\ rest.value = s.value /\ rest.st = s.st
      /\ rest.shown = s.shown /\ rest.wrote = s.wrote
  BY <1>1 DEF IsSlot
<1> HIDE DEF rest
<1>3. CASE entity = Failed
  <2>1. /\ IsSlot(err) /\ err.value = s.value /\ err.st = s.st
        /\ err.shown = s.shown /\ err.wrote = s.wrote
    BY <1>2 DEF IsSlot
  <2>2. Update(r, i, Collected(err))
    BY <1>3 DEF EntityAt, rest, s
  <2> HIDE DEF err
  <2> QED
    BY <1>1, <2>1, <2>2, CollectedStep DEF s
<1>4. CASE entity # Failed
  <2> DEFINE items == [s.value.items EXCEPT ![place] = entity]
  <2>1. /\ IsSlot(got) /\ got.value = [s.value EXCEPT !.items[place] = entity]
        /\ got.st = s.st /\ got.shown = s.shown /\ got.wrote = s.wrote
    BY <1>2 DEF IsSlot
  <2>2. [s.value EXCEPT !.items[place] = entity] = List(items)
    BY <1>1 DEF List
  <2>3. Sound(List(items))
    <3>1. \A p \in DOMAIN s.value.items : s.value.items[p].kind = "live" =>
            s.value.items[p].key \in Employees
      BY <1>1 DEF Sound, LivePlaces, Pointer, List
    <3>2. \A p \in DOMAIN items : items[p].kind = "live" => items[p].key \in Employees
      BY <3>1
    <3> HIDE DEF items
    <3> QED
      BY <3>2, SoundValues
  <2>4. Update(r, i, Collected(got))
    BY <1>4 DEF EntityAt, rest, s
  <2> HIDE DEF items, got
  <2>5. List(items) = List(List(items).items)
    BY DEF List
  <2> QED
    BY <1>1, <2>1, <2>2, <2>3, <2>4, <2>5, CollectedStep DEF s
<1> QED
  BY <1>3, <1>4

-----------------------------------------------------------------------------
(* The steps of the servers are of these kinds *)

\* The field's value is no post and no user, and no answer to createPost.
PlainValue(r, i) ==
  slot'[r][i].value.kind = "object" =>
    /\ slot'[r][i].value.type \notin {"Post", "User"}
    /\ Call(r, i).field # "createPost"

PostMade(r, i) ==
  /\ server = "demo" /\ Starts(r, i, "createPost") /\ AllowCreatePost(token(r))
  /\ postSeq' = postSeq + 1 /\ UNCHANGED users
  /\ slot'[r][i].value =
       Object("Post", postSeq + 1, [title |-> Leaf(Call(r, i).title),
                                    authorID |-> Leaf(token(r).subject)])

UserFound(r, i) ==
  LET subject == token(r).subject  roles == token(r).roles
  IN /\ server = "demo" /\ Starts(r, i, "me") /\ Authenticated(token(r))
     /\ users' = LookupUser(subject, roles) /\ UNCHANGED postSeq
     /\ slot'[r][i].value =
          Object("User", subject,
                 [id |-> Leaf(subject),
                  roles |-> AsList(UnionRoles(users'[subject], roles))])

NothingMade(r, i) ==
  /\ UNCHANGED <<users, postSeq>>
  /\ PlainValue(r, i) \/ slot'[r][i].value = slot[r][i].value

WordsMoved(r, i) ==
  \/ Resolved(r, i)
  \/ UpdateBegun(r, i)
  \/ \E word \in Words : WordWritten(r, i, word)
  \/ \E place, e, word : WordShown(r, i, place, e, word)

LEMMA StaticStep ==
  ASSUME ServersTypeOK, NEW r \in Requests, NEW i \in Fields(r),
         ResolveStatic(r, i), UNCHANGED employees
  PROVE  Resolved(r, i) /\ PlainValue(r, i)
<1>1. ASSUME NEW v, Update(r, i, Returned(slot[r][i], v)), MayStart(r, i),
             Call(r, i).field \in {"__type", "__schema", "_service"},
             v.kind = "object" => v.type \notin {"Post", "User"}, Sound(v)
      PROVE  Resolved(r, i) /\ PlainValue(r, i)
  BY <1>1, ReturnedStep DEF PlainValue
<1>2. \A type, key, fields :
        /\ Object(type, key, fields).kind = "object"
        /\ Object(type, key, fields).type = type
  BY DEF Object
<1>3. CASE Starts(r, i, "__type")
             /\ Update(r, i, Returned(slot[r][i], IntrospectType(Call(r, i).name)))
  <2> DEFINE v == IntrospectType(Call(r, i).name)
  <2>1. v = Nil \/ \E fields : v = Object("__Type", Call(r, i).name, fields)
    BY DEF IntrospectType
  <2> HIDE DEF v
  <2>2. CASE v = Nil
    <3>1. v.kind # "object" /\ Sound(v)
      BY <2>2, SoundValues DEF Nil
    <3> QED
      BY <1>1, <1>3, <3>1 DEF Starts, v
  <2>3. CASE v # Nil
    <3>1. v.type = "__Type" /\ Sound(v)
      BY <1>2, <2>1, <2>3, SoundValues
    <3> QED
      BY <1>1, <1>3, <3>1 DEF Starts, v
  <2> QED
    BY <2>2, <2>3
<1>4. CASE Starts(r, i, "__schema") /\ Update(r, i, Returned(slot[r][i], IntrospectSchema))
  <2>1. IntrospectSchema.type = "__Schema" /\ Sound(IntrospectSchema)
    BY <1>2, SoundValues DEF IntrospectSchema
  <2> QED
    BY <1>1, <1>4, <2>1 DEF Starts
<1>5. CASE Starts(r, i, "_service") /\ Update(r, i, Returned(slot[r][i], ServiceSDL))
  <2>1. ServiceSDL.type = "_Service" /\ Sound(ServiceSDL)
    BY <1>2, SoundValues DEF ServiceSDL
  <2> QED
    BY <1>1, <1>5, <2>1 DEF Starts
<1> QED
  BY <1>3, <1>4, <1>5 DEF ResolveStatic

LEMMA EntitiesStep ==
  ASSUME ServersTypeOK, NEW r \in Requests, NEW i \in Fields(r),
         ResolveEntities(r, i), UNCHANGED employees
  PROVE  Resolved(r, i) /\ PlainValue(r, i)
<1> DEFINE reps == Representations(r, i)
           s == slot[r][i]
           nils == List([k \in DOMAIN reps |-> Nil])
<1>1. MayStart(r, i) /\ IsSlot(s)
  BY DEF ResolveEntities, Starts, ServersTypeOK
<1>2. CASE ArgumentsFail(reps)
  <2>1. Update(r, i, Returned(s, Failed)) /\ Failed.kind = "failed" /\ Sound(Failed)
    BY <1>2, SoundValues DEF ResolveEntities, Failed
  <2> QED
    BY <1>1, <2>1, ReturnedStep DEF PlainValue
<1>3. CASE ~ArgumentsFail(reps)
  <2> DEFINE failed == {k \in DOMAIN reps : reps[k].type = "none"}
             left == UNION {{<<type, k>> : k \in DOMAIN Group(reps, type)}
                              : type \in GroupNames(reps)}
             new == [s EXCEPT !.st = "resolving", !.value = nils,
                              !.failed = failed, !.left = left]
  <2>1. Update(r, i, Collected(new))
    BY <1>3 DEF ResolveEntities
  <2> HIDE DEF failed, left
  <2>2. /\ IsSlot(new) /\ new.st = "resolving" /\ new.value = nils
        /\ new.shown = s.shown /\ new.wrote = s.wrote
    <3> HIDE DEF nils, s
    <3>1. new = [st |-> "resolving", value |-> nils, left |-> left,
                 failed |-> failed, shown |-> s.shown, wrote |-> s.wrote]
      <4>1. new = [f \in DOMAIN s |-> new[f]]
        OBVIOUS
      <4>2. DOMAIN s = {"st", "value", "left", "failed", "shown", "wrote"}
        BY <1>1 DEF IsSlot
      <4>3. /\ new["st"] = "resolving" /\ new["value"] = nils
            /\ new["left"] = left /\ new["failed"] = failed
            /\ new["shown"] = s.shown /\ new["wrote"] = s.wrote
        BY <4>2
      <4> HIDE DEF new
      <4> QED
        BY <4>1, <4>2, <4>3
    <3> HIDE DEF new
    <3> QED
      BY <3>1 DEF IsSlot
  <2>3. nils = List(nils.items) /\ nils.kind = "list" /\ Sound(nils)
    <3>1. \A k \in DOMAIN reps : [l \in DOMAIN reps |-> Nil][k].kind # "live"
      BY DEF Nil
    <3> DEFINE items == [l \in DOMAIN reps |-> Nil]
    <3>2. \A k \in DOMAIN items : items[k].kind # "live"
      BY <3>1
    <3> HIDE DEF items
    <3>3. Sound(List(items))
      BY <3>2, SoundValues
    <3> QED
      BY <3>3 DEF List, items
  <2> HIDE DEF new, nils
  <2>4. Resolved(r, i) /\ slot'[r][i].value = new.value
    <3> HIDE DEF reps
    <3> QED
      BY <1>1, <2>1, <2>2, <2>3, CollectedStep
  <2> QED
    BY <2>2, <2>3, <2>4 DEF PlainValue
<1> QED
  BY <1>2, <1>3

\* What a resolver of todo-server or of demo-opa-graphql returns is a copy.
LEMMA CopyReturned ==
  ASSUME ServersTypeOK, NEW r \in Requests, NEW i \in Fields(r), NEW v,
         MayStart(r, i), Update(r, i, Returned(slot[r][i], v)),
         v.kind \notin {"live", "list"}, UNCHANGED employees
  PROVE  Resolved(r, i) /\ slot'[r][i].value = v
<1>1. Sound(v)
  BY DEF Sound, LivePlaces
<1> QED
  BY <1>1, ReturnedStep

LEMMA TodoKinds ==
  /\ \A id : TodoNamed(id).kind = "object" /\ TodoNamed(id).type = "Todo"
  /\ \A todos \in TodoLists : todos.kind = "list" /\ Sound(todos)
<1>1. \A id : TodoNamed(id).kind = "object" /\ TodoNamed(id).type = "Todo"
  BY DEF TodoNamed, Object
<1>2. ASSUME NEW todos \in TodoLists
      PROVE  todos.kind = "list" /\ Sound(todos)
  <2>1. PICK items \in {<<>>, <<TodoNamed("todo-1")>>,
                        <<TodoNamed("todo-1"), TodoNamed("todo-2")>>} :
          todos = List(items)
    BY <1>2 DEF TodoLists
  <2>2. \A k \in DOMAIN items : items[k].kind # "live"
    BY <1>1, <2>1
  <2> QED
    BY <2>1, <2>2, SoundValues DEF List
<1> QED
  BY <1>1, <1>2

LEMMA TodoSteps ==
  ASSUME ServersTypeOK, StagesOK, PointersOK, UNCHANGED employees,
         NEW r \in Requests, NEW i \in Fields(r), TodoStep(r, i)
  PROVE  Resolved(r, i) /\ PlainValue(r, i)
<1>1. CASE EmployeeTodos(r, i)
  <2>1. PICK todos \in TodoLists : Update(r, i, Returned(slot[r][i], todos))
    BY <1>1 DEF EmployeeTodos
  <2>2. todos.kind = "list" /\ Sound(todos) /\ MayStart(r, i)
    BY <1>1, TodoKinds DEF EmployeeTodos, Starts
  <2> QED
    BY <2>1, <2>2, ReturnedStep DEF PlainValue
<1>2. ASSUME MayStart(r, i), NEW v, Update(r, i, Returned(slot[r][i], v)),
             v \in {Nil, Failed, TodoNamed(Call(r, i).id)},
             Call(r, i).field # "createPost"
      PROVE  Resolved(r, i) /\ PlainValue(r, i)
  <2>1. v.kind \notin {"live", "list"} /\ (v.kind = "object" => v.type = "Todo")
    BY <1>2, TodoKinds DEF Nil, Failed
  <2> QED
    BY <1>2, <2>1, CopyReturned DEF PlainValue
<1>3. CASE TodoByID(r, i)
  BY <1>2, <1>3 DEF TodoByID, Starts
<1>4. CASE MutateTodo(r, i)
  BY <1>2, <1>4 DEF MutateTodo, Starts
<1>5. CASE ResolveTodoEntity(r, i)
  <2>1. PICK task \in slot[r][i].left :
          /\ slot[r][i].st = "resolving"
          /\ \E entity \in TodoEntities(Rep(r, i, task[1], task[2])) :
               EntityReturned(r, i, task[1], task[2], entity)
    BY <1>5 DEF ResolveTodoEntity, Resolving
  <2> DEFINE rep == Rep(r, i, task[1], task[2])
  <2>2. PICK entity \in TodoEntities(rep) :
          EntityAt(IndexOf(r, i, task[1], task[2]), r, i, task[1], task[2], entity)
    BY <2>1 DEF EntityReturned
  <2>3. entity.kind # "live"
    <3> HIDE DEF rep
    <3>1. \A id, todos : FindEmployee(id, todos).kind = "object"
      BY DEF FindEmployee, Object
    <3> QED
      BY <2>2, <3>1, TodoKinds DEF TodoEntities, Nil, Failed
  <2>4. Resolved(r, i) /\ slot'[r][i].value = List(slot'[r][i].value.items)
    BY <2>1, <2>2, <2>3, EntityStep
  <2> QED
    BY <2>4 DEF PlainValue, List
<1> QED
  BY <1>1, <1>3, <1>4, <1>5 DEF TodoStep

\* Of graphql-server, a step is of one of the four kinds.
LEMMA EmployeeSteps ==
  ASSUME ServersTypeOK, StagesOK, PointersOK, WritersOK,
         NEW r \in Requests, NEW i \in Fields(r), EmployeeStep(r, i)
  PROVE  /\ WordsMoved(r, i)
         /\ PlainValue(r, i) \/ slot'[r][i].value = slot[r][i].value
<1> USE DEF WordsMoved
<1>1. CASE WriteWord(r, i)
  <2> DEFINE e == Call(r, i).id
             Written(word) == [of |-> e, word |-> word, version |-> employees[e][word] + 1]
             new(word) == [slot[r][i] EXCEPT !.wrote = @ \cup {Written(word)}]
  <2>1. PICK word \in NextWords(Unwritten(r, i)) :
          /\ employees' = [employees EXCEPT ![e][word] = @ + 1]
          /\ Update(r, i, new(word))
    BY <1>1 DEF WriteWord
  <2>2. word \in Unwritten(r, i) /\ word \in Words /\ slot[r][i].st = "writing"
    BY <1>1, <2>1 DEF WriteWord, NextWords, Unwritten, Given, Words
  <2> DEFINE wrote == slot[r][i].wrote \cup {Written(word)}
  <2>3. /\ IsSlot(new(word)) /\ new(word).st = slot[r][i].st
        /\ new(word).value = slot[r][i].value
        /\ new(word).shown = slot[r][i].shown
        /\ new(word).wrote = wrote
    <3> HIDE DEF Written
    <3>1. IsSlot(slot[r][i])
      BY DEF ServersTypeOK
    <3> QED
      BY <3>1 DEF IsSlot
  <2> HIDE DEF new
  <2>4. OtherFields(r, i) /\ slot'[r][i] = new(word)
    BY <2>1, <2>3, UpdateStep
  <2>5. WordWritten(r, i, word)
    BY <2>1, <2>2, <2>3, <2>4 DEF WordWritten
  <2> QED
    BY <2>2, <2>3, <2>4, <2>5
<1>2. CASE EmployeeByID(r, i) /\ UNCHANGED employees
  <2> DEFINE v == Find(Call(r, i).id)
  <2>1. Sound(v) /\ v.kind # "object"
    BY SoundValues DEF Find, Live, Nil
  <2> HIDE DEF v
  <2>2. MayStart(r, i) /\ Update(r, i, Returned(slot[r][i], v))
    BY <1>2 DEF EmployeeByID, Starts, v
  <2> QED
    BY <1>2, <2>1, <2>2, ReturnedStep DEF PlainValue
<1>3. CASE ListEmployees(r, i) /\ UNCHANGED employees
  <2>1. PICK order \in Orders :
          Update(r, i, Returned(slot[r][i], List([k \in DOMAIN order |-> Live(order[k])])))
    BY <1>3 DEF ListEmployees
  <2> DEFINE items == [k \in DOMAIN order |-> Live(order[k])]
  <2>2. \A k \in DOMAIN items : items[k].key \in Employees
    BY <2>1 DEF Orders, Live
  <2>3. MayStart(r, i) /\ Update(r, i, Returned(slot[r][i], List(items)))
    BY <1>3, <2>1 DEF ListEmployees, Starts
  <2> HIDE DEF items
  <2>4. Sound(List(items)) /\ List(items).kind = "list"
    BY <2>2, SoundValues DEF List
  <2> QED
    BY <1>3, <2>3, <2>4, ReturnedStep DEF PlainValue
<1>4. CASE ResolveEmployeeEntity(r, i) /\ UNCHANGED employees
  <2>1. PICK task \in slot[r][i].left :
          /\ slot[r][i].st = "resolving"
          /\ EntityReturned(r, i, task[1], task[2],
               IF Resolvable(Rep(r, i, task[1], task[2]))
               THEN Find(Rep(r, i, task[1], task[2]).id) ELSE Failed)
    BY <1>4 DEF ResolveEmployeeEntity, Resolving
  <2> DEFINE rep == Rep(r, i, task[1], task[2])
             entity == IF Resolvable(rep) THEN Find(rep.id) ELSE Failed
  <2>2. entity.kind = "live" => entity.key \in Employees
    <3> HIDE DEF rep
    <3>1. CASE Resolvable(rep)
      <4>1. entity = Find(rep.id)
        BY <3>1
      <4> QED
        BY <4>1 DEF Find, Nil, Live
    <3>2. CASE ~Resolvable(rep)
      BY <3>2 DEF Failed
    <3> QED
      BY <3>1, <3>2
  <2>3. EntityAt(IndexOf(r, i, task[1], task[2]), r, i, task[1], task[2], entity)
    BY <2>1 DEF EntityReturned
  <2> HIDE DEF entity, rep
  <2>4. Resolved(r, i) /\ slot'[r][i].value = List(slot'[r][i].value.items)
    BY <1>4, <2>1, <2>2, <2>3, EntityStep
  <2> QED
    BY <2>4 DEF PlainValue, List
<1>5. CASE StartUpdate(r, i) /\ UNCHANGED employees
  <2>1. CASE Call(r, i).id \in Employees
    <3> DEFINE new == [slot[r][i] EXCEPT !.st = "writing"]
    <3>1. IsSlot(slot[r][i])
      BY DEF ServersTypeOK
    <3>2. /\ IsSlot(new) /\ new.st = "writing" /\ new.value = slot[r][i].value
          /\ new.shown = slot[r][i].shown /\ new.wrote = slot[r][i].wrote
      <4> DEFINE s == slot[r][i]
      <4> HIDE DEF s
      <4>1. IsSlot(s)
        BY <3>1 DEF s
      <4>2. /\ IsSlot([s EXCEPT !.st = "writing"])
            /\ [s EXCEPT !.st = "writing"].st = "writing"
            /\ [s EXCEPT !.st = "writing"].value = s.value
            /\ [s EXCEPT !.st = "writing"].shown = s.shown
            /\ [s EXCEPT !.st = "writing"].wrote = s.wrote
        BY <4>1 DEF IsSlot
      <4> QED
        BY <4>2 DEF s
    <3>3. Update(r, i, new) /\ MayStart(r, i) /\ ~Locked
      BY <1>5, <2>1 DEF StartUpdate, Starts, Unlocked
    <3> HIDE DEF new
    <3>4. OtherFields(r, i) /\ slot'[r][i] = new
      BY <3>2, <3>3, UpdateStep
    <3> QED
      BY <1>5, <2>1, <3>2, <3>3, <3>4 DEF UpdateBegun
  <2>2. CASE Call(r, i).id \notin Employees
    <3>1. Sound(Failed) /\ Failed.kind = "failed"
      BY SoundValues DEF Failed
    <3>2. MayStart(r, i) /\ Update(r, i, Returned(slot[r][i], Failed))
      BY <1>5, <2>2 DEF StartUpdate, Starts
    <3> QED
      BY <1>5, <3>1, <3>2, ReturnedStep DEF PlainValue
  <2> QED
    BY <2>1, <2>2
<1>6. CASE FinishUpdate(r, i) /\ UNCHANGED employees
  <2> DEFINE v == Live(Call(r, i).id)
  <2>1. Call(r, i).id \in Employees
    BY <1>6 DEF FinishUpdate, WritersOK
  <2>2. Sound(v) /\ v.kind = "live"
    BY <2>1, SoundValues DEF Live
  <2> HIDE DEF v
  <2>3. /\ slot[r][i].st = "writing" /\ Unwritten(r, i) = {}
        /\ Update(r, i, Returned(slot[r][i], v))
    BY <1>6 DEF FinishUpdate, v
  <2> QED
    BY <1>6, <2>2, <2>3, ReturnedStep DEF PlainValue
<1>7. CASE ReadWord(r, i) /\ UNCHANGED employees
  <2> DEFINE s == slot[r][i]
  <2>1. PICK place \in LivePlaces(s.value) :
          \E word \in NextWords(Unread(s, place)) :
            Show(r, i, place, Pointer(s.value, place), word)
    BY <1>7 DEF ReadWord
  <2>2. PICK word \in NextWords(Unread(s, place)) :
          Show(r, i, place, Pointer(s.value, place), word)
    BY <2>1
  <2> DEFINE e == Pointer(s.value, place)
             read == [at |-> place, of |-> e, word |-> word, version |-> employees[e][word]]
             t == [s EXCEPT !.shown = @ \cup {read}]
  <2>3. e \in Employees /\ word \in Words /\ s.st = "marshalling" /\ IsSlot(s)
    BY <1>7, <2>1, <2>2 DEF PointersOK, ReadWord, NextWords, Unread, ServersTypeOK
  <2>4. Update(r, i, Settled(t))
    BY <2>2 DEF Show
  <2> HIDE DEF read, e, s
  <2>5. /\ IsSlot(t) /\ t.value = s.value /\ t.wrote = s.wrote
        /\ t.shown = s.shown \cup {read}
    <3> DEFINE words == s.shown \cup {read}
    <3>1. t = [s EXCEPT !.shown = words]
      OBVIOUS
    <3> HIDE DEF t, words
    <3>2. /\ IsSlot(t) /\ t.value = s.value /\ t.wrote = s.wrote /\ t.shown = words
      BY <2>3, <3>1 DEF IsSlot
    <3> QED
      BY <3>2 DEF words
  <2> HIDE DEF t
  <2> DEFINE new == Settled(t)
  <2>6. /\ IsSlot(new) /\ new.st \in {"marshalling", "done"} /\ new.value = s.value
        /\ new.wrote = s.wrote /\ new.shown = s.shown \cup {read}
    <3> HIDE DEF read
    <3> QED
      BY <2>5, SettledMeans
  <2> HIDE DEF new
  <2>7. OtherFields(r, i) /\ slot'[r][i] = new
    BY <2>4, <2>6, UpdateStep DEF new
  <2>8. WordShown(r, i, place, e, word)
    BY <1>7, <2>3, <2>6, <2>7 DEF WordShown, read, s
  <2> QED
    BY <2>6, <2>7, <2>8 DEF s
<1> QED
  BY <1>1, <1>2, <1>3, <1>4, <1>5, <1>6, <1>7 DEF EmployeeStep, WordsMoved

LEMMA DemoSteps ==
  ASSUME ServersTypeOK, UNCHANGED employees,
         NEW r \in Requests, NEW i \in Fields(r), DemoStep(r, i)
  PROVE  /\ Resolved(r, i)
         /\ NothingMade(r, i) \/ PostMade(r, i) \/ UserFound(r, i)
<1>1. server = "demo"
  BY DEF DemoStep
<1>2. ASSUME MayStart(r, i), NEW v, Update(r, i, Returned(slot[r][i], v)),
             v = Failed \/ \E x : v = Leaf(x), UNCHANGED demoVars
      PROVE  Resolved(r, i) /\ NothingMade(r, i)
  <2>1. v.kind \notin {"live", "list", "object"}
    BY <1>2 DEF Failed, Leaf
  <2> QED
    BY <1>2, <2>1, CopyReturned DEF PlainValue, NothingMade, demoVars
<1>3. CASE AuthorizeFails(r, i)
  BY <1>2, <1>3 DEF AuthorizeFails, Starts
<1>4. CASE PublicInfo(r, i)
  BY <1>2, <1>4 DEF PublicInfo, Authorized, Starts
<1>5. CASE CreatePost(r, i)
  <2> DEFINE v == Object("Post", postSeq + 1, [title |-> Leaf(Call(r, i).title),
                                               authorID |-> Leaf(token(r).subject)])
  <2>1. /\ Starts(r, i, "createPost") /\ AllowCreatePost(token(r))
        /\ postSeq' = postSeq + 1 /\ UNCHANGED users
        /\ Update(r, i, Returned(slot[r][i], v))
    BY <1>5 DEF CreatePost, Authorized, Allow
  <2>2. v.kind = "object"
    BY DEF Object
  <2> HIDE DEF v
  <2>3. Resolved(r, i) /\ slot'[r][i].value = v
    BY <2>1, <2>2, CopyReturned DEF Starts
  <2> QED
    BY <1>1, <2>1, <2>3 DEF PostMade, v
<1>6. CASE Me(r, i)
  <2> DEFINE subject == token(r).subject
             roles == token(r).roles
             v == Object("User", subject,
                         [id |-> Leaf(subject),
                          roles |-> AsList(UnionRoles(users'[subject], roles))])
  <2>1. /\ Starts(r, i, "me") /\ Authenticated(token(r))
        /\ users' = LookupUser(subject, roles) /\ UNCHANGED postSeq
        /\ Update(r, i, Returned(slot[r][i], v))
    BY <1>6 DEF Me, Authorized, Allow
  <2>2. v.kind = "object"
    BY DEF Object
  <2> HIDE DEF v
  <2>3. Resolved(r, i) /\ slot'[r][i].value = v
    BY <2>1, <2>2, CopyReturned DEF Starts
  <2> QED
    BY <1>1, <2>1, <2>3 DEF UserFound, v
<1> QED
  BY <1>3, <1>4, <1>5, <1>6 DEF DemoStep

\* Every step of the specification.
LEMMA ServersSteps ==
  ASSUME ServersTypeOK, StagesOK, PointersOK, WritersOK, [Next]_vars
  PROVE  \/ UNCHANGED vars
         \/ \E r \in Requests : PhaseMoved(r) /\ UNCHANGED <<users, postSeq>>
         \/ \E r \in Requests : \E i \in Fields(r) :
              /\ WordsMoved(r, i)
              /\ NothingMade(r, i) \/ PostMade(r, i) \/ UserFound(r, i)
<1>1. ASSUME NEW r \in Requests, Arrive(r)
      PROVE  PhaseMoved(r) /\ UNCHANGED <<users, postSeq>>
  <2>1. CASE Begin(r)
    BY <1>1, <2>1 DEF Arrive, Begin, PhaseMoved, ServersTypeOK, Answered
  <2>2. CASE Refuse(r)
    BY <1>1, <2>2 DEF Arrive, Refuse, PhaseMoved, ServersTypeOK
  <2> QED
    BY <1>1, <2>1, <2>2 DEF Arrive
<1>2. ASSUME NEW r \in Requests, Answer(r), UNCHANGED <<employees, users, postSeq>>
      PROVE  PhaseMoved(r)
  BY <1>2 DEF Answer, PhaseMoved, ServersTypeOK
<1>3. ASSUME NEW r \in Requests, NEW i \in Fields(r),
             \/ ResolveStatic(r, i) /\ UNCHANGED <<employees, users, postSeq>>
             \/ ResolveEntities(r, i) /\ UNCHANGED <<employees, users, postSeq>>
             \/ TodoStep(r, i) /\ UNCHANGED <<employees, users, postSeq>>
             \/ EmployeeStep(r, i) /\ UNCHANGED <<users, postSeq>>
      PROVE  WordsMoved(r, i) /\ NothingMade(r, i)
  BY <1>3, StaticStep, EntitiesStep, TodoSteps, EmployeeSteps
     DEF NothingMade, WordsMoved
<1>4. ASSUME NEW r \in Requests, NEW i \in Fields(r),
             DemoStep(r, i), UNCHANGED employees
      PROVE  /\ WordsMoved(r, i)
             /\ NothingMade(r, i) \/ PostMade(r, i) \/ UserFound(r, i)
  BY <1>4, DemoSteps DEF WordsMoved
<1> QED
  BY <1>1, <1>2, <1>3, <1>4 DEF Next, RequestStep, Finished

-----------------------------------------------------------------------------
(* Pointers and words: what a step keeps *)

LEMMA SameRequests ==
  ASSUME UNCHANGED workload
  PROVE  /\ Requests' = Requests /\ server' = server
         /\ \A r : /\ Fields(r)' = Fields(r) /\ IsMutation(r)' = IsMutation(r)
                   /\ token(r)' = token(r)
         /\ \A r, i : Call(r, i)' = Call(r, i)
BY DEF Requests, server, Fields, IsMutation, token, request, Call

LEMMA FieldsAreNumbers ==
  ASSUME ServersTypeOK, NEW r \in Requests, NEW i \in Fields(r)
  PROVE  i \in Int
<1>1. workload \in Workloads /\ r \in DOMAIN workload.requests
  BY DEF ServersTypeOK, Requests
<1>2. DOMAIN workload.requests[r].calls = 1..Len(workload.requests[r].calls)
  BY <1>1, WorkloadAssumption
<1> QED
  BY <1>2 DEF Fields, request

\* The field that acts is the first of its mutation that is not done.
LEMMA Acting ==
  ASSUME ServersTypeOK, StagesOK, NEW r \in Requests, NEW i \in Fields(r),
         WordsMoved(r, i)
  PROVE  /\ OtherFields(r, i)
         /\ phase[r] = "running" /\ ~Done(r, i) /\ slot'[r][i].st # "waiting"
         /\ IsMutation(r) => \A j \in Fields(r) :
              /\ j < i => Done(r, j)
              /\ i < j => slot[r][j] = EmptySlot
<1>1. /\ OtherFields(r, i) /\ slot'[r][i].st # "waiting"
      /\ \/ MayStart(r, i)
         \/ slot[r][i].st \in {"resolving", "writing", "marshalling"}
  BY DEF WordsMoved, Resolved, UpdateBegun, WordWritten, WordShown
<1>2. phase[r] = "running"
  BY <1>1 DEF StagesOK, MayStart, ServersTypeOK, Done
<1>3. ~Done(r, i)
  BY <1>1 DEF MayStart, Done
<1>4. ASSUME IsMutation(r), NEW j \in Fields(r), j < i
      PROVE  Done(r, j)
  <2>1. CASE MayStart(r, i)
    BY <1>4, <2>1 DEF MayStart, Before
  <2>2. CASE slot[r][i].st \in {"resolving", "writing", "marshalling"}
    BY <1>4, <2>2 DEF StagesOK
  <2> QED
    BY <1>1, <2>1, <2>2
<1>5. ASSUME IsMutation(r), NEW j \in Fields(r), i < j
      PROVE  slot[r][j] = EmptySlot
  BY <1>3, <1>5 DEF StagesOK
<1> QED
  BY <1>1, <1>2, <1>3, <1>4, <1>5

LEMMA FieldTypeOK ==
  ASSUME ServersTypeOK, NEW r \in Requests, NEW i \in Fields(r),
         WordsMoved(r, i), postSeq' \in Nat
  PROVE  ServersTypeOK'
<1>1. OtherFields(r, i)
  BY DEF WordsMoved, Resolved, UpdateBegun, WordWritten, WordShown
<1>2. /\ Requests' = Requests /\ \A q : Fields(q)' = Fields(q)
      /\ UNCHANGED <<workload, phase, after>>
  BY <1>1, SameRequests DEF OtherFields
<1>3. \A q \in Requests : \A j \in Fields(q) : IsSlot(slot'[q][j])
  BY <1>1 DEF OtherFields, ServersTypeOK
<1>4. slot' = [q \in Requests |-> [j \in Fields(q) |-> slot'[q][j]]]
  BY <1>1 DEF OtherFields
<1>5. employees' \in [Employees -> [Words -> Nat]]
  <2>1. employees \in [Employees -> [Words -> Nat]]
    BY DEF ServersTypeOK
  <2>2. CASE \E word \in Words : WordWritten(r, i, word)
    <3>1. PICK word \in Words :
            employees' = [employees EXCEPT ![Call(r, i).id][word] = @ + 1]
      BY <2>2 DEF WordWritten
    <3> DEFINE e == Call(r, i).id
    <3>2. employees' = [employees EXCEPT ![e][word] = @ + 1]
      BY <3>1
    <3> HIDE DEF e
    <3>3. CASE e \in Employees
      <4> DEFINE words == [employees[e] EXCEPT ![word] = @ + 1]
      <4>1. employees[e] \in [Words -> Nat]
        BY <2>1, <3>3
      <4>2. words \in [Words -> Nat]
        BY <4>1
      <4>3. employees' = [employees EXCEPT ![e] = words]
        BY <3>2
      <4> HIDE DEF words
      <4> QED
        BY <2>1, <4>2, <4>3
    <3>4. CASE e \notin Employees
      <4>1. employees' = employees
        BY <2>1, <3>2, <3>4
      <4> QED
        BY <2>1, <4>1
    <3> QED
      BY <3>3, <3>4
  <2>3. CASE UNCHANGED employees
    BY <2>1, <2>3
  <2> QED
    BY <2>2, <2>3 DEF WordsMoved, Resolved, UpdateBegun, WordShown
<1>6. (slot = [q \in Requests |-> [j \in Fields(q) |-> slot[q][j]]])'
  BY <1>2, <1>4
<1>7. (\A q \in Requests : \A j \in Fields(q) : IsSlot(slot[q][j]))'
  BY <1>2, <1>3 DEF IsSlot
<1> QED
  BY <1>2, <1>5, <1>6, <1>7 DEF ServersTypeOK

LEMMA FieldStagesOK ==
  ASSUME ServersTypeOK, StagesOK, NEW r \in Requests, NEW i \in Fields(r),
         WordsMoved(r, i)
  PROVE  StagesOK'
<1>1. /\ OtherFields(r, i)
      /\ phase[r] = "running" /\ ~Done(r, i) /\ slot'[r][i].st # "waiting"
      /\ IsMutation(r) => \A j \in Fields(r) :
           /\ j < i => Done(r, j)
           /\ i < j => slot[r][j] = EmptySlot
  BY Acting
<1>2. /\ Requests' = Requests /\ \A q : Fields(q)' = Fields(q)
      /\ UNCHANGED <<workload, phase, after>>
      /\ \A q : IsMutation(q)' = IsMutation(q)
  BY <1>1, SameRequests DEF OtherFields
<1>3. \A q \in Requests : \A j \in Fields(q) :
        (q # r \/ j # i) => slot'[q][j] = slot[q][j]
  BY <1>1 DEF OtherFields
<1>4. /\ slot'[r][i].st = "writing" =>
           slot'[r][i].value = Nil /\ slot'[r][i].shown = {}
      /\ slot'[r][i].st = "resolving" =>
           slot'[r][i].value = List(slot'[r][i].value.items)
  <2>1. CASE Resolved(r, i)
    BY <2>1 DEF Resolved
  <2>2. CASE UpdateBegun(r, i)
    <3>1. slot[r][i] = EmptySlot
      BY <2>2 DEF UpdateBegun, MayStart, StagesOK
    <3> QED
      BY <2>2, <3>1 DEF UpdateBegun, EmptySlot
  <2>3. CASE \E word \in Words : WordWritten(r, i, word)
    BY <2>3 DEF WordWritten, StagesOK
  <2>4. CASE \E place, e, word : WordShown(r, i, place, e, word)
    BY <2>4 DEF WordShown
  <2> QED
    BY <2>1, <2>2, <2>3, <2>4 DEF WordsMoved
<1>5. \A q \in Requests : \A j \in Fields(q) :
        /\ phase[q] \in {"new", "refused"} => slot'[q][j].st = "waiting"
        /\ phase[q] = "answered" => slot'[q][j].st = "done"
        /\ slot'[q][j].st = "waiting" => slot'[q][j] = EmptySlot
        /\ slot'[q][j].st = "writing" =>
             slot'[q][j].value = Nil /\ slot'[q][j].shown = {}
        /\ slot'[q][j].st = "resolving" =>
             slot'[q][j].value = List(slot'[q][j].value.items)
  <2> SUFFICES ASSUME NEW q \in Requests, NEW j \in Fields(q)
               PROVE  /\ phase[q] \in {"new", "refused"} => slot'[q][j].st = "waiting"
                      /\ phase[q] = "answered" => slot'[q][j].st = "done"
                      /\ slot'[q][j].st = "waiting" => slot'[q][j] = EmptySlot
                      /\ slot'[q][j].st = "writing" =>
                           slot'[q][j].value = Nil /\ slot'[q][j].shown = {}
                      /\ slot'[q][j].st = "resolving" =>
                           slot'[q][j].value = List(slot'[q][j].value.items)
    OBVIOUS
  <2>1. CASE q = r /\ j = i
    BY <1>1, <1>4, <2>1
  <2>2. CASE q # r \/ j # i
    <3>1. slot'[q][j] = slot[q][j]
      BY <1>3, <2>2
    <3> QED
      BY <3>1 DEF StagesOK, Done
  <2> QED
    BY <2>1, <2>2
<1>6. ASSUME NEW q \in Requests, IsMutation(q), NEW j \in Fields(q), NEW k \in Fields(q),
             j < k, slot'[q][j].st # "done"
      PROVE  slot'[q][k].st = "waiting"
  <2>1. j \in Int /\ k \in Int
    BY FieldsAreNumbers
  <2>2. CASE q # r
    BY <1>3, <1>6, <2>2 DEF StagesOK, Done
  <2>3. CASE q = r /\ j = i
    BY <1>1, <1>3, <1>6, <2>1, <2>3 DEF EmptySlot
  <2>4. CASE q = r /\ j # i
    <3>1. ~Done(r, j) /\ slot'[r][j] = slot[r][j]
      BY <1>3, <1>6, <2>4 DEF Done
    <3>2. slot[r][k].st = "waiting"
      BY <1>6, <2>4, <3>1 DEF StagesOK
    <3>3. k # i
      BY <1>1, <1>6, <2>4, <3>1
    <3> QED
      BY <1>3, <2>4, <3>2, <3>3
  <2> QED
    BY <2>2, <2>3, <2>4
<1> QED
  <2>1. \A q \in Requests :
          /\ phase[q] = "new" => after[q] = {}
          /\ \A p \in after[q] : phase[p] = "answered"
    BY DEF StagesOK
  <2>2. \A q \in Requests : IsMutation(q) => \A j, k \in Fields(q) :
          (j < k /\ slot'[q][j].st # "done") => slot'[q][k].st = "waiting"
    BY <1>6
  <2> QED
    BY <1>2, <1>5, <2>1, <2>2 DEF StagesOK, Done

LEMMA FieldPointersOK ==
  ASSUME PointersOK, NEW r \in Requests, NEW i \in Fields(r), WordsMoved(r, i)
  PROVE  PointersOK'
<1>1. OtherFields(r, i) /\ (slot'[r][i].value = slot[r][i].value \/ Sound(slot'[r][i].value))
  BY DEF WordsMoved, Resolved, UpdateBegun, WordWritten, WordShown
<1>2. Requests' = Requests /\ \A q : Fields(q)' = Fields(q)
  BY <1>1, SameRequests DEF OtherFields
<1>3. \A q \in Requests : \A j \in Fields(q) : Sound(slot[q][j].value)
  BY DEF PointersOK, Sound
<1>4. \A q \in Requests : \A j \in Fields(q) : Sound(slot'[q][j].value)
  BY <1>1, <1>3 DEF OtherFields
<1>5. \A q \in Requests : \A j \in Fields(q) : \A place \in LivePlaces(slot'[q][j].value) :
        Pointer(slot'[q][j].value, place) \in Employees
  BY <1>4 DEF Sound
<1> QED
  BY <1>2, <1>5 DEF PointersOK, LivePlaces, Pointer

\* Which words were shown and written, after each kind of step.
LEMMA QuietFields ==
  ASSUME NEW r \in Requests, NEW i \in Fields(r),
         Resolved(r, i) \/ UpdateBegun(r, i)
  PROVE  /\ OtherFields(r, i) /\ employees' = employees
         /\ \A q \in Requests : \A j \in Fields(q) :
              /\ slot'[q][j].shown = slot[q][j].shown
              /\ slot'[q][j].wrote = slot[q][j].wrote
<1>1. /\ OtherFields(r, i) /\ employees' = employees
      /\ slot'[r][i].shown = slot[r][i].shown
      /\ slot'[r][i].wrote = slot[r][i].wrote
  BY DEF Resolved, UpdateBegun
<1> QED
  BY <1>1 DEF OtherFields

LEMMA WrittenFields ==
  ASSUME ServersTypeOK, WritersOK, NEW r \in Requests, NEW i \in Fields(r),
         NEW word \in Words, WordWritten(r, i, word)
  PROVE  /\ OtherFields(r, i) /\ Call(r, i).id \in Employees
         /\ \A e \in Employees : \A w \in Words :
              employees'[e][w] = IF e = Call(r, i).id /\ w = word
                                 THEN employees[e][w] + 1 ELSE employees[e][w]
         /\ \A q \in Requests : \A j \in Fields(q) :
              slot'[q][j].shown = slot[q][j].shown
         /\ \A q \in Requests : \A j \in Fields(q) : (q # r \/ j # i) =>
              slot'[q][j].wrote = slot[q][j].wrote
         /\ slot'[r][i].wrote = slot[r][i].wrote \cup
              {[of |-> Call(r, i).id, word |-> word,
                version |-> employees[Call(r, i).id][word] + 1]}
<1> DEFINE e == Call(r, i).id
<1>1. /\ OtherFields(r, i) /\ slot[r][i].st = "writing"
      /\ slot'[r][i].shown = slot[r][i].shown
      /\ employees' = [employees EXCEPT ![e][word] = @ + 1]
      /\ slot'[r][i].wrote = slot[r][i].wrote \cup
           {[of |-> e, word |-> word, version |-> employees[e][word] + 1]}
  BY DEF WordWritten
<1>2. e \in Employees /\ employees \in [Employees -> [Words -> Nat]]
  BY <1>1 DEF WritersOK, ServersTypeOK
<1> HIDE DEF e
<1>3. \A f \in Employees : \A w \in Words :
        employees'[f][w] = IF f = e /\ w = word
                           THEN employees[f][w] + 1 ELSE employees[f][w]
  BY <1>1, <1>2
<1>4. /\ \A q \in Requests : \A j \in Fields(q) :
           slot'[q][j].shown = slot[q][j].shown
      /\ \A q \in Requests : \A j \in Fields(q) : (q # r \/ j # i) =>
           slot'[q][j].wrote = slot[q][j].wrote
  BY <1>1 DEF OtherFields
<1> QED
  BY <1>1, <1>2, <1>3, <1>4 DEF e

LEMMA ShownFields ==
  ASSUME NEW r \in Requests, NEW i \in Fields(r), NEW place, NEW e, NEW word,
         WordShown(r, i, place, e, word)
  PROVE  /\ OtherFields(r, i) /\ employees' = employees
         /\ e \in Employees /\ word \in Words
         /\ \A q \in Requests : \A j \in Fields(q) :
              slot'[q][j].wrote = slot[q][j].wrote
         /\ \A q \in Requests : \A j \in Fields(q) : (q # r \/ j # i) =>
              slot'[q][j].shown = slot[q][j].shown
         /\ slot'[r][i].shown = slot[r][i].shown \cup
              {[at |-> place, of |-> e, word |-> word, version |-> employees[e][word]]}
<1>1. /\ OtherFields(r, i) /\ employees' = employees
      /\ e \in Employees /\ word \in Words
      /\ slot'[r][i].wrote = slot[r][i].wrote
      /\ slot'[r][i].shown = slot[r][i].shown \cup
           {[at |-> place, of |-> e, word |-> word, version |-> employees[e][word]]}
  BY DEF WordShown
<1> QED
  BY <1>1 DEF OtherFields

LEMMA FieldWordsOK ==
  ASSUME ServersTypeOK, WordsOK, WritersOK,
         NEW r \in Requests, NEW i \in Fields(r), WordsMoved(r, i)
  PROVE  WordsOK'
<1>1. OtherFields(r, i) /\ employees \in [Employees -> [Words -> Nat]]
  BY DEF WordsMoved, Resolved, UpdateBegun, WordWritten, WordShown, ServersTypeOK
<1>2. Requests' = Requests /\ \A q : Fields(q)' = Fields(q)
  BY <1>1, SameRequests DEF OtherFields
<1>3. ASSUME NEW q \in Requests, NEW j \in Fields(q),
             NEW x \in slot'[q][j].shown \cup slot'[q][j].wrote
      PROVE  /\ x.of \in Employees /\ x.word \in Words /\ x.version \in Nat
             /\ x.version <= employees'[x.of][x.word]
  <2>1. CASE Resolved(r, i) \/ UpdateBegun(r, i)
    <3>1. /\ employees' = employees
          /\ x \in slot[q][j].shown \cup slot[q][j].wrote
      BY <1>3, <2>1, QuietFields
    <3> QED
      BY <3>1 DEF WordsOK
  <2>2. CASE \E word \in Words : WordWritten(r, i, word)
    <3>1. PICK word \in Words : WordWritten(r, i, word)
      BY <2>2
    <3> DEFINE e == Call(r, i).id
               new == [of |-> e, word |-> word, version |-> employees[e][word] + 1]
    <3>2. /\ e \in Employees
          /\ \A f \in Employees : \A w \in Words :
               employees'[f][w] = IF f = e /\ w = word
                                  THEN employees[f][w] + 1 ELSE employees[f][w]
          /\ x \in slot[q][j].shown \cup slot[q][j].wrote \/ x = new
      BY <1>3, <3>1, WrittenFields
    <3> HIDE DEF e
    <3>3. CASE x = new
      BY <1>1, <3>2, <3>3
    <3>4. CASE x \in slot[q][j].shown \cup slot[q][j].wrote
      <4>1. /\ x.of \in Employees /\ x.word \in Words /\ x.version \in Nat
            /\ x.version <= employees[x.of][x.word]
        BY <3>4 DEF WordsOK
      <4> QED
        BY <1>1, <3>2, <4>1
    <3> QED
      BY <3>2, <3>3, <3>4
  <2>3. CASE \E place, e, word : WordShown(r, i, place, e, word)
    <3>1. PICK place, e, word : WordShown(r, i, place, e, word)
      BY <2>3
    <3> DEFINE new == [at |-> place, of |-> e, word |-> word,
                       version |-> employees[e][word]]
    <3>2. /\ employees' = employees /\ e \in Employees /\ word \in Words
          /\ x \in slot[q][j].shown \cup slot[q][j].wrote \/ x = new
      BY <1>3, <3>1, ShownFields
    <3>3. CASE x = new
      BY <1>1, <3>2, <3>3
    <3>4. CASE x \in slot[q][j].shown \cup slot[q][j].wrote
      BY <3>2, <3>4 DEF WordsOK
    <3> QED
      BY <3>2, <3>3, <3>4
  <2> QED
    BY <2>1, <2>2, <2>3 DEF WordsMoved
<1> QED
  BY <1>2, <1>3 DEF WordsOK

LEMMA FieldWritersOK ==
  ASSUME ServersTypeOK, StagesOK, WordsOK, WritersOK,
         NEW r \in Requests, NEW i \in Fields(r), WordsMoved(r, i)
  PROVE  WritersOK'
<1>1. OtherFields(r, i) /\ employees \in [Employees -> [Words -> Nat]]
  BY DEF WordsMoved, Resolved, UpdateBegun, WordWritten, WordShown, ServersTypeOK
<1>2. /\ Requests' = Requests /\ \A q : Fields(q)' = Fields(q)
      /\ \A q, j : Call(q, j)' = Call(q, j)
  BY <1>1, SameRequests DEF OtherFields
<1>3. \A q \in Requests : \A j \in Fields(q) :
        (q # r \/ j # i) => slot'[q][j] = slot[q][j]
  BY <1>1 DEF OtherFields
<1> DEFINE AloneAndCurrent(q, j) ==
             /\ Call(q, j).id \in Employees
             /\ \A x \in slot'[q][j].wrote :
                  /\ x = [of |-> x.of, word |-> x.word, version |-> x.version]
                  /\ x.of = Call(q, j).id
                  /\ x.version = employees'[x.of][x.word]
             /\ \A p \in Requests : \A k \in Fields(p) :
                  slot'[p][k].st = "writing" => p = q /\ k = j
<1>4. ASSUME NEW q \in Requests, NEW j \in Fields(q), slot'[q][j].st = "writing"
      PROVE  AloneAndCurrent(q, j)
  <2>1. CASE Resolved(r, i) \/ \E place, e, word : WordShown(r, i, place, e, word)
    <3>1. slot'[r][i].st # "writing" /\ employees' = employees
      BY <2>1 DEF Resolved, WordShown
    <3>2. slot[q][j].st = "writing" /\ slot'[q][j] = slot[q][j]
      BY <1>3, <1>4, <3>1
    <3> QED
      BY <1>3, <3>1, <3>2 DEF WritersOK
  <2>2. CASE UpdateBegun(r, i)
    <3>1. /\ ~Locked /\ Call(r, i).id \in Employees
          /\ slot[r][i] = EmptySlot /\ slot'[r][i].wrote = slot[r][i].wrote
      BY <2>2 DEF UpdateBegun, MayStart, StagesOK
    <3>2. \A p \in Requests : \A k \in Fields(p) :
            slot'[p][k].st = "writing" => p = r /\ k = i
      BY <1>3, <3>1 DEF Locked
    <3>3. slot'[r][i].wrote = {}
      BY <3>1 DEF EmptySlot
    <3> QED
      BY <1>4, <3>1, <3>2, <3>3
  <2>3. CASE \E word \in Words : WordWritten(r, i, word)
    <3>1. PICK word \in Words : WordWritten(r, i, word)
      BY <2>3
    <3>2. slot[r][i].st = "writing" /\ word \in Unwritten(r, i)
      BY <3>1 DEF WordWritten
    <3> DEFINE e == Call(r, i).id
               new == [of |-> e, word |-> word, version |-> employees[e][word] + 1]
    <3>3. /\ e \in Employees
          /\ \A f \in Employees : \A w \in Words :
               employees'[f][w] = IF f = e /\ w = word
                                  THEN employees[f][w] + 1 ELSE employees[f][w]
          /\ slot'[r][i].wrote = slot[r][i].wrote \cup {new}
      BY <3>1, WrittenFields
    <3>4. \A p \in Requests : \A k \in Fields(p) :
            slot'[p][k].st = "writing" => p = r /\ k = i
      BY <1>3, <3>2 DEF WritersOK
    <3>5. \A x \in slot[r][i].wrote :
            /\ x = [of |-> x.of, word |-> x.word, version |-> x.version]
            /\ x.of = e /\ x.version = employees[x.of][x.word]
            /\ x.word # word
      BY <3>2 DEF WritersOK, Unwritten
    <3> HIDE DEF e
    <3>6. \A x \in slot'[r][i].wrote :
            /\ x = [of |-> x.of, word |-> x.word, version |-> x.version]
            /\ x.of = e /\ x.version = employees'[x.of][x.word]
      <4> SUFFICES ASSUME NEW x \in slot'[r][i].wrote
                   PROVE  /\ x = [of |-> x.of, word |-> x.word, version |-> x.version]
                          /\ x.of = e /\ x.version = employees'[x.of][x.word]
        OBVIOUS
      <4>1. CASE x = new
        BY <3>3, <4>1
      <4>2. CASE x \in slot[r][i].wrote
        <5>1. /\ x = [of |-> x.of, word |-> x.word, version |-> x.version]
              /\ x.of = e /\ x.version = employees[e][x.word] /\ x.word # word
          BY <3>5, <4>2
        <5>2. x.word \in Words => employees'[e][x.word] = employees[e][x.word]
          BY <3>3, <5>1
        <5>3. x.word \in Words
          BY <4>2 DEF WordsOK
        <5> QED
          BY <5>1, <5>2, <5>3
      <4> QED
        BY <3>3, <4>1, <4>2
    <3> QED
      BY <1>4, <3>3, <3>4, <3>6 DEF e
  <2> QED
    BY <2>1, <2>2, <2>3 DEF WordsMoved
<1> QED
  BY <1>2, <1>4 DEF WritersOK

LEMMA FieldWholeOK ==
  ASSUME ServersTypeOK, StagesOK, WordsOK, WritersOK, WholeOK,
         NEW r \in Requests, NEW i \in Fields(r), WordsMoved(r, i)
  PROVE  WholeOK'
<1> DEFINE Wrote(f, w, q, j) ==
             [of |-> f, word |-> w, version |-> employees'[f][w]] \in slot'[q][j].wrote
           NowUnwritten(q, j) == Given(Call(q, j)) \ {x.word : x \in slot'[q][j].wrote}
           Names == {"nameData", "nameLen"}
           NowWhole(f) ==
             \/ employees'[f]["nameData"] = 0 /\ employees'[f]["nameLen"] = 0
             \/ \E q \in Requests : \E j \in Fields(q) :
                  Wrote(f, "nameData", q, j) /\ Wrote(f, "nameLen", q, j)
           NowRenaming(f) ==
             \E q \in Requests : \E j \in Fields(q) :
               /\ slot'[q][j].st = "writing" /\ Call(q, j).id = f
               /\ NowUnwritten(q, j) \cap Names # {}
<1>1. OtherFields(r, i)
  BY DEF WordsMoved, Resolved, UpdateBegun, WordWritten, WordShown
<1>2. /\ Requests' = Requests /\ \A q : Fields(q)' = Fields(q)
      /\ \A q, j : Call(q, j)' = Call(q, j)
  BY <1>1, SameRequests DEF OtherFields
<1>3. \A q \in Requests : \A j \in Fields(q) :
        (q # r \/ j # i) => slot'[q][j] = slot[q][j]
  BY <1>1 DEF OtherFields
<1>4. ASSUME employees' = employees, slot[r][i].st = "writing" => Unwritten(r, i) = {},
             \A q \in Requests : \A j \in Fields(q) : slot'[q][j].wrote = slot[q][j].wrote,
             NEW f \in Employees
      PROVE  NowWhole(f) \/ NowRenaming(f)
  <2>1. CASE Whole(f)
    BY <1>4, <2>1 DEF Whole
  <2>2. CASE Renaming(f)
    <3>1. PICK q \in Requests : \E j \in Fields(q) :
            /\ slot[q][j].st = "writing" /\ Call(q, j).id = f
            /\ Unwritten(q, j) \cap Names # {}
      BY <2>2 DEF Renaming
    <3>2. PICK j \in Fields(q) :
            /\ slot[q][j].st = "writing" /\ Call(q, j).id = f
            /\ Unwritten(q, j) \cap Names # {}
      BY <3>1
    <3>3. slot'[q][j] = slot[q][j]
      BY <1>3, <1>4, <3>2
    <3> QED
      BY <3>2, <3>3 DEF Unwritten
  <2> QED
    BY <2>1, <2>2 DEF WholeOK
<1>5. ASSUME NEW word \in Words, WordWritten(r, i, word), NEW f \in Employees
      PROVE  NowWhole(f) \/ NowRenaming(f)
  <2> DEFINE e == Call(r, i).id
             new == [of |-> e, word |-> word, version |-> employees[e][word] + 1]
  <2>1. /\ e \in Employees
        /\ \A g \in Employees : \A w \in Words :
             employees'[g][w] = IF g = e /\ w = word
                                THEN employees[g][w] + 1 ELSE employees[g][w]
        /\ \A q \in Requests : \A j \in Fields(q) : (q # r \/ j # i) =>
             slot'[q][j].wrote = slot[q][j].wrote
        /\ slot'[r][i].wrote = slot[r][i].wrote \cup {new}
    BY <1>5, WrittenFields
  <2>2. /\ slot[r][i].st = "writing" /\ slot'[r][i].st = "writing"
        /\ word \in Unwritten(r, i) /\ word \in Given(Call(r, i))
    BY <1>5 DEF WordWritten, Unwritten
  <2>3. \A q \in Requests : \A j \in Fields(q) :
          slot[q][j].wrote \subseteq slot'[q][j].wrote
    BY <2>1
  <2>4. CASE Whole(f) /\ (f # e \/ word \notin Names)
    <3>1. /\ employees'[f]["nameData"] = employees[f]["nameData"]
          /\ employees'[f]["nameLen"] = employees[f]["nameLen"]
      BY <2>1, <2>4 DEF Words
    <3> QED
      BY <2>3, <2>4, <3>1 DEF Whole
  <2>5. CASE Renaming(f) /\ (f # e \/ word \notin Names)
    <3>1. PICK q \in Requests : \E j \in Fields(q) :
            /\ slot[q][j].st = "writing" /\ Call(q, j).id = f
            /\ Unwritten(q, j) \cap Names # {}
      BY <2>5 DEF Renaming
    <3>2. PICK j \in Fields(q) :
            /\ slot[q][j].st = "writing" /\ Call(q, j).id = f
            /\ Unwritten(q, j) \cap Names # {}
      BY <3>1
    <3>3. q = r /\ j = i
      BY <2>2, <3>2 DEF WritersOK
    <3>4. NowUnwritten(r, i) \cap Names # {}
      <4>1. PICK w \in Names : w \in Given(Call(r, i)) /\ \A x \in slot[r][i].wrote : x.word # w
        BY <3>2, <3>3 DEF Unwritten
      <4>2. w # word
        BY <2>5, <3>2, <3>3
      <4>3. \A x \in slot'[r][i].wrote : x.word # w
        BY <2>1, <4>1, <4>2
      <4> QED
        BY <4>1, <4>3
    <3> QED
      BY <2>2, <3>2, <3>3, <3>4
  <2>6. CASE f = e /\ word \in Names
    <3>1. Names \subseteq Given(Call(r, i))
      BY <2>2, <2>6 DEF Given
    <3>2. CASE NowUnwritten(r, i) \cap Names # {}
      BY <2>2, <2>6, <3>2
    <3>3. CASE NowUnwritten(r, i) \cap Names = {}
      <4>1. \A w \in Names : \E x \in slot'[r][i].wrote : x.word = w
        BY <3>1, <3>3
      <4>2. \A x \in slot'[r][i].wrote :
              /\ x = [of |-> x.of, word |-> x.word, version |-> x.version]
              /\ x.of = e /\ x.version = employees'[x.of][x.word]
        <5>1. WritersOK'
          BY FieldWritersOK
        <5> QED
          BY <1>2, <2>2, <5>1 DEF WritersOK
      <4>3. \A w \in Names : Wrote(f, w, r, i)
        <5> SUFFICES ASSUME NEW w \in Names
                     PROVE  Wrote(f, w, r, i)
          OBVIOUS
        <5>1. PICK x \in slot'[r][i].wrote : x.word = w
          BY <4>1
        <5>2. x = [of |-> f, word |-> w, version |-> employees'[f][w]]
          BY <2>6, <4>2, <5>1
        <5> QED
          BY <5>1, <5>2
      <4> QED
        BY <4>3
    <3> QED
      BY <3>2, <3>3
  <2> QED
    BY <2>4, <2>5, <2>6 DEF WholeOK
<1>6. \A f \in Employees : NowWhole(f) \/ NowRenaming(f)
  <2>1. CASE Resolved(r, i) \/ UpdateBegun(r, i)
    <3>1. slot[r][i].st = "writing" => Unwritten(r, i) = {}
      BY <2>1 DEF Resolved, UpdateBegun, MayStart
    <3> QED
      BY <1>4, <2>1, <3>1, QuietFields
  <2>2. CASE \E word \in Words : WordWritten(r, i, word)
    BY <1>5, <2>2
  <2>3. CASE \E place, e, word : WordShown(r, i, place, e, word)
    <3>1. slot[r][i].st = "marshalling"
      BY <2>3 DEF WordShown
    <3> QED
      BY <1>4, <2>3, <3>1, ShownFields
  <2> QED
    BY <2>1, <2>2, <2>3 DEF WordsMoved
<1> QED
  BY <1>2, <1>6 DEF WholeOK, Whole, Renaming, Unwritten

LEMMA FieldWritesInOrder ==
  ASSUME ServersTypeOK, StagesOK, WordsOK, WritersOK, WritesInOrder,
         NEW r \in Requests, NEW i \in Fields(r), WordsMoved(r, i)
  PROVE  WritesInOrder'
<1>1. /\ OtherFields(r, i) /\ employees \in [Employees -> [Words -> Nat]]
      /\ IsMutation(r) => \A j \in Fields(r) : i < j => slot[r][j] = EmptySlot
  BY Acting DEF ServersTypeOK
<1>2. /\ Requests' = Requests /\ \A q : Fields(q)' = Fields(q)
      /\ \A q : IsMutation(q)' = IsMutation(q)
  BY <1>1, SameRequests DEF OtherFields
<1> DEFINE InOrder(j, k, write, read) ==
             (write.of = read.of /\ write.word = read.word) =>
               IF j < k THEN read.version < write.version
                        ELSE write.version <= read.version
<1>3. ASSUME NEW q \in Requests, IsMutation(q), NEW j \in Fields(q), NEW k \in Fields(q),
             NEW write \in slot'[q][k].wrote, NEW read \in slot'[q][j].shown
      PROVE  InOrder(j, k, write, read)
  <2>1. j \in Int /\ k \in Int /\ i \in Int
    BY FieldsAreNumbers
  <2>2. ASSUME write \in slot[q][k].wrote, read \in slot[q][j].shown
        PROVE  InOrder(j, k, write, read)
    BY <1>3, <2>2 DEF WritesInOrder
  <2>3. CASE Resolved(r, i) \/ UpdateBegun(r, i)
    BY <1>3, <2>2, <2>3, QuietFields
  <2>4. ASSUME NEW word \in Words, WordWritten(r, i, word)
        PROVE  InOrder(j, k, write, read)
    <3> DEFINE e == Call(r, i).id
               new == [of |-> e, word |-> word, version |-> employees[e][word] + 1]
    <3>1. /\ e \in Employees
          /\ read \in slot[q][j].shown
          /\ \/ write \in slot[q][k].wrote
             \/ q = r /\ k = i /\ write = new
      BY <1>3, <2>4, WrittenFields
    <3>2. CASE q = r /\ k = i /\ write = new
      <4>1. j < i
        <5>1. slot[r][i].shown = {}
          BY <2>4 DEF WordWritten, StagesOK
        <5>2. i < j => slot[r][j].shown = {}
          BY <1>1, <1>3, <3>2 DEF EmptySlot
        <5> QED
          BY <2>1, <3>1, <3>2, <5>1, <5>2
      <4>2. /\ read.of \in Employees /\ read.word \in Words /\ read.version \in Nat
            /\ read.version <= employees[read.of][read.word]
        BY <3>1 DEF WordsOK
      <4>3. employees[e][word] \in Nat
        BY <1>1, <3>1
      <4>4. write.of = e /\ write.word = word /\ write.version = employees[e][word] + 1
        BY <3>2
      <4> HIDE DEF e
      <4> QED
        BY <3>2, <4>1, <4>2, <4>3, <4>4
    <3> QED
      BY <2>2, <3>1, <3>2
  <2>5. ASSUME NEW place, NEW e, NEW word, WordShown(r, i, place, e, word)
        PROVE  InOrder(j, k, write, read)
    <3> DEFINE new == [at |-> place, of |-> e, word |-> word,
                       version |-> employees[e][word]]
    <3>1. /\ e \in Employees /\ word \in Words
          /\ write \in slot[q][k].wrote
          /\ \/ read \in slot[q][j].shown
             \/ q = r /\ j = i /\ read = new
      BY <1>3, <2>5, ShownFields
    <3>2. CASE q = r /\ j = i /\ read = new
      <4>1. ~(i < k)
        BY <1>1, <1>3, <3>1, <3>2 DEF EmptySlot
      <4>2. /\ write.of \in Employees /\ write.word \in Words /\ write.version \in Nat
            /\ write.version <= employees[write.of][write.word]
        BY <3>1 DEF WordsOK
      <4>3. read.of = e /\ read.word = word /\ read.version = employees[e][word]
        BY <3>2
      <4> QED
        BY <3>2, <4>1, <4>2, <4>3
    <3> QED
      BY <2>2, <3>1, <3>2
  <2> QED
    BY <2>3, <2>4, <2>5 DEF WordsMoved
<1>4. \A q \in Requests : IsMutation(q) => \A j, k \in Fields(q) :
        \A write \in slot'[q][k].wrote, read \in slot'[q][j].shown :
          InOrder(j, k, write, read)
  BY <1>3
<1> QED
  BY <1>2, <1>4 DEF WritesInOrder

LEMMA FieldNeverGoesBack ==
  ASSUME ServersTypeOK, StagesOK, WordsOK, WritersOK, NeverGoesBack,
         NEW r \in Requests, NEW i \in Fields(r), WordsMoved(r, i)
  PROVE  NeverGoesBack'
<1>1. OtherFields(r, i) /\ phase[r] = "running"
  BY Acting
<1>2. /\ Requests' = Requests /\ \A q : Fields(q)' = Fields(q)
      /\ after' = after
  BY <1>1, SameRequests DEF OtherFields
<1> DEFINE NowShown(q) == UNION {slot'[q][j].shown : j \in Fields(q)}
<1>3. ASSUME NEW q \in Requests, NEW p \in after[q],
             NEW old \in NowShown(p), NEW new \in NowShown(q),
             old.of = new.of, old.word = new.word
      PROVE  old.version <= new.version
  <2>1. p \in Requests /\ p # r
    BY <1>1 DEF StagesOK, ServersTypeOK
  <2>2. PICK j \in Fields(p) : old \in slot'[p][j].shown
    BY <1>3
  <2>3. PICK k \in Fields(q) : new \in slot'[q][k].shown
    BY <1>3
  <2>4. old \in slot[p][j].shown
    BY <1>1, <2>1, <2>2 DEF OtherFields
  <2>5. CASE new \in slot[q][k].shown
    BY <1>3, <2>1, <2>4, <2>5 DEF NeverGoesBack, Shown
  <2>6. CASE new \notin slot[q][k].shown
    <3>1. \E place, e, word : WordShown(r, i, place, e, word)
      BY <2>3, <2>6, QuietFields, WrittenFields DEF WordsMoved
    <3>2. PICK place, e, word : WordShown(r, i, place, e, word)
      BY <3>1
    <3>3. new = [at |-> place, of |-> e, word |-> word, version |-> employees[e][word]]
      BY <2>3, <2>6, <3>2, ShownFields
    <3>4. old.version <= employees[old.of][old.word]
      BY <2>1, <2>4 DEF WordsOK
    <3> QED
      BY <1>3, <3>3, <3>4
  <2> QED
    BY <2>5, <2>6
<1>4. \A q \in Requests : \A p \in after[q] : \A old \in NowShown(p), new \in NowShown(q) :
        (old.of = new.of /\ old.word = new.word) => old.version <= new.version
  BY <1>3
<1>5. \A q \in Requests : \A p \in after[q] : p \in Requests
  BY DEF ServersTypeOK
<1> QED
  BY <1>2, <1>4, <1>5 DEF NeverGoesBack, Shown

\* Taking a request up, answering it and refusing it.
LEMMA PhaseKeepsPointers ==
  ASSUME PointersInv, NEW r \in Requests, PhaseMoved(r), postSeq' \in Nat
  PROVE  PointersInv'
<1> USE DEF PointersInv
<1>1. /\ UNCHANGED <<workload, slot, employees>>
      /\ phase' \in [Requests -> {"new", "running", "answered", "refused"}]
      /\ after' \in [Requests -> SUBSET Requests]
      /\ \A q \in Requests : q # r => phase'[q] = phase[q] /\ after'[q] = after[q]
  BY DEF PhaseMoved
<1>2. /\ Requests' = Requests /\ \A q : Fields(q)' = Fields(q)
      /\ \A q : IsMutation(q)' = IsMutation(q)
      /\ \A q, i : Call(q, i)' = Call(q, i)
  BY <1>1, SameRequests
<1>3. ServersTypeOK'
  BY <1>1, <1>2 DEF ServersTypeOK, IsSlot
<1>4. \/ phase[r] = "new" /\ phase'[r] = "running" /\ after'[r] = Answered
      \/ phase[r] = "new" /\ phase'[r] = "refused" /\ after'[r] = after[r]
      \/ /\ phase[r] = "running" /\ phase'[r] = "answered" /\ after'[r] = after[r]
         /\ \A i \in Fields(r) : slot[r][i].st = "done"
  BY DEF PhaseMoved, Done
<1>5. \A q \in Requests :
        /\ phase'[q] = "new" => after'[q] = {}
        /\ \A p \in after'[q] : phase'[p] = "answered"
  <2> SUFFICES ASSUME NEW q \in Requests
               PROVE  /\ phase'[q] = "new" => after'[q] = {}
                      /\ \A p \in after'[q] : phase'[p] = "answered"
    OBVIOUS
  <2>1. \A p \in Requests : phase[p] = "answered" => phase'[p] = "answered"
    BY <1>1, <1>4
  <2>2. \A p \in after[q] : phase[p] = "answered" /\ p \in Requests
    BY DEF StagesOK, ServersTypeOK
  <2>3. \A p \in Answered : phase[p] = "answered" /\ p \in Requests
    BY DEF Answered
  <2>4. phase[q] = "new" => after[q] = {}
    BY DEF StagesOK
  <2> QED
    BY <1>1, <1>4, <2>1, <2>2, <2>3, <2>4
<1>6. \A q \in Requests : \A i \in Fields(q) :
        /\ phase'[q] \in {"new", "refused"} => slot[q][i].st = "waiting"
        /\ phase'[q] = "answered" => slot[q][i].st = "done"
  BY <1>1, <1>4 DEF StagesOK, Done
<1>7. StagesOK'
  <2>1. \A q \in Requests : \A i \in Fields(q) :
          /\ slot[q][i].st = "waiting" => slot[q][i] = EmptySlot
          /\ slot[q][i].st = "writing" => slot[q][i].value = Nil /\ slot[q][i].shown = {}
          /\ slot[q][i].st = "resolving" =>
               slot[q][i].value = List(slot[q][i].value.items)
          /\ IsMutation(q) => \A j \in Fields(q) :
               (i < j /\ slot[q][i].st # "done") => slot[q][j].st = "waiting"
    BY DEF StagesOK, Done
  <2> QED
    BY <1>1, <1>2, <1>5, <1>6, <2>1 DEF StagesOK, Done
<1>8. PointersOK' /\ WordsOK' /\ WritesInOrder'
  BY <1>1, <1>2 DEF PointersOK, WordsOK, WritesInOrder, LivePlaces, Pointer
<1>9. WritersOK'
  BY <1>1, <1>2 DEF WritersOK
<1>10. WholeOK'
  BY <1>1, <1>2 DEF WholeOK, Whole, Renaming, Unwritten
<1>11. NeverGoesBack'
  <2>1. \A q \in Requests : Shown(q)' = Shown(q)
    BY <1>1, <1>2 DEF Shown
  <2>2. \A q \in Requests : \A p \in after[q] :
          p \in Requests /\ \A old \in Shown(p), new \in Shown(q) :
            (old.of = new.of /\ old.word = new.word) => old.version <= new.version
    BY DEF NeverGoesBack, ServersTypeOK
  <2>3. phase[r] = "new" => Shown(r) = {}
    <3>1. phase[r] = "new" => \A i \in Fields(r) : slot[r][i].shown = {}
      BY DEF StagesOK, EmptySlot
    <3> QED
      BY <3>1 DEF Shown
  <2>4. \A q \in Requests : \A p \in after'[q] :
          p \in Requests /\ \A old \in Shown(p), new \in Shown(q) :
            (old.of = new.of /\ old.word = new.word) => old.version <= new.version
    BY <1>1, <1>4, <2>2, <2>3
  <2>5. \A q \in Requests : \A p \in after'[q] :
          \A old \in Shown(p)', new \in Shown(q)' :
            (old.of = new.of /\ old.word = new.word) => old.version <= new.version
    BY <2>1, <2>4
  <2> QED
    BY <1>2, <2>5 DEF NeverGoesBack
<1> QED
  BY <1>3, <1>7, <1>8, <1>9, <1>10, <1>11

LEMMA FieldKeepsPointers ==
  ASSUME PointersInv, NEW r \in Requests, NEW i \in Fields(r), WordsMoved(r, i),
         postSeq' \in Nat
  PROVE  PointersInv'
BY FieldTypeOK, FieldStagesOK, FieldPointersOK, FieldWordsOK, FieldWritersOK,
   FieldWholeOK, FieldWritesInOrder, FieldNeverGoesBack DEF PointersInv

LEMMA PointersInit == Init => PointersInv
<1> SUFFICES ASSUME Init
             PROVE  PointersInv
  OBVIOUS
<1>1. /\ workload \in Workloads
      /\ phase = [r \in Requests |-> "new"]
      /\ slot = [r \in Requests |-> [i \in Fields(r) |-> EmptySlot]]
      /\ after = [r \in Requests |-> {}]
      /\ employees = [e \in Employees |-> [w \in Words |-> 0]] /\ postSeq = 0
  BY DEF Init, ExecInit, EmployeesInit, DemoInit
<1>2. \A r \in Requests : \A i \in Fields(r) : slot[r][i] = EmptySlot
  BY <1>1
<1>3. IsSlot(EmptySlot) /\ EmptySlot.st = "waiting" /\ EmptySlot.value = Nil
      /\ EmptySlot.shown = {} /\ EmptySlot.wrote = {}
  BY DEF EmptySlot, IsSlot
<1>4. ServersTypeOK
  BY <1>1, <1>2, <1>3 DEF ServersTypeOK
<1>5. StagesOK
  BY <1>1, <1>2, <1>3 DEF StagesOK, Done
<1>6. PointersOK
  BY <1>2, <1>3, SoundValues DEF PointersOK, Sound
<1>7. WordsOK /\ WritersOK /\ WritesInOrder
  BY <1>2, <1>3 DEF WordsOK, WritersOK, WritesInOrder
<1>8. WholeOK
  BY <1>1 DEF WholeOK, Whole, Words
<1>9. NeverGoesBack
  BY <1>1 DEF NeverGoesBack
<1> QED
  BY <1>4, <1>5, <1>6, <1>7, <1>8, <1>9 DEF PointersInv

LEMMA PointersStep == PointersInv /\ [Next]_vars => PointersInv'
<1> SUFFICES ASSUME PointersInv, [Next]_vars
             PROVE  PointersInv'
  OBVIOUS
<1>1. CASE UNCHANGED vars
  <2>1. UNCHANGED <<workload, phase, slot, after, employees, postSeq>>
    BY <1>1 DEF vars
  <2>2. /\ Requests' = Requests /\ \A q : Fields(q)' = Fields(q)
        /\ \A q : IsMutation(q)' = IsMutation(q)
        /\ \A q, i : Call(q, i)' = Call(q, i)
    BY <2>1, SameRequests
  <2>3. ServersTypeOK' /\ StagesOK' /\ PointersOK' /\ WordsOK'
    BY <2>1, <2>2 DEF PointersInv, ServersTypeOK, IsSlot, StagesOK, Done, PointersOK,
                      LivePlaces, Pointer, WordsOK
  <2>4. WritersOK' /\ WholeOK' /\ WritesInOrder' /\ NeverGoesBack'
    BY <2>1, <2>2 DEF PointersInv, WritersOK, WholeOK, Whole, Renaming, Unwritten,
                      WritesInOrder, NeverGoesBack, Shown
  <2> QED
    BY <2>3, <2>4 DEF PointersInv
<1>2. ASSUME NEW r \in Requests, PhaseMoved(r), UNCHANGED <<users, postSeq>>
      PROVE  PointersInv'
  BY <1>2, PhaseKeepsPointers DEF PointersInv, ServersTypeOK
<1>3. ASSUME NEW r \in Requests, NEW i \in Fields(r), WordsMoved(r, i),
             NothingMade(r, i) \/ PostMade(r, i) \/ UserFound(r, i)
      PROVE  PointersInv'
  <2>1. postSeq' \in Nat
    BY <1>3 DEF NothingMade, PostMade, UserFound, PointersInv, ServersTypeOK
  <2> QED
    BY <1>3, <2>1, FieldKeepsPointers
<1> QED
  BY <1>1, <1>2, <1>3, ServersSteps DEF PointersInv

\* Live pointers, the words read and written through them, and the fields of
\* requests are always as the locks and the loops of the generated code and
\* of updateEmployee leave them.
THEOREM PointersInvAlways == Spec => []PointersInv
BY PointersInit, PointersStep, PTL DEF Spec

\* No answer shows an older state of an employee than an answer that was
\* given before its request began.
THEOREM NeverGoesBackAlways == Spec => []NeverGoesBack
<1>1. PointersInv => NeverGoesBack
  BY DEF PointersInv
<1> QED
  BY <1>1, PointersInvAlways, PTL

\* When no update is under way, each name was written by one call.
THEOREM NamesAreWholeAlways == Spec => []NamesAreWhole
<1>1. PointersInv => NamesAreWhole
  BY DEF PointersInv, WholeOK, Renaming, NamesAreWhole, Locked
<1> QED
  BY <1>1, PointersInvAlways, PTL

-----------------------------------------------------------------------------
(* Posts and users *)

IsA(r, i, type) == slot[r][i].value.kind = "object" /\ slot[r][i].value.type = type

\* PostsAreAuthorized, UsersOK and UsersShown without pairs.
PostsOK ==
  \A r \in Requests : \A i \in Fields(r) : IsA(r, i, "Post") =>
    /\ Roles(token(r)) \cap {"editor", "admin"} # {}
    /\ slot[r][i].value.fields.authorID = Leaf(token(r).subject)
    /\ slot[r][i].value.key \in 1..postSeq
    /\ \A q \in Requests : \A j \in Fields(q) :
         (IsA(q, j, "Post") /\ slot[q][j].value.key = slot[r][i].value.key) =>
           q = r /\ j = i

OwnersOK ==
  /\ \A subject \in DOMAIN Seeded :
       subject \in DOMAIN users /\ users[subject] = Seeded[subject]
  /\ \A subject \in DOMAIN users :
       /\ IsFiniteSet(users[subject])
       /\ subject \in DOMAIN Seeded \/ \E r \in Requests : \E i \in Fields(r) :
            /\ IsA(r, i, "User") /\ token(r).subject = subject
            /\ users[subject] = Roles(token(r))

ShownOK ==
  \A r \in Requests : \A i \in Fields(r) : IsA(r, i, "User") =>
    /\ slot[r][i].value.key = token(r).subject /\ token(r).subject \in DOMAIN users
    /\ RolesIn(slot[r][i].value) = users[token(r).subject] \cup Roles(token(r))

LEMMA ReturningMeans ==
  ASSUME NEW type
  PROVE  /\ \A r \in Requests : \A i \in Fields(r) :
              IsA(r, i, type) <=> <<r, i>> \in Returning(type)
         /\ \A a \in Returning(type) : \E r \in Requests : \E i \in Fields(r) :
              a = <<r, i>> /\ a[1] = r /\ a[2] = i /\ Result(a) = slot[r][i].value
         /\ \A r, i : /\ Result(<<r, i>>) = slot[r][i].value
                      /\ <<r, i>>[1] = r /\ <<r, i>>[2] = i
<1>1. \A r \in Requests : \A i \in Fields(r) :
        <<r, i>> \in {<<q, j>> : q \in Requests, j \in UNION {Fields(p) : p \in Requests}}
  OBVIOUS
<1>2. \A r \in Requests : \A i \in Fields(r) :
        IsA(r, i, type) <=> <<r, i>> \in Returning(type)
  BY <1>1 DEF Returning, IsA
<1>3. ASSUME NEW a \in Returning(type)
      PROVE  \E r \in Requests : \E i \in Fields(r) :
               a = <<r, i>> /\ a[1] = r /\ a[2] = i /\ Result(a) = slot[r][i].value
  <2>1. PICK r \in Requests, i \in UNION {Fields(p) : p \in Requests} :
          a = <<r, i>> /\ a[2] \in Fields(a[1])
    BY DEF Returning
  <2> QED
    BY <2>1 DEF Result
<1> QED
  BY <1>2, <1>3 DEF Result

LEMMA PostsPointwise == PostsAreAuthorized <=> PostsOK
<1>1. ASSUME PostsOK PROVE PostsAreAuthorized
  <2> SUFFICES ASSUME NEW a \in Returning("Post")
               PROVE  /\ Roles(token(a[1])) \cap {"editor", "admin"} # {}
                      /\ Result(a).fields.authorID = Leaf(token(a[1]).subject)
                      /\ Result(a).key \in 1..postSeq
                      /\ \A b \in Returning("Post") : Result(a).key = Result(b).key => a = b
    BY DEF PostsAreAuthorized
  <2>1. PICK r \in Requests : \E i \in Fields(r) :
          a = <<r, i>> /\ a[1] = r /\ Result(a) = slot[r][i].value
    BY ReturningMeans
  <2>2. PICK i \in Fields(r) :
          a = <<r, i>> /\ a[1] = r /\ Result(a) = slot[r][i].value
    BY <2>1
  <2>3. IsA(r, i, "Post")
    BY <2>2, ReturningMeans
  <2>4. \A b \in Returning("Post") : Result(a).key = Result(b).key => a = b
    <3> SUFFICES ASSUME NEW b \in Returning("Post"), Result(a).key = Result(b).key
                 PROVE  a = b
      OBVIOUS
    <3>1. PICK q \in Requests : \E j \in Fields(q) :
            b = <<q, j>> /\ Result(b) = slot[q][j].value
      BY ReturningMeans
    <3>2. PICK j \in Fields(q) : b = <<q, j>> /\ Result(b) = slot[q][j].value
      BY <3>1
    <3>3. IsA(q, j, "Post")
      BY <3>2, ReturningMeans
    <3> QED
      BY <1>1, <2>2, <2>3, <3>2, <3>3 DEF PostsOK
  <2> QED
    BY <1>1, <2>2, <2>3, <2>4 DEF PostsOK
<1>2. ASSUME PostsAreAuthorized PROVE PostsOK
  <2> SUFFICES ASSUME NEW r \in Requests, NEW i \in Fields(r), IsA(r, i, "Post")
               PROVE  /\ Roles(token(r)) \cap {"editor", "admin"} # {}
                      /\ slot[r][i].value.fields.authorID = Leaf(token(r).subject)
                      /\ slot[r][i].value.key \in 1..postSeq
                      /\ \A q \in Requests : \A j \in Fields(q) :
                           (IsA(q, j, "Post") /\ slot[q][j].value.key = slot[r][i].value.key)
                             => q = r /\ j = i
    BY DEF PostsOK
  <2>1. /\ <<r, i>> \in Returning("Post") /\ Result(<<r, i>>) = slot[r][i].value
        /\ <<r, i>>[1] = r
    BY ReturningMeans
  <2>2. ASSUME NEW q \in Requests, NEW j \in Fields(q), IsA(q, j, "Post"),
               slot[q][j].value.key = slot[r][i].value.key
        PROVE  q = r /\ j = i
    <3>1. <<q, j>> \in Returning("Post") /\ Result(<<q, j>>) = slot[q][j].value
      BY <2>2, ReturningMeans
    <3>2. <<r, i>> = <<q, j>>
      BY <1>2, <2>1, <2>2, <3>1 DEF PostsAreAuthorized
    <3> QED
      BY <3>2
  <2>3. /\ Roles(token(r)) \cap {"editor", "admin"} # {}
        /\ slot[r][i].value.fields.authorID = Leaf(token(r).subject)
        /\ slot[r][i].value.key \in 1..postSeq
    <3> DEFINE a == <<r, i>>
    <3>1. a \in Returning("Post") /\ Result(a) = slot[r][i].value /\ a[1] = r
      BY <2>1
    <3> HIDE DEF a
    <3> QED
      BY <1>2, <3>1 DEF PostsAreAuthorized
  <2> QED
    BY <2>2, <2>3
<1> QED
  BY <1>1, <1>2

LEMMA UsersPointwise == UsersOK <=> OwnersOK
<1>1. ASSUME NEW subject
      PROVE  (\E a \in Returning("User") :
                 token(a[1]).subject = subject /\ users[subject] = Roles(token(a[1])))
               <=> \E r \in Requests : \E i \in Fields(r) :
                     /\ IsA(r, i, "User") /\ token(r).subject = subject
                     /\ users[subject] = Roles(token(r))
  <2>1. ASSUME NEW a \in Returning("User"),
               token(a[1]).subject = subject, users[subject] = Roles(token(a[1]))
        PROVE  \E r \in Requests : \E i \in Fields(r) :
                 /\ IsA(r, i, "User") /\ token(r).subject = subject
                 /\ users[subject] = Roles(token(r))
    <3>1. PICK r \in Requests : \E i \in Fields(r) : a = <<r, i>> /\ a[1] = r
      BY ReturningMeans
    <3>2. PICK i \in Fields(r) : a = <<r, i>> /\ a[1] = r
      BY <3>1
    <3>3. IsA(r, i, "User")
      BY <3>2, ReturningMeans
    <3> QED
      BY <2>1, <3>2, <3>3
  <2>2. ASSUME NEW r \in Requests, NEW i \in Fields(r),
               IsA(r, i, "User"), token(r).subject = subject,
               users[subject] = Roles(token(r))
        PROVE  \E a \in Returning("User") :
                 token(a[1]).subject = subject /\ users[subject] = Roles(token(a[1]))
    <3> DEFINE a == <<r, i>>
    <3>1. a \in Returning("User") /\ a[1] = r
      BY <2>2, ReturningMeans
    <3> HIDE DEF a
    <3> QED
      BY <2>2, <3>1
  <2> QED
    BY <2>1, <2>2
<1> QED
  BY <1>1 DEF UsersOK, OwnersOK

LEMMA ShownPointwise == UsersShown <=> ShownOK
<1>1. ASSUME ShownOK, NEW a \in Returning("User")
      PROVE  /\ Result(a).key = token(a[1]).subject /\ token(a[1]).subject \in DOMAIN users
             /\ RolesIn(Result(a)) = users[token(a[1]).subject] \cup Roles(token(a[1]))
  <2>1. PICK r \in Requests : \E i \in Fields(r) :
          a = <<r, i>> /\ a[1] = r /\ Result(a) = slot[r][i].value
    BY ReturningMeans
  <2>2. PICK i \in Fields(r) :
          a = <<r, i>> /\ a[1] = r /\ Result(a) = slot[r][i].value
    BY <2>1
  <2>3. IsA(r, i, "User")
    BY <2>2, ReturningMeans
  <2> QED
    BY <1>1, <2>2, <2>3 DEF ShownOK
<1>2. ASSUME UsersShown, NEW r \in Requests, NEW i \in Fields(r), IsA(r, i, "User")
      PROVE  /\ slot[r][i].value.key = token(r).subject /\ token(r).subject \in DOMAIN users
             /\ RolesIn(slot[r][i].value) = users[token(r).subject] \cup Roles(token(r))
  <2> DEFINE a == <<r, i>>
  <2>1. a \in Returning("User") /\ a[1] = r /\ Result(a) = slot[r][i].value
    BY <1>2, ReturningMeans
  <2> HIDE DEF a
  <2> QED
    BY <1>2, <2>1 DEF UsersShown
<1> QED
  BY <1>1, <1>2 DEF UsersShown, ShownOK

\* The list of a finite set of roles shows these roles.
LEMMA AsListShows ==
  ASSUME NEW S, IsFiniteSet(S)
  PROVE  {x.value : x \in {AsList(S).items[k] : k \in DOMAIN AsList(S).items}} = S
<1> DEFINE leaves == {Leaf(x) : x \in S}
           lists == {s \in [1..Cardinality(S) -> leaves] :
                       \A x \in S : \E k \in DOMAIN s : s[k] = Leaf(x)}
           list == CHOOSE s \in [1..Cardinality(S) -> leaves] :
                     \A x \in S : \E k \in DOMAIN s : s[k] = Leaf(x)
<1>1. \E s \in [1..Cardinality(S) -> leaves] : \A x \in S : \E k \in DOMAIN s : s[k] = Leaf(x)
  <2>1. ExistsBijection(1..Cardinality(S), S)
    BY FS_CardinalityType
  <2>2. PICK f \in [1..Cardinality(S) -> S] : \A x \in S : \E k \in 1..Cardinality(S) : f[k] = x
    BY <2>1 DEF ExistsBijection, Bijection, Injection, Surjection
  <2> DEFINE s == [k \in 1..Cardinality(S) |-> Leaf(f[k])]
  <2>3. s \in [1..Cardinality(S) -> leaves]
    BY <2>2
  <2>4. \A x \in S : \E k \in DOMAIN s : s[k] = Leaf(x)
    BY <2>2
  <2> QED
    BY <2>3, <2>4
<1>2. list \in [1..Cardinality(S) -> leaves] /\ \A x \in S : \E k \in DOMAIN list : list[k] = Leaf(x)
  BY <1>1
<1>3. AsList(S).items = list
  BY DEF AsList, List
<1> HIDE DEF list
<1>4. \A x : Leaf(x).value = x
  BY DEF Leaf
<1>5. {list[k] : k \in DOMAIN list} = leaves
  BY <1>2
<1>6. {x.value : x \in leaves} = S
  BY <1>4
<1> QED
  BY <1>3, <1>5, <1>6

LEMMA DemoMutations ==
  ASSUME ServersTypeOK, server = "demo", NEW r \in Requests, IsMutation(r),
         NEW i \in Fields(r)
  PROVE  Call(r, i).field = "createPost"
<1>1. /\ "Mutation" \in DOMAIN DemoSchema
      /\ DOMAIN DemoSchema["Mutation"] = {"createPost"}
  BY DEF DemoSchema
<1>2. "Mutation" \notin DOMAIN IntrospectionSchema
  BY DEF IntrospectionSchema
<1>3. Extended(DemoSchema, IntrospectionSchema)["Mutation"] = DemoSchema["Mutation"]
  BY <1>1, <1>2 DEF Extended
<1>4. Schema["demo"] = Extended(DemoSchema, IntrospectionSchema)
  BY DEF Schema
<1>5. workload \in Workloads /\ r \in DOMAIN workload.requests
      /\ workload.requests[r].operation = "mutation"
  BY DEF ServersTypeOK, Requests, IsMutation, request
<1>6. i \in DOMAIN workload.requests[r].calls
  BY DEF Fields, request
<1>7. workload.requests[r].calls[i].field \in DOMAIN Schema[workload.server]["Mutation"]
  BY <1>5, <1>6, WorkloadAssumption
<1> QED
  BY <1>1, <1>3, <1>4, <1>7 DEF server, Call, request

\* A field gets no value in place of an object.
LEMMA ObjectsStay ==
  ASSUME StagesOK, NEW r \in Requests, NEW i \in Fields(r), WordsMoved(r, i)
  PROVE  /\ OtherFields(r, i)
         /\ slot'[r][i].value = slot[r][i].value \/ slot[r][i].value.kind # "object"
<1>1. CASE Resolved(r, i)
  <2>1. /\ OtherFields(r, i)
        /\ \/ slot[r][i].st \in {"waiting", "writing"}
           \/ slot[r][i].st = "resolving"
    BY <1>1 DEF Resolved, MayStart
  <2>2. slot[r][i].value = Nil \/ slot[r][i].value = List(slot[r][i].value.items)
    BY <2>1 DEF StagesOK, EmptySlot
  <2>3. Nil.kind = "nil" /\ \A items : List(items).kind = "list"
    BY DEF Nil, List
  <2> QED
    BY <2>1, <2>2, <2>3
<1>2. CASE UpdateBegun(r, i)
  BY <1>2 DEF UpdateBegun
<1>3. CASE \E word \in Words : WordWritten(r, i, word)
  BY <1>3 DEF WordWritten
<1>4. CASE \E place, e, word : WordShown(r, i, place, e, word)
  BY <1>4 DEF WordShown
<1> QED
  BY <1>1, <1>2, <1>3, <1>4 DEF WordsMoved

\* The invariant, without pairs.
DemoOK == PostsOK /\ PostsInOrder /\ OwnersOK /\ ShownOK

LEMMA PostsKept ==
  ASSUME PostsOK, UNCHANGED <<workload, postSeq>>,
         \A q \in Requests : \A j \in Fields(q) :
           /\ IsA(q, j, "Post")' <=> IsA(q, j, "Post")
           /\ IsA(q, j, "Post") => slot'[q][j].value = slot[q][j].value
  PROVE  PostsOK'
<1>0. /\ Requests' = Requests
      /\ \A q : Fields(q)' = Fields(q) /\ token(q)' = token(q)
      /\ \A q : Roles(token(q))' = Roles(token(q))
  BY SameRequests DEF Roles, Authenticated
<1> SUFFICES ASSUME NEW q \in Requests, NEW j \in Fields(q), IsA(q, j, "Post")'
             PROVE  /\ (Roles(token(q)) \cap {"editor", "admin"} # {})'
                    /\ (slot[q][j].value.fields.authorID = Leaf(token(q).subject))'
                    /\ (slot[q][j].value.key \in 1..postSeq)'
                    /\ \A p \in Requests : \A k \in Fields(p) :
                         (/\ IsA(p, k, "Post")'
                          /\ slot'[p][k].value.key = slot'[q][j].value.key)
                           => p = q /\ k = j
  BY <1>0 DEF PostsOK
<1>1. IsA(q, j, "Post") /\ slot'[q][j].value = slot[q][j].value
  OBVIOUS
<1>2. /\ Roles(token(q)) \cap {"editor", "admin"} # {}
      /\ slot[q][j].value.fields.authorID = Leaf(token(q).subject)
      /\ slot[q][j].value.key \in 1..postSeq
      /\ \A p \in Requests : \A k \in Fields(p) :
           (IsA(p, k, "Post") /\ slot[p][k].value.key = slot[q][j].value.key) =>
             p = q /\ k = j
  BY <1>1 DEF PostsOK
<1>3. \A p \in Requests : \A k \in Fields(p) :
        (/\ IsA(p, k, "Post")'
         /\ slot'[p][k].value.key = slot'[q][j].value.key) => p = q /\ k = j
  BY <1>1, <1>2
<1>4. (slot[q][j].value.fields.authorID = Leaf(token(q).subject))'
  BY <1>0, <1>1, <1>2 DEF Leaf
<1>5. (slot[q][j].value.key \in 1..postSeq)'
  BY <1>1, <1>2
<1> QED
  BY <1>0, <1>2, <1>3, <1>4, <1>5

\* Steps that leave posts and users as they are.
LEMMA SameObjects ==
  ASSUME PostsOK, OwnersOK, ShownOK, UNCHANGED <<workload, users, postSeq>>,
         \A q \in Requests : \A j \in Fields(q) : \A type \in {"Post", "User"} :
           /\ IsA(q, j, type)' <=> IsA(q, j, type)
           /\ IsA(q, j, type) => slot'[q][j].value = slot[q][j].value
  PROVE  PostsOK' /\ OwnersOK' /\ ShownOK'
<1>1. /\ Requests' = Requests
      /\ \A q : Fields(q)' = Fields(q) /\ token(q)' = token(q)
      /\ \A q : Roles(token(q))' = Roles(token(q))
  BY SameRequests DEF Roles, Authenticated
<1>2. PostsOK'
  BY PostsKept
<1>3. OwnersOK'
  <2>1. \A q \in Requests : \A j \in Fields(q) : IsA(q, j, "User")' <=> IsA(q, j, "User")
    OBVIOUS
  <2> QED
    BY <1>1, <2>1 DEF OwnersOK
<1>4. ShownOK'
  <2>1. \A q \in Requests : \A j \in Fields(q) :
          /\ IsA(q, j, "User")' <=> IsA(q, j, "User")
          /\ IsA(q, j, "User") => slot'[q][j].value = slot[q][j].value
    OBVIOUS
  <2> QED
    <3> SUFFICES ASSUME NEW q \in Requests, NEW j \in Fields(q), IsA(q, j, "User")'
                 PROVE  /\ slot'[q][j].value.key = token(q).subject
                        /\ token(q).subject \in DOMAIN users
                        /\ RolesIn(slot'[q][j].value)
                             = users[token(q).subject] \cup Roles(token(q))
      BY <1>1 DEF ShownOK, RolesIn
    <3> QED
      BY <2>1 DEF ShownOK
<1> QED
  BY <1>2, <1>3, <1>4

LEMMA NothingMadeStep ==
  ASSUME ServersTypeOK, StagesOK, DemoOK,
         NEW r \in Requests, NEW i \in Fields(r), WordsMoved(r, i), NothingMade(r, i)
  PROVE  DemoOK'
<1>1. /\ OtherFields(r, i) /\ UNCHANGED <<users, postSeq, workload>>
      /\ \/ slot'[r][i].value = slot[r][i].value
         \/ slot[r][i].value.kind # "object" /\ PlainValue(r, i)
  BY ObjectsStay DEF NothingMade, OtherFields
<1>2. /\ Requests' = Requests /\ server' = server
      /\ \A q : Fields(q)' = Fields(q) /\ IsMutation(q)' = IsMutation(q)
  BY <1>1, SameRequests
<1>3. \A q \in Requests : \A j \in Fields(q) :
        (q # r \/ j # i) => slot'[q][j] = slot[q][j]
  BY <1>1 DEF OtherFields
<1>4. \A q \in Requests : \A j \in Fields(q) : \A type \in {"Post", "User"} :
        /\ IsA(q, j, type)' <=> IsA(q, j, type)
        /\ IsA(q, j, type) => slot'[q][j].value = slot[q][j].value
  BY <1>1, <1>3 DEF IsA, PlainValue
<1>5. PostsOK' /\ OwnersOK' /\ ShownOK'
  BY <1>1, <1>4, SameObjects DEF DemoOK
<1>6. PostsInOrder'
  <2>1. ASSUME server = "demo", NEW q \in Requests, IsMutation(q), NEW j \in Fields(q)
        PROVE  /\ slot'[q][j].value.kind = "object" => slot[q][j].value.kind = "object"
               /\ slot[q][j].value.kind = "object" =>
                    slot'[q][j].value = slot[q][j].value
    <3>1. Call(q, j).field = "createPost"
      BY <2>1, DemoMutations
    <3> QED
      BY <1>1, <1>3, <3>1 DEF PlainValue
  <2>2. server = "demo" => \A q \in Requests : IsMutation(q) => \A j \in Fields(q) :
          slot'[q][j].value.kind = "object" =>
            /\ slot'[q][j].value.type = "Post"
            /\ \A k \in Fields(q) : (j < k /\ slot'[q][k].value.kind = "object") =>
                 slot'[q][j].value.key < slot'[q][k].value.key
    BY <2>1 DEF DemoOK, PostsInOrder
  <2> QED
    BY <1>2, <2>2 DEF PostsInOrder
<1> QED
  BY <1>5, <1>6 DEF DemoOK

LEMMA PostMadeStep ==
  ASSUME ServersTypeOK, StagesOK, DemoOK,
         NEW r \in Requests, NEW i \in Fields(r), WordsMoved(r, i), PostMade(r, i)
  PROVE  DemoOK'
<1> DEFINE post == Object("Post", postSeq + 1, [title |-> Leaf(Call(r, i).title),
                                                authorID |-> Leaf(token(r).subject)])
<1>1. /\ OtherFields(r, i) /\ UNCHANGED <<users, workload>> /\ postSeq' = postSeq + 1
      /\ slot[r][i] = EmptySlot /\ slot'[r][i].value = post
      /\ Roles(token(r)) \cap {"editor", "admin"} # {} /\ postSeq \in Nat
      /\ IsMutation(r) => \A k \in Fields(r) : i < k => slot[r][k] = EmptySlot
  BY Acting DEF PostMade, Starts, MayStart, StagesOK, AllowCreatePost, OtherFields,
                ServersTypeOK
<1>2. /\ Requests' = Requests /\ server' = server
      /\ \A q : /\ Fields(q)' = Fields(q) /\ IsMutation(q)' = IsMutation(q)
                /\ token(q)' = token(q) /\ Roles(token(q))' = Roles(token(q))
  BY <1>1, SameRequests DEF Roles, Authenticated
<1>3. /\ post.kind = "object" /\ post.type = "Post" /\ post.key = postSeq + 1
      /\ post.fields.authorID = Leaf(token(r).subject)
      /\ EmptySlot.value.kind = "nil"
  BY DEF Object, EmptySlot, Nil
<1> HIDE DEF post
<1>4. \A q \in Requests : \A j \in Fields(q) :
        (q # r \/ j # i) => slot'[q][j] = slot[q][j]
  BY <1>1 DEF OtherFields
<1>5. /\ IsA(r, i, "Post")' /\ ~IsA(r, i, "Post")
      /\ ~IsA(r, i, "User")' /\ ~IsA(r, i, "User")
      /\ \A q \in Requests : \A j \in Fields(q) : \A type : (q # r \/ j # i) =>
           (IsA(q, j, type)' <=> IsA(q, j, type))
  BY <1>1, <1>3, <1>4 DEF IsA
<1>6. PostsOK'
  <2> SUFFICES ASSUME NEW q \in Requests, NEW j \in Fields(q), IsA(q, j, "Post")'
               PROVE  /\ (Roles(token(q)) \cap {"editor", "admin"} # {})'
                      /\ (slot[q][j].value.fields.authorID = Leaf(token(q).subject))'
                      /\ (slot[q][j].value.key \in 1..postSeq)'
                      /\ \A p \in Requests : \A k \in Fields(p) :
                           (/\ IsA(p, k, "Post")'
                            /\ slot'[p][k].value.key = slot'[q][j].value.key)
                             => p = q /\ k = j
    BY <1>2 DEF PostsOK
  <2>1. \A p \in Requests : \A k \in Fields(p) :
          /\ (p # r \/ k # i) /\ IsA(p, k, "Post")' => slot'[p][k].value.key \in 1..postSeq
          /\ p = r /\ k = i => slot'[p][k].value.key = postSeq + 1
    BY <1>1, <1>3, <1>4, <1>5 DEF DemoOK, PostsOK
  <2>2. CASE q = r /\ j = i
    <3>1. (slot[q][j].value.fields.authorID = Leaf(token(q).subject))'
      BY <1>1, <1>2, <1>3, <2>2 DEF Leaf
    <3>2. slot'[q][j].value.key \in 1..postSeq'
      BY <1>1, <2>1, <2>2
    <3>3. \A p \in Requests : \A k \in Fields(p) :
            (IsA(p, k, "Post")' /\ slot'[p][k].value.key = slot'[q][j].value.key)
              => p = q /\ k = j
      BY <1>1, <2>1, <2>2
    <3>4. (Roles(token(q)) \cap {"editor", "admin"} # {})'
      BY <1>1, <1>2, <2>2
    <3> QED
      BY <3>1, <3>2, <3>3, <3>4
  <2>3. CASE q # r \/ j # i
    <3>1. /\ IsA(q, j, "Post") /\ slot'[q][j] = slot[q][j]
          /\ slot[q][j].value.key \in 1..postSeq
      BY <1>4, <1>5, <2>3 DEF DemoOK, PostsOK
    <3>2. (slot[q][j].value.fields.authorID = Leaf(token(q).subject))'
      BY <1>2, <3>1 DEF Leaf, DemoOK, PostsOK
    <3>3. slot'[q][j].value.key \in 1..postSeq'
      BY <1>1, <3>1
    <3>4. \A p \in Requests : \A k \in Fields(p) :
            (IsA(p, k, "Post")' /\ slot'[p][k].value.key = slot'[q][j].value.key)
              => p = q /\ k = j
      <4> SUFFICES ASSUME NEW p \in Requests, NEW k \in Fields(p), IsA(p, k, "Post")',
                          slot'[p][k].value.key = slot'[q][j].value.key
                   PROVE  p = q /\ k = j
        OBVIOUS
      <4>1. p # r \/ k # i
        BY <1>1, <2>1, <3>1
      <4>2. IsA(p, k, "Post") /\ slot'[p][k] = slot[p][k]
        BY <1>4, <1>5, <4>1
      <4> QED
        BY <3>1, <4>2 DEF DemoOK, PostsOK
    <3>5. (Roles(token(q)) \cap {"editor", "admin"} # {})'
      BY <1>2, <3>1 DEF DemoOK, PostsOK
    <3> QED
      BY <3>2, <3>3, <3>4, <3>5
  <2> QED
    BY <2>2, <2>3
<1>7. \A q \in Requests : \A j \in Fields(q) :
        /\ IsA(q, j, "User")' <=> IsA(q, j, "User")
        /\ IsA(q, j, "User") => slot'[q][j].value = slot[q][j].value
  BY <1>4, <1>5
<1>8. OwnersOK'
  BY <1>1, <1>2, <1>7 DEF DemoOK, OwnersOK
<1>9. ShownOK'
  <2> SUFFICES ASSUME NEW q \in Requests, NEW j \in Fields(q), IsA(q, j, "User")'
               PROVE  /\ slot'[q][j].value.key = token(q).subject
                      /\ token(q).subject \in DOMAIN users
                      /\ RolesIn(slot'[q][j].value)
                           = users[token(q).subject] \cup Roles(token(q))
    BY <1>1, <1>2 DEF ShownOK, RolesIn
  <2> QED
    BY <1>7 DEF DemoOK, ShownOK
<1>10. PostsInOrder'
  <2>1. ASSUME server = "demo", NEW q \in Requests, IsMutation(q), NEW j \in Fields(q),
               slot'[q][j].value.kind = "object"
        PROVE  /\ slot'[q][j].value.type = "Post"
               /\ \A k \in Fields(q) : (j < k /\ slot'[q][k].value.kind = "object") =>
                    slot'[q][j].value.key < slot'[q][k].value.key
    <3>1. CASE q = r /\ j = i
      <4>1. ASSUME NEW k \in Fields(q), j < k
            PROVE  slot'[q][k].value.kind = "nil"
        <5>1. k # i
          BY <3>1, <4>1, FieldsAreNumbers
        <5> QED
          BY <1>1, <1>3, <1>4, <2>1, <3>1, <4>1, <5>1
      <4> QED
        BY <1>1, <1>3, <3>1, <4>1
    <3>2. CASE q # r \/ j # i
      <4>1. /\ slot'[q][j] = slot[q][j] /\ slot[q][j].value.type = "Post"
            /\ IsA(q, j, "Post")
            /\ \A k \in Fields(q) : (j < k /\ slot[q][k].value.kind = "object") =>
                 slot[q][j].value.key < slot[q][k].value.key
        BY <1>4, <2>1, <3>2 DEF DemoOK, PostsInOrder, IsA
      <4>2. slot[q][j].value.key \in 1..postSeq
        BY <4>1 DEF DemoOK, PostsOK
      <4>3. ASSUME NEW k \in Fields(q), j < k, slot'[q][k].value.kind = "object"
            PROVE  slot'[q][j].value.key < slot'[q][k].value.key
        <5>1. CASE q = r /\ k = i
          BY <1>1, <1>3, <4>1, <4>2, <5>1
        <5>2. CASE q # r \/ k # i
          BY <1>4, <4>1, <4>3, <5>2
        <5> QED
          BY <5>1, <5>2
      <4> QED
        BY <4>1, <4>3
    <3> QED
      BY <3>1, <3>2
  <2> QED
    BY <1>2, <2>1 DEF PostsInOrder
<1> QED
  BY <1>6, <1>8, <1>9, <1>10 DEF DemoOK

LEMMA UserFoundStep ==
  ASSUME ServersTypeOK, StagesOK, DemoOK,
         NEW r \in Requests, NEW i \in Fields(r), WordsMoved(r, i), UserFound(r, i)
  PROVE  DemoOK'
<1> DEFINE subject == token(r).subject
           roles == token(r).roles
           shown == users'[subject] \cup roles
           user == Object("User", subject,
                          [id |-> Leaf(subject), roles |-> AsList(shown)])
<1>1. /\ OtherFields(r, i) /\ UNCHANGED <<postSeq, workload>> /\ server = "demo"
      /\ slot[r][i] = EmptySlot /\ slot'[r][i].value = user
      /\ users' = LookupUser(subject, roles)
      /\ token(r).form = "valid" /\ Roles(token(r)) = roles
      /\ Call(r, i).field = "me"
  BY Acting DEF UserFound, Starts, MayStart, StagesOK, Authenticated, Roles, OtherFields,
                UnionRoles
<1>2. /\ Requests' = Requests /\ server' = server
      /\ \A q : /\ Fields(q)' = Fields(q) /\ IsMutation(q)' = IsMutation(q)
                /\ token(q)' = token(q) /\ Roles(token(q))' = Roles(token(q))
  BY <1>1, SameRequests DEF Roles, Authenticated
<1>3. IsFiniteSet(roles)
  BY <1>1, RolesAssumption DEF ServersTypeOK, server, Requests, token, request
<1>4. /\ DOMAIN users' = DOMAIN users \cup {subject}
      /\ \A s \in DOMAIN users : users'[s] = users[s]
      /\ subject \notin DOMAIN users => users'[subject] = roles
  BY <1>1 DEF LookupUser, UnionRoles
<1>5. IsFiniteSet(users'[subject])
  BY <1>3, <1>4 DEF DemoOK, OwnersOK
<1>6. /\ user.kind = "object" /\ user.type = "User" /\ user.key = subject
      /\ RolesIn(user) = shown
  <2>1. IsFiniteSet(shown)
    BY <1>3, <1>5, FS_Union
  <2> HIDE DEF shown
  <2>2. user.fields.roles = AsList(shown)
    BY DEF Object
  <2>3. user.kind = "object" /\ user.type = "User" /\ user.key = subject
    BY DEF Object
  <2> HIDE DEF user
  <2>4. RolesIn(user) = shown
    BY <2>1, <2>2, AsListShows DEF RolesIn
  <2> QED
    BY <2>3, <2>4
<1> HIDE DEF user, subject, roles
<1>7. EmptySlot.value.kind = "nil"
  BY DEF EmptySlot, Nil
<1>8. \A q \in Requests : \A j \in Fields(q) :
        (q # r \/ j # i) => slot'[q][j] = slot[q][j]
  BY <1>1 DEF OtherFields
<1>9. /\ IsA(r, i, "User")' /\ ~IsA(r, i, "User")
      /\ ~IsA(r, i, "Post")' /\ ~IsA(r, i, "Post")
      /\ \A q \in Requests : \A j \in Fields(q) : \A type : (q # r \/ j # i) =>
           (IsA(q, j, type)' <=> IsA(q, j, type))
  BY <1>1, <1>6, <1>7, <1>8 DEF IsA
<1>10. \A q \in Requests : \A j \in Fields(q) :
         /\ IsA(q, j, "Post")' <=> IsA(q, j, "Post")
         /\ IsA(q, j, "Post") => slot'[q][j].value = slot[q][j].value
  BY <1>8, <1>9
<1>11. PostsOK'
  BY <1>1, <1>2, <1>10, PostsKept DEF DemoOK
<1>12. OwnersOK'
  <2>1. \A s \in DOMAIN Seeded : s \in DOMAIN users' /\ users'[s] = Seeded[s]
    BY <1>4 DEF DemoOK, OwnersOK
  <2>2. ASSUME NEW s \in DOMAIN users'
        PROVE  /\ IsFiniteSet(users'[s])
               /\ s \in DOMAIN Seeded \/ \E q \in Requests : \E j \in Fields(q) :
                    /\ IsA(q, j, "User")' /\ token(q).subject = s
                    /\ users'[s] = Roles(token(q))
    <3>1. CASE s \in DOMAIN users
      <4>1. /\ users'[s] = users[s] /\ IsFiniteSet(users[s])
            /\ s \in DOMAIN Seeded \/ \E q \in Requests : \E j \in Fields(q) :
                 /\ IsA(q, j, "User") /\ token(q).subject = s
                 /\ users[s] = Roles(token(q))
        BY <1>4, <3>1 DEF DemoOK, OwnersOK
      <4> QED
        BY <1>9, <4>1
    <3>2. CASE s \notin DOMAIN users
      <4>1. s = subject /\ users'[s] = Roles(token(r))
        BY <1>1, <1>4, <3>2
      <4> QED
        BY <1>5, <1>9, <4>1 DEF subject
    <3> QED
      BY <3>1, <3>2
  <2> QED
    BY <1>2, <2>1, <2>2 DEF OwnersOK
<1>13. ShownOK'
  <2> SUFFICES ASSUME NEW q \in Requests, NEW j \in Fields(q), IsA(q, j, "User")'
               PROVE  /\ slot'[q][j].value.key = token(q).subject
                      /\ token(q).subject \in DOMAIN users'
                      /\ RolesIn(slot'[q][j].value)
                           = users'[token(q).subject] \cup Roles(token(q))
    BY <1>2 DEF ShownOK, RolesIn
  <2>1. CASE q = r /\ j = i
    BY <1>1, <1>4, <1>6, <2>1 DEF subject
  <2>2. CASE q # r \/ j # i
    <3>1. IsA(q, j, "User") /\ slot'[q][j] = slot[q][j]
      BY <1>8, <1>9, <2>2
    <3> QED
      BY <1>4, <3>1 DEF DemoOK, ShownOK
  <2> QED
    BY <2>1, <2>2
<1>14. PostsInOrder'
  <2>1. \A q \in Requests : IsMutation(q) => q # r
    BY <1>1, DemoMutations
  <2>2. \A q \in Requests : IsMutation(q) => \A j \in Fields(q) : slot'[q][j] = slot[q][j]
    BY <1>8, <2>1
  <2> QED
    BY <1>2, <2>2 DEF DemoOK, PostsInOrder
<1> QED
  BY <1>11, <1>12, <1>13, <1>14 DEF DemoOK

LEMMA DemoSame ==
  ASSUME DemoOK, UNCHANGED <<workload, slot, users, postSeq>>
  PROVE  DemoOK'
<1>1. /\ Requests' = Requests /\ server' = server
      /\ \A q : Fields(q)' = Fields(q) /\ IsMutation(q)' = IsMutation(q)
  BY SameRequests
<1>2. PostsOK' /\ OwnersOK' /\ ShownOK'
  BY SameObjects DEF DemoOK, IsA
<1>3. PostsInOrder'
  BY <1>1 DEF DemoOK, PostsInOrder
<1> QED
  BY <1>2, <1>3 DEF DemoOK

LEMMA DemoOKInit == Init => DemoOK
<1> SUFFICES ASSUME Init
             PROVE  DemoOK
  OBVIOUS
<1>1. \A r \in Requests : \A i \in Fields(r) : slot[r][i] = EmptySlot
  BY DEF Init, ExecInit
<1>2. EmptySlot.value.kind = "nil"
  BY DEF EmptySlot, Nil
<1>3. \A r \in Requests : \A i \in Fields(r) : \A type : ~IsA(r, i, type)
  BY <1>1, <1>2 DEF IsA
<1>4. users = Seeded
  BY DEF Init, DemoInit
<1>5. OwnersOK
  BY <1>4, RolesAssumption DEF OwnersOK
<1>6. PostsOK /\ ShownOK
  BY <1>3 DEF PostsOK, ShownOK
<1>7. PostsInOrder
  BY <1>1, <1>2 DEF PostsInOrder
<1> QED
  BY <1>5, <1>6, <1>7 DEF DemoOK

LEMMA DemoOKStep == PointersInv /\ DemoOK /\ [Next]_vars => DemoOK'
<1> SUFFICES ASSUME PointersInv, DemoOK, [Next]_vars
             PROVE  DemoOK'
  OBVIOUS
<1>1. CASE UNCHANGED vars
  BY <1>1, DemoSame DEF vars
<1>2. ASSUME NEW r \in Requests, PhaseMoved(r), UNCHANGED <<users, postSeq>>
      PROVE  DemoOK'
  BY <1>2, DemoSame DEF PhaseMoved
<1>3. ASSUME NEW r \in Requests, NEW i \in Fields(r), WordsMoved(r, i),
             NothingMade(r, i) \/ PostMade(r, i) \/ UserFound(r, i)
      PROVE  DemoOK'
  BY <1>3, NothingMadeStep, PostMadeStep, UserFoundStep DEF PointersInv
<1> QED
  BY <1>1, <1>2, <1>3, ServersSteps DEF PointersInv

LEMMA DemoOKAlways == Spec => [](PointersInv /\ DemoOK)
<1>1. Init => PointersInv /\ DemoOK
  BY PointersInit, DemoOKInit
<1>2. PointersInv /\ DemoOK /\ [Next]_vars => (PointersInv /\ DemoOK)'
  BY PointersStep, DemoOKStep
<1> QED
  BY <1>1, <1>2, PTL DEF Spec

\* The whole invariant: of pointers and words, and of posts and users.
THEOREM ServersInvAlways == Spec => []ServersInv
<1>1. PointersInv /\ DemoOK => ServersInv
  BY PostsPointwise, UsersPointwise, ShownPointwise DEF DemoOK, DemoInv, ServersInv
<1> QED
  BY <1>1, DemoOKAlways, PTL

\* Every post was made for a token with the role editor or admin, by that
\* token's subject, and no two posts have one id.
THEOREM PostsAreAuthorizedAlways == Spec => []PostsAreAuthorized
<1>1. ServersInv => PostsAreAuthorized
  BY DEF ServersInv, DemoInv
<1> QED
  BY <1>1, ServersInvAlways, PTL

\* The fields of a mutation show and write as if one ran after the other,
\* and number the posts in their order.
THEOREM MutationsInOrderAlways == Spec => []MutationsInOrder
<1>1. ServersInv => MutationsInOrder
  <2> SUFFICES ASSUME ServersInv, NEW r \in Requests, IsMutation(r),
                      NEW i \in Fields(r), NEW j \in Fields(r)
               PROVE  /\ \A write \in slot[r][j].wrote, read \in slot[r][i].shown :
                           (write.of = read.of /\ write.word = read.word) =>
                             IF i < j THEN read.version < write.version
                                      ELSE write.version <= read.version
                      /\ (/\ i < j /\ slot[r][i].value.kind = "object"
                          /\ slot[r][j].value.kind = "object" /\ server = "demo")
                           => slot[r][i].value.key < slot[r][j].value.key
    BY DEF MutationsInOrder
  <2>1. WritesInOrder /\ PostsInOrder
    BY DEF ServersInv, PointersInv, DemoInv
  <2> QED
    BY <2>1 DEF WritesInOrder, PostsInOrder
<1> QED
  BY <1>1, ServersInvAlways, PTL

\* me shows the token's subject with its own and the stored roles: the seeded
\* ones, or those of one token that asked for that subject, the same for all.
THEOREM RolesShownAlways == Spec => []RolesShown
<1>1. ServersInv => RolesShown
  <2> SUFFICES ASSUME ServersInv, NEW a \in Returning("User")
               PROVE  LET subject == token(a[1]).subject
                          same == {b \in Returning("User") : token(b[1]).subject = subject}
                      IN /\ Result(a).key = subject
                         /\ \E stored \in IF subject \in DOMAIN Seeded
                                          THEN {Seeded[subject]}
                                          ELSE {Roles(token(b[1])) : b \in same} :
                              \A b \in same :
                                RolesIn(Result(b)) = stored \cup Roles(token(b[1]))
    BY DEF RolesShown
  <2> DEFINE subject == token(a[1]).subject
             same == {b \in Returning("User") : token(b[1]).subject = subject}
             candidates == IF subject \in DOMAIN Seeded THEN {Seeded[subject]}
                           ELSE {Roles(token(b[1])) : b \in same}
  <2>1. UsersOK /\ UsersShown
    BY DEF ServersInv, DemoInv
  <2>2. Result(a).key = subject /\ subject \in DOMAIN users
    BY <2>1 DEF UsersShown
  <2>3. users[subject] \in candidates
    <3>1. CASE subject \in DOMAIN Seeded
      BY <2>1, <3>1 DEF UsersOK
    <3>2. CASE subject \notin DOMAIN Seeded
      <4>1. PICK b \in Returning("User") :
              token(b[1]).subject = subject /\ users[subject] = Roles(token(b[1]))
        BY <2>1, <2>2, <3>2 DEF UsersOK
      <4> QED
        BY <3>2, <4>1
    <3> QED
      BY <3>1, <3>2
  <2>4. \A b \in same : RolesIn(Result(b)) = users[subject] \cup Roles(token(b[1]))
    BY <2>1 DEF UsersShown
  <2> QED
    BY <2>2, <2>3, <2>4
<1> QED
  BY <1>1, ServersInvAlways, PTL
=============================================================================
