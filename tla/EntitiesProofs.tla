---------------------------- MODULE EntitiesProofs ----------------------------
(***************************************************************************)
(* Proofs about _entities: for any representations, each entity comes to   *)
(* the place of its representation, whichever goroutines of whichever      *)
(* groups end first.                                                       *)
(***************************************************************************)
EXTENDS GraphQLServersProofs, DataInduction

-----------------------------------------------------------------------------
(* What the loop of buildRepresentationGroups computes *)

\* One turn of the loop for a type; `before` are the groups of the turns before.
Turn(before, reps, type, n) ==
  IF n = 0 THEN <<>>
  ELSE IF reps[n].type = type THEN Append(before[n - 1], n) ELSE before[n - 1]

Loop(f, reps, type, n) == f = [m \in 0..n |-> Turn(f, reps, type, m)]

LEMMA LoopExtends ==
  ASSUME NEW reps, NEW type, NEW n \in Nat, NEW f, Loop(f, reps, type, n)
  PROVE  \E g : Loop(g, reps, type, n + 1)
<1> DEFINE g == [m \in 0..(n + 1) |-> Turn(f, reps, type, m)]
<1>1. \A m \in 0..n : g[m] = f[m]
  <2>1. \A m \in 0..n : f[m] = Turn(f, reps, type, m)
    BY DEF Loop
  <2>2. \A m \in 0..n : m \in 0..(n + 1)
    OBVIOUS
  <2> QED
    BY <2>1, <2>2
<1>2. \A m \in 0..(n + 1) : Turn(g, reps, type, m) = Turn(f, reps, type, m)
  <2> HIDE DEF g
  <2>1. \A m \in 0..(n + 1) : m # 0 => m - 1 \in 0..n
    OBVIOUS
  <2> QED
    BY <1>1, <2>1 DEF Turn
<1>3. g = [m \in 0..(n + 1) |-> Turn(g, reps, type, m)]
  <2>1. [m \in 0..(n + 1) |-> Turn(g, reps, type, m)]
          = [m \in 0..(n + 1) |-> Turn(f, reps, type, m)]
    BY <1>2
  <2> QED
    BY <2>1
<1> HIDE DEF g
<1> QED
  BY <1>3 DEF Loop

LEMMA LoopExists ==
  ASSUME NEW reps, NEW type, NEW n \in Nat
  PROVE  \E f : Loop(f, reps, type, n)
<1> DEFINE G == {m \in Nat : \E f : Loop(f, reps, type, m)}
<1>1. 0 \in G
  <2> DEFINE f == [m \in 0..0 |-> <<>>]
  <2>1. Loop(f, reps, type, 0)
    BY DEF Loop, Turn
  <2> HIDE DEF f
  <2> QED
    BY <2>1
<1>2. ASSUME NEW m \in Nat, m \in G
      PROVE  m + 1 \in G
  <2>1. PICK f : Loop(f, reps, type, m)
    BY <1>2
  <2> QED
    BY <2>1, LoopExtends
<1> HIDE DEF G
<1>3. Nat \subseteq G
  BY <1>1, <1>2, SetInduction
<1> QED
  BY <1>3 DEF G

\* Of the first n representations, those of the type, in their order.
Selects(s, reps, type, n) ==
  /\ s \in Seq(1..n)
  /\ \A k \in DOMAIN s : reps[s[k]].type = type
  /\ \A k, l \in DOMAIN s : k < l => s[k] < s[l]
  /\ \A p \in 1..n : reps[p].type = type => \E k \in DOMAIN s : s[k] = p

LEMMA LoopSelects ==
  ASSUME NEW reps, NEW type, NEW n \in Nat, NEW f, Loop(f, reps, type, n)
  PROVE  \A m \in 0..n : Selects(f[m], reps, type, m)
<1> DEFINE G == {m \in Nat : m <= n => Selects(f[m], reps, type, m)}
<1>0. \A m \in 0..n : f[m] = Turn(f, reps, type, m)
  BY DEF Loop
<1>1. 0 \in G
  <2>1. f[0] = <<>>
    BY <1>0 DEF Turn
  <2>2. <<>> \in Seq(1..0) /\ DOMAIN <<>> = {} /\ 1..0 = {}
    OBVIOUS
  <2>3. Selects(<<>>, reps, type, 0)
    BY <2>2 DEF Selects
  <2> QED
    BY <2>1, <2>3
<1>2. ASSUME NEW m \in Nat, m \in G
      PROVE  m + 1 \in G
  <2> SUFFICES ASSUME m + 1 <= n
               PROVE  Selects(f[m + 1], reps, type, m + 1)
    OBVIOUS
  <2> DEFINE s == f[m]
             t == f[m + 1]
  <2>1. Selects(s, reps, type, m)
    BY <1>2
  <2>2. t = IF reps[m + 1].type = type THEN Append(s, m + 1) ELSE s
    BY <1>0 DEF Turn
  <2> HIDE DEF s, t, G
  <2>3. /\ s \in Seq(1..m) /\ s \in Seq(1..(m + 1))
        /\ \A k \in DOMAIN s : reps[s[k]].type = type
        /\ \A k, l \in DOMAIN s : k < l => s[k] < s[l]
        /\ \A p \in 1..m : reps[p].type = type => \E k \in DOMAIN s : s[k] = p
    <3>1. 1..m \subseteq 1..(m + 1)
      OBVIOUS
    <3> QED
      BY <2>1, <3>1 DEF Selects
  <2>4. CASE reps[m + 1].type = type
    <3>1. t = Append(s, m + 1)
      BY <2>2, <2>4
    <3>2. /\ Len(s) \in Nat /\ DOMAIN s = 1..Len(s)
          /\ t \in Seq(1..(m + 1)) /\ DOMAIN t = 1..(Len(s) + 1)
          /\ \A k \in 1..Len(s) : t[k] = s[k] /\ s[k] \in 1..m
          /\ t[Len(s) + 1] = m + 1
      BY <2>3, <3>1
    <3>3. \A k \in DOMAIN t : reps[t[k]].type = type
      <4> SUFFICES ASSUME NEW k \in DOMAIN t
                   PROVE  reps[t[k]].type = type
        OBVIOUS
      <4>1. k \in 1..Len(s) \/ k = Len(s) + 1
        BY <3>2
      <4> QED
        BY <2>3, <2>4, <3>2, <4>1
    <3>4. \A k, l \in DOMAIN t : k < l => t[k] < t[l]
      <4> SUFFICES ASSUME NEW k \in DOMAIN t, NEW l \in DOMAIN t, k < l
                   PROVE  t[k] < t[l]
        OBVIOUS
      <4>1. k \in 1..Len(s) /\ (l \in 1..Len(s) \/ l = Len(s) + 1)
        BY <3>2
      <4> QED
        BY <2>3, <3>2, <4>1
    <3>5. \A p \in 1..(m + 1) : reps[p].type = type => \E k \in DOMAIN t : t[k] = p
      <4> SUFFICES ASSUME NEW p \in 1..(m + 1), reps[p].type = type
                   PROVE  \E k \in DOMAIN t : t[k] = p
        OBVIOUS
      <4>1. CASE p = m + 1
        <5>1. Len(s) + 1 \in DOMAIN t
          BY <3>2
        <5> QED
          BY <3>2, <4>1, <5>1
      <4>2. CASE p \in 1..m
        <5>1. PICK k \in DOMAIN s : s[k] = p
          BY <2>3, <4>2
        <5>2. k \in DOMAIN t
          BY <3>2
        <5> QED
          BY <3>2, <5>1, <5>2
      <4> QED
        BY <4>1, <4>2
    <3> QED
      BY <3>2, <3>3, <3>4, <3>5 DEF Selects, t
  <2>5. CASE reps[m + 1].type # type
    <3>1. t = s
      BY <2>2, <2>5
    <3>2. \A p \in 1..(m + 1) : reps[p].type = type => p \in 1..m
      BY <2>5
    <3> QED
      BY <2>3, <3>1, <3>2 DEF Selects, t
  <2> QED
    BY <2>4, <2>5
<1>3. Nat \subseteq G
  <2> HIDE DEF G
  <2> QED
    BY <1>1, <1>2, SetInduction
<1> QED
  BY <1>3

\* The group of a type has the indexes of its representations, each once.
LEMMA GroupSelects ==
  ASSUME NEW reps, NEW type, Len(reps) \in Nat
  PROVE  Selects(Group(reps, type), reps, type, Len(reps))
<1>1. \E f : f = [n \in 0..Len(reps) |->
                    IF n = 0 THEN <<>>
                    ELSE IF reps[n].type = type THEN Append(f[n - 1], n)
                    ELSE f[n - 1]]
  <2>1. PICK f : Loop(f, reps, type, Len(reps))
    BY LoopExists
  <2>2. f = [n \in 0..Len(reps) |->
               IF n = 0 THEN <<>>
               ELSE IF reps[n].type = type THEN Append(f[n - 1], n)
               ELSE f[n - 1]]
    BY <2>1 DEF Loop, Turn
  <2> QED
    BY <2>2
<1>2. PICK f : Loop(f, reps, type, Len(reps)) /\ Group(reps, type) = f[Len(reps)]
  BY <1>1 DEF Group, Loop, Turn
<1>3. Len(reps) \in 0..Len(reps)
  OBVIOUS
<1> QED
  BY <1>2, <1>3, LoopSelects

\* As the resolvers of a group see it.
LEMMA GroupFacts ==
  ASSUME NEW reps, Len(reps) \in Nat, DOMAIN reps = 1..Len(reps)
  PROVE  /\ \A type : \A k \in DOMAIN Group(reps, type) :
              /\ Group(reps, type)[k] \in DOMAIN reps
              /\ reps[Group(reps, type)[k]].type = type
         /\ \A type : \A k, l \in DOMAIN Group(reps, type) :
              Group(reps, type)[k] = Group(reps, type)[l] => k = l
         /\ \A p \in DOMAIN reps : \E k \in DOMAIN Group(reps, reps[p].type) :
              Group(reps, reps[p].type)[k] = p
<1>1. ASSUME NEW type, NEW k \in DOMAIN Group(reps, type)
      PROVE  /\ Group(reps, type)[k] \in DOMAIN reps
             /\ reps[Group(reps, type)[k]].type = type
  BY GroupSelects DEF Selects
<1>2. ASSUME NEW type, NEW k \in DOMAIN Group(reps, type),
             NEW l \in DOMAIN Group(reps, type),
             Group(reps, type)[k] = Group(reps, type)[l]
      PROVE  k = l
  <2> DEFINE s == Group(reps, type)
  <2>1. /\ s \in Seq(1..Len(reps))
        /\ \A m, n \in DOMAIN s : m < n => s[m] < s[n]
    BY GroupSelects DEF Selects
  <2> HIDE DEF s
  <2>2. k \in DOMAIN s /\ l \in DOMAIN s /\ s[k] = s[l]
    BY <1>2 DEF s
  <2>3. k \in Nat /\ l \in Nat /\ s[k] \in Nat
    BY <2>1, <2>2
  <2> QED
    BY <2>1, <2>2, <2>3
<1>3. ASSUME NEW p \in DOMAIN reps
      PROVE  \E k \in DOMAIN Group(reps, reps[p].type) :
               Group(reps, reps[p].type)[k] = p
  <2> DEFINE type == reps[p].type
             s == Group(reps, type)
  <2>1. Selects(s, reps, type, Len(reps)) /\ p \in 1..Len(reps)
    BY GroupSelects
  <2> HIDE DEF s
  <2>2. \E k \in DOMAIN s : s[k] = p
    BY <2>1 DEF Selects
  <2> QED
    BY <2>2 DEF s
<1> QED
  BY <1>1, <1>2, <1>3

-----------------------------------------------------------------------------
(* Representations and their entities *)

\* No resolver takes a representation without a type.
LEMMA NoneUnresolvable ==
  ASSUME server \in {"todo", "employee"}
  PROVE  \A rep : rep.type = "none" => ~Resolvable(rep)
BY DEF Resolvable, EntityTypes

\* An _entities field is one of the two subgraphs, with a list of representations.
LEMMA EntitiesCalled ==
  ASSUME ServersTypeOK, NEW r \in Requests, NEW i \in Fields(r),
         Call(r, i).field = "_entities"
  PROVE  /\ server \in {"todo", "employee"}
         /\ Len(Representations(r, i)) \in Nat
         /\ DOMAIN Representations(r, i) = 1..Len(Representations(r, i))
<1> DEFINE req == workload.requests[r]
           root == IF req.operation = "mutation" THEN "Mutation" ELSE "Query"
<1>1. workload \in Workloads /\ r \in DOMAIN workload.requests /\ i \in DOMAIN req.calls
  BY DEF ServersTypeOK, Requests, Fields, request
<1>2. /\ req.calls[i].field \in DOMAIN Schema[workload.server][root]
      /\ server \in {"todo", "employee", "demo"}
      /\ req.calls[i].field = "_entities" =>
           /\ Len(req.calls[i].representations) \in Nat
           /\ DOMAIN req.calls[i].representations = 1..Len(req.calls[i].representations)
  BY <1>1, WorkloadAssumption DEF server
<1>3. "_entities" \notin DOMAIN Schema["demo"][root]
  <2>1. DOMAIN DemoSchema["Query"] = {"publicInfo", "me"}
    BY DEF DemoSchema
  <2>2. DOMAIN DemoSchema["Mutation"] = {"createPost"}
    BY DEF DemoSchema
  <2>3. DOMAIN IntrospectionSchema["Query"] = {"__schema", "__type"}
    BY DEF IntrospectionSchema
  <2>4. {"Query", "Mutation"} \subseteq DOMAIN DemoSchema
    BY DEF DemoSchema
  <2>5. "Query" \in DOMAIN IntrospectionSchema /\ "Mutation" \notin DOMAIN IntrospectionSchema
    BY DEF IntrospectionSchema
  <2>6. Schema["demo"] = Extended(DemoSchema, IntrospectionSchema)
    BY DEF Schema
  <2>7. /\ Schema["demo"]["Mutation"] = DemoSchema["Mutation"]
        /\ DOMAIN Schema["demo"]["Query"]
             = DOMAIN DemoSchema["Query"] \cup DOMAIN IntrospectionSchema["Query"]
    BY <2>4, <2>5, <2>6 DEF Extended
  <2>8. DOMAIN Schema["demo"]["Query"] = {"publicInfo", "me", "__schema", "__type"}
    BY <2>1, <2>3, <2>7
  <2> QED
    BY <2>2, <2>7, <2>8
<1> QED
  BY <1>1, <1>2, <1>3 DEF server, Call, request, Representations

LEMMA SlotAfter ==
  ASSUME ServersTypeOK, NEW r \in Requests, NEW i \in Fields(r), NEW new,
         Update(r, i, new)
  PROVE  slot'[r][i] = new
<1>1. slot = [q \in Requests |-> [j \in Fields(q) |-> slot[q][j]]]
  BY DEF ServersTypeOK
<1> QED
  BY <1>1 DEF Update

\* The list is made: every representation with a type is pending.
LEMMA PlacedAtStart ==
  ASSUME server \in {"todo", "employee"},
         NEW reps, Len(reps) \in Nat, DOMAIN reps = 1..Len(reps),
         NEW s, s.st = "resolving", s.value = List([k \in DOMAIN reps |-> Nil]),
         s.failed = {k \in DOMAIN reps : reps[k].type = "none"},
         s.left = UNION {{<<type, k>> : k \in DOMAIN Group(reps, type)}
                           : type \in GroupNames(reps)}
  PROVE  Placed(reps, s)
<1>1. /\ s.value = List(s.value.items) /\ DOMAIN s.value.items = DOMAIN reps
      /\ \A p \in DOMAIN reps : s.value.items[p] = Nil
  BY DEF List
<1>2. \A task \in s.left : /\ task = <<task[1], task[2]>>
                           /\ task[1] \in GroupNames(reps)
                           /\ task[2] \in DOMAIN Group(reps, task[1])
  OBVIOUS
<1>3. ASSUME NEW p \in DOMAIN reps
      PROVE  Pending(reps, s, p) <=> reps[p].type # "none"
  <2>1. ASSUME reps[p].type # "none"
        PROVE  Pending(reps, s, p)
    <3>1. PICK k \in DOMAIN Group(reps, reps[p].type) :
            Group(reps, reps[p].type)[k] = p
      <4>1. \A q \in DOMAIN reps : \E k \in DOMAIN Group(reps, reps[q].type) :
              Group(reps, reps[q].type)[k] = q
        BY GroupFacts
      <4> QED
        BY <4>1
    <3>2. reps[p].type \in GroupNames(reps)
      BY <2>1 DEF GroupNames
    <3>3. <<reps[p].type, k>> \in s.left
      BY <3>2
    <3> QED
      BY <3>1, <3>3 DEF Pending
  <2>2. ASSUME Pending(reps, s, p)
        PROVE  reps[p].type # "none"
    <3>1. PICK task \in s.left : Group(reps, task[1])[task[2]] = p
      BY <2>2 DEF Pending
    <3>2. reps[p].type = task[1]
      BY <1>2, <3>1, GroupFacts
    <3> QED
      BY <1>2, <3>2 DEF GroupNames
  <2> QED
    BY <2>1, <2>2
<1>4. \A p \in DOMAIN reps : PlaceOK(reps, s, p)
  BY <1>1, <1>3, NoneUnresolvable DEF PlaceOK
<1> QED
  BY <1>1, <1>2, <1>4 DEF Placed

\* What a resolver answers to a representation.
Fits(rep, entity) ==
  /\ entity = Failed <=> ~Resolvable(rep)
  /\ entity \notin {Failed, Nil} => entity.type = rep.type /\ entity.key = rep.id
  /\ rep.type = "Employee" /\ server = "todo" => entity # Nil

\* From s to t the entity of a representation took its place.
Took(s, place, entity, t) ==
  /\ t.st = "resolving"
  /\ IF entity = Failed
     THEN t.failed = s.failed \cup {place} /\ t.value = s.value
     ELSE t.failed = s.failed /\ t.value = [s.value EXCEPT !.items[place] = entity]

\* A goroutine ends: its representation gets what the resolver answered.
LEMMA PlacedAtEnd ==
  ASSUME NEW reps, Len(reps) \in Nat, DOMAIN reps = 1..Len(reps),
         NEW s, Placed(reps, s), s.st = "resolving",
         NEW task, task \in s.left, NEW place, place = Group(reps, task[1])[task[2]],
         NEW entity, Fits(reps[place], entity),
         NEW t, Took(s, place, entity, t), t.left = s.left \ {<<task[1], task[2]>>}
  PROVE  Placed(reps, t)
<1>1. /\ task = <<task[1], task[2]>> /\ task[2] \in DOMAIN Group(reps, task[1])
      /\ place \in DOMAIN reps
  BY GroupFacts DEF Placed
<1>2. s.value = List(s.value.items) /\ DOMAIN s.value.items = DOMAIN reps
  BY DEF Placed
<1>3. /\ t.value = List(t.value.items) /\ DOMAIN t.value.items = DOMAIN reps
      /\ \A p \in DOMAIN reps : p # place => t.value.items[p] = s.value.items[p]
      /\ t.value.items[place] = IF entity = Failed THEN s.value.items[place] ELSE entity
  <2>1. CASE entity = Failed
    BY <1>2, <2>1 DEF Took
  <2>2. CASE entity # Failed
    <3> DEFINE items == [s.value.items EXCEPT ![place] = entity]
    <3>0. t.value = [s.value EXCEPT !.items[place] = entity]
      BY <2>2 DEF Took
    <3>1. t.value = List(items)
      BY <1>2, <3>0, SMTT(40) DEF List
    <3>2. /\ DOMAIN items = DOMAIN reps /\ items[place] = entity
          /\ \A p \in DOMAIN reps : p # place => items[p] = s.value.items[p]
      BY <1>1, <1>2
    <3> HIDE DEF items
    <3>3. t.value.items = items
      BY <3>1 DEF List
    <3> QED
      BY <2>2, <3>1, <3>2, <3>3
  <2> QED
    BY <2>1, <2>2
<1>4. Pending(reps, s, place) /\ ~Pending(reps, t, place)
  <2>1. Pending(reps, s, place)
    BY DEF Pending
  <2>2. ASSUME NEW other \in t.left, Group(reps, other[1])[other[2]] = place
        PROVE  FALSE
    <3>1. other \in s.left /\ other # task
      BY <1>1
    <3>2. other = <<other[1], other[2]>> /\ other[2] \in DOMAIN Group(reps, other[1])
      BY <3>1 DEF Placed
    <3>3. other[1] = task[1]
      BY <1>1, <2>2, <3>2, GroupFacts
    <3>4. other[2] = task[2]
      BY <1>1, <2>2, <3>2, <3>3, GroupFacts
    <3> QED
      BY <1>1, <3>1, <3>2, <3>3, <3>4
  <2> QED
    BY <2>1, <2>2 DEF Pending
<1>5. ASSUME NEW p \in DOMAIN reps, p # place
      PROVE  Pending(reps, t, p) <=> Pending(reps, s, p)
  <2>1. \A other \in s.left : Group(reps, other[1])[other[2]] = p => other \in t.left
    BY <1>1, <1>5
  <2> QED
    BY <2>1 DEF Pending
<1>6. ASSUME NEW p \in DOMAIN reps
      PROVE  PlaceOK(reps, t, p)
  <2>1. PlaceOK(reps, s, p)
    BY DEF Placed
  <2>2. CASE p # place
    <3>1. p \in t.failed <=> p \in s.failed
      BY <2>2 DEF Took
    <3> QED
      BY <1>3, <1>5, <2>1, <2>2, <3>1 DEF PlaceOK
  <2>3. CASE p = place
    <3>1. s.value.items[p] = Nil /\ p \notin s.failed
      BY <1>4, <2>1, <2>3 DEF PlaceOK
    <3>2. ~Pending(reps, t, p)
      BY <1>4, <2>3
    <3>3. CASE entity = Failed
      <4>1. p \in t.failed /\ t.value.items[p] = Nil /\ ~Resolvable(reps[p])
        BY <1>3, <2>3, <3>1, <3>3 DEF Fits, Took
      <4> QED
        BY <3>2, <4>1 DEF PlaceOK
    <3>4. CASE entity # Failed
      <4>1. p \notin t.failed /\ t.value.items[p] = entity /\ Resolvable(reps[p])
        BY <1>3, <2>3, <3>1, <3>4 DEF Fits, Took
      <4> QED
        BY <2>3, <3>2, <3>4, <4>1 DEF PlaceOK, Fits
    <3> QED
      BY <3>3, <3>4
  <2> QED
    BY <2>2, <2>3
<1> QED
  BY <1>3, <1>6 DEF Placed, Took

\* Marshalling changes nothing of it.
LEMMA PlacedOnward ==
  ASSUME NEW reps, NEW s, Placed(reps, s), s.left = {}, NEW t,
         t.value = s.value, t.failed = s.failed, t.left = s.left
  PROVE  Placed(reps, t)
BY DEF Placed, PlaceOK, Pending

LEMMA SettledKeeps ==
  ASSUME NEW s, IsSlot(s)
  PROVE  /\ Settled(s).value = s.value /\ Settled(s).failed = s.failed
         /\ Settled(s).left = s.left /\ Settled(s).st \in {"marshalling", "done"}
<1> DEFINE st == IF \A p \in LivePlaces(s.value) : Unread(s, p) = {}
                  THEN "done" ELSE "marshalling"
<1>1. Settled(s) = [s EXCEPT !.st = st] /\ st \in {"marshalling", "done"}
  BY DEF Settled
<1> HIDE DEF st
<1> QED
  BY <1>1 DEF IsSlot

LEMMA CollectedPlaced ==
  ASSUME NEW reps, NEW s, IsSlot(s), s.st = "resolving", Placed(reps, s)
  PROVE  Placed(reps, Collected(s)) /\ Collected(s).st \notin {"waiting", "writing"}
<1>1. CASE s.left = {}
  <2>1. Collected(s) = Settled(s)
    BY <1>1 DEF Collected
  <2> QED
    BY <1>1, <2>1, SettledKeeps, PlacedOnward
<1>2. CASE s.left # {}
  BY <1>2 DEF Collected
<1> QED
  BY <1>1, <1>2

-----------------------------------------------------------------------------
(* What a step does to a field that is _entities *)

\* The field's slot is as PlacesOK demands after the step.
StaysPlaced(r, i) ==
  Call(r, i).field = "_entities" =>
    /\ slot'[r][i].st # "writing"
    /\ slot'[r][i].value # Failed => Placed(Representations(r, i), slot'[r][i])

LEMMA StartPlaced ==
  ASSUME ServersTypeOK, NEW r \in Requests, NEW i \in Fields(r), ResolveEntities(r, i)
  PROVE  StaysPlaced(r, i)
<1> DEFINE reps == Representations(r, i)
           s == slot[r][i]
<1>1. IsSlot(s) /\ Call(r, i).field = "_entities"
  BY DEF ServersTypeOK, ResolveEntities, Starts
<1>2. server \in {"todo", "employee"} /\ Len(reps) \in Nat /\ DOMAIN reps = 1..Len(reps)
  BY <1>1, EntitiesCalled
<1>3. CASE ArgumentsFail(reps)
  <2>1. slot'[r][i] = Returned(s, Failed)
    BY <1>3, SlotAfter DEF ResolveEntities
  <2> HIDE DEF s
  <2>2. slot'[r][i].st \in {"marshalling", "done"} /\ slot'[r][i].value = Failed
    BY <1>1, <2>1, ReturnedMeans
  <2> QED
    BY <2>2 DEF StaysPlaced
<1>4. CASE ~ArgumentsFail(reps)
  <2> DEFINE nils == List([k \in DOMAIN reps |-> Nil])
             failed == {k \in DOMAIN reps : reps[k].type = "none"}
             left == UNION {{<<type, k>> : k \in DOMAIN Group(reps, type)}
                              : type \in GroupNames(reps)}
             new == [s EXCEPT !.st = "resolving", !.value = nils,
                              !.failed = failed, !.left = left]
  <2>1. slot'[r][i] = Collected(new)
    BY <1>4, SlotAfter DEF ResolveEntities
  <2>2. /\ IsSlot(new) /\ new.st = "resolving" /\ new.value = nils
        /\ new.failed = failed /\ new.left = left
    <3> HIDE DEF nils, s, failed, left
    <3>1. DOMAIN s = {"st", "value", "left", "failed", "shown", "wrote"}
      BY <1>1 DEF IsSlot
    <3>2. /\ new["st"] = "resolving" /\ new["value"] = nils
          /\ new["left"] = left /\ new["failed"] = failed
          /\ new["shown"] = s.shown /\ new["wrote"] = s.wrote
      BY <3>1
    <3>3. new = [f \in DOMAIN s |-> new[f]]
      OBVIOUS
    <3>4. new = [st |-> "resolving", value |-> nils, left |-> left,
                 failed |-> failed, shown |-> s.shown, wrote |-> s.wrote]
      <4> HIDE DEF new
      <4> QED
        BY <3>1, <3>2, <3>3
    <3> HIDE DEF new
    <3> QED
      BY <3>4 DEF IsSlot
  <2> HIDE DEF new, reps, s
  <2>3. Placed(reps, new)
    BY <1>2, <2>2, PlacedAtStart
  <2>4. Placed(reps, Collected(new)) /\ Collected(new).st # "writing"
    BY <2>2, <2>3, CollectedPlaced
  <2> QED
    BY <2>1, <2>4 DEF StaysPlaced, reps
<1> QED
  BY <1>3, <1>4

LEMMA EndPlaced ==
  ASSUME ServersTypeOK, StagesOK, PlacesOK,
         NEW r \in Requests, NEW i \in Fields(r), Call(r, i).field = "_entities",
         NEW task \in slot[r][i].left, slot[r][i].st = "resolving",
         NEW entity, Fits(Rep(r, i, task[1], task[2]), entity),
         EntityReturned(r, i, task[1], task[2], entity)
  PROVE  StaysPlaced(r, i)
<1> DEFINE reps == Representations(r, i)
           s == slot[r][i]
           place == IndexOf(r, i, task[1], task[2])
           rest == [s EXCEPT !.left = @ \ {<<task[1], task[2]>>}]
           ended == IF entity = Failed THEN [rest EXCEPT !.failed = @ \cup {place}]
                    ELSE [rest EXCEPT !.value.items[place] = entity]
<1>1. IsSlot(s) /\ s.st = "resolving" /\ s.value = List(s.value.items)
  BY DEF ServersTypeOK, StagesOK
<1>2. server \in {"todo", "employee"} /\ Len(reps) \in Nat /\ DOMAIN reps = 1..Len(reps)
  BY EntitiesCalled
<1>3. s.value # Failed
  BY <1>1 DEF List, Failed
<1>4. Placed(reps, s)
  BY <1>1, <1>3 DEF PlacesOK
<1>5. slot'[r][i] = Collected(ended)
  BY SlotAfter DEF EntityReturned, EntityAt
<1>6. place = Group(reps, task[1])[task[2]] /\ Fits(reps[place], entity)
  BY DEF IndexOf, Rep
<1>7. task \in s.left
  OBVIOUS
<1> HIDE DEF s, place, reps
<1>8. /\ IsSlot(rest) /\ rest.st = "resolving" /\ rest.value = s.value
      /\ rest.failed = s.failed /\ rest.left = s.left \ {<<task[1], task[2]>>}
  BY <1>1 DEF IsSlot
<1> HIDE DEF rest
<1>9. /\ IsSlot(ended) /\ ended.st = "resolving" /\ ended.left = rest.left
      /\ IF entity = Failed
         THEN ended.failed = rest.failed \cup {place} /\ ended.value = rest.value
         ELSE /\ ended.failed = rest.failed
              /\ ended.value = [rest.value EXCEPT !.items[place] = entity]
  <2>1. CASE entity = Failed
    BY <1>8, <2>1 DEF IsSlot
  <2>2. CASE entity # Failed
    BY <1>8, <2>2 DEF IsSlot
  <2> QED
    BY <2>1, <2>2
<1> HIDE DEF ended
<1>10. Placed(reps, ended)
  <2>1. ended.left = s.left \ {<<task[1], task[2]>>} /\ Took(s, place, entity, ended)
    BY <1>8, <1>9 DEF Took
  <2> QED
    BY <1>1, <1>2, <1>4, <1>6, <1>7, <2>1, PlacedAtEnd
<1>11. Placed(reps, Collected(ended)) /\ Collected(ended).st # "writing"
  BY <1>9, <1>10, CollectedPlaced
<1> QED
  BY <1>5, <1>11 DEF StaysPlaced, reps

\* A field of another name is none of this.
LEMMA OtherNames ==
  ASSUME NEW r, NEW i, NEW name, name # "_entities", Call(r, i).field = name
  PROVE  StaysPlaced(r, i)
BY DEF StaysPlaced

\* todo-server: any id is an employee, and a todo is there or is not.
LEMMA TodoFits ==
  ASSUME server = "todo", NEW rep, NEW entity \in TodoEntities(rep)
  PROVE  Fits(rep, entity)
<1>1. \A id : /\ TodoNamed(id).kind = "object" /\ TodoNamed(id).type = "Todo"
              /\ TodoNamed(id).key = id
  BY DEF TodoNamed, Object
<1>2. \A id, todos : /\ FindEmployee(id, todos).kind = "object"
                     /\ FindEmployee(id, todos).type = "Employee"
                     /\ FindEmployee(id, todos).key = id
  BY DEF FindEmployee, Object
<1>3. Failed.kind = "failed" /\ Nil.kind = "nil"
  BY DEF Failed, Nil
<1>4. Resolvable(rep) => rep.type \in {"Employee", "Todo"}
  BY DEF Resolvable, EntityTypes
<1>5. CASE ~Resolvable(rep)
  <2>1. entity = Failed
    BY <1>5 DEF TodoEntities
  <2> QED
    BY <1>3, <1>5, <2>1 DEF Fits
<1>6. CASE Resolvable(rep) /\ rep.type = "Employee"
  <2>1. \E todos \in TodoLists : entity = FindEmployee(rep.id, todos)
    BY <1>6 DEF TodoEntities
  <2> QED
    BY <1>2, <1>3, <1>6, <2>1 DEF Fits
<1>7. CASE Resolvable(rep) /\ rep.type = "Todo"
  <2>1. entity \in {Nil, TodoNamed(rep.id)}
    BY <1>7 DEF TodoEntities
  <2> QED
    BY <1>1, <1>3, <1>7, <2>1 DEF Fits
<1> QED
  BY <1>4, <1>5, <1>6, <1>7

\* graphql-server: an employee is there or is not.
LEMMA EmployeeFits ==
  ASSUME server = "employee", NEW rep
  PROVE  Fits(rep, IF Resolvable(rep) THEN Find(rep.id) ELSE Failed)
<1>1. \A id : Live(id).kind = "live" /\ Live(id).type = "Employee" /\ Live(id).key = id
  BY DEF Live
<1>2. Failed.kind = "failed" /\ Nil.kind = "nil"
  BY DEF Failed, Nil
<1>3. Resolvable(rep) => rep.type = "Employee"
  BY DEF Resolvable, EntityTypes
<1> QED
  BY <1>1, <1>2, <1>3 DEF Fits, Find

-----------------------------------------------------------------------------
(* The invariant *)

LEMMA TodoStaysPlaced ==
  ASSUME ServersTypeOK, StagesOK, PlacesOK,
         NEW r \in Requests, NEW i \in Fields(r), TodoStep(r, i)
  PROVE  StaysPlaced(r, i)
<1>1. ASSUME NEW field, Starts(r, i, field), field # "_entities"
      PROVE  StaysPlaced(r, i)
  BY <1>1, OtherNames DEF Starts
<1>2. CASE EmployeeTodos(r, i)
  BY <1>1, <1>2 DEF EmployeeTodos
<1>3. CASE TodoByID(r, i)
  BY <1>1, <1>3 DEF TodoByID
<1>4. CASE MutateTodo(r, i)
  BY <1>1, <1>4 DEF MutateTodo
<1>5. CASE ResolveTodoEntity(r, i)
  <2>1. PICK task \in slot[r][i].left :
          /\ slot[r][i].st = "resolving"
          /\ \E entity \in TodoEntities(Rep(r, i, task[1], task[2])) :
               EntityReturned(r, i, task[1], task[2], entity)
    BY <1>5 DEF ResolveTodoEntity, Resolving
  <2>2. PICK entity \in TodoEntities(Rep(r, i, task[1], task[2])) :
          EntityReturned(r, i, task[1], task[2], entity)
    BY <2>1
  <2>3. server = "todo"
    BY DEF TodoStep
  <2>4. Fits(Rep(r, i, task[1], task[2]), entity)
    BY <2>3, TodoFits
  <2>5. CASE Call(r, i).field = "_entities"
    BY <2>1, <2>2, <2>4, <2>5, EndPlaced
  <2>6. CASE Call(r, i).field # "_entities"
    BY <2>6 DEF StaysPlaced
  <2> QED
    BY <2>5, <2>6
<1> QED
  BY <1>2, <1>3, <1>4, <1>5 DEF TodoStep

LEMMA EmployeeStaysPlaced ==
  ASSUME ServersTypeOK, StagesOK, PlacesOK,
         NEW r \in Requests, NEW i \in Fields(r), EmployeeStep(r, i)
  PROVE  StaysPlaced(r, i)
<1>1. ASSUME NEW field, Starts(r, i, field), field # "_entities"
      PROVE  StaysPlaced(r, i)
  BY <1>1, OtherNames DEF Starts
<1>2. CASE EmployeeByID(r, i)
  BY <1>1, <1>2 DEF EmployeeByID
<1>3. CASE ListEmployees(r, i)
  BY <1>1, <1>3 DEF ListEmployees
<1>4. CASE StartUpdate(r, i)
  BY <1>1, <1>4 DEF StartUpdate
<1>5. CASE slot[r][i].st = "writing"
  BY <1>5 DEF PlacesOK, StaysPlaced
<1>6. CASE ResolveEmployeeEntity(r, i)
  <2>1. PICK task \in slot[r][i].left :
          /\ slot[r][i].st = "resolving"
          /\ EntityReturned(r, i, task[1], task[2],
               IF Resolvable(Rep(r, i, task[1], task[2]))
               THEN Find(Rep(r, i, task[1], task[2]).id) ELSE Failed)
    BY <1>6 DEF ResolveEmployeeEntity, Resolving
  <2> DEFINE rep == Rep(r, i, task[1], task[2])
             entity == IF Resolvable(rep) THEN Find(rep.id) ELSE Failed
  <2>2. Fits(rep, entity)
    BY EmployeeFits DEF EmployeeStep
  <2>3. EntityReturned(r, i, task[1], task[2], entity)
    BY <2>1
  <2> HIDE DEF entity
  <2>4. CASE Call(r, i).field = "_entities"
    BY <2>1, <2>2, <2>3, <2>4, EndPlaced
  <2>5. CASE Call(r, i).field # "_entities"
    BY <2>5 DEF StaysPlaced
  <2> QED
    BY <2>4, <2>5
<1>7. CASE ReadWord(r, i)
  <2> SUFFICES ASSUME Call(r, i).field = "_entities"
               PROVE  StaysPlaced(r, i)
    BY DEF StaysPlaced
  <2> DEFINE s == slot[r][i]
  <2>1. IsSlot(s) /\ s.st = "marshalling"
    BY <1>7 DEF ServersTypeOK, ReadWord
  <2>2. PICK shown : Update(r, i, Settled([s EXCEPT !.shown = shown]))
    BY <1>7 DEF ReadWord, Show
  <2> DEFINE t == [s EXCEPT !.shown = shown]
  <2>3. slot'[r][i] = Settled(t)
    BY <2>2, SlotAfter
  <2>4. s.value # Failed => Placed(Representations(r, i), s)
    BY <2>1 DEF PlacesOK
  <2> HIDE DEF s
  <2>5. /\ IsSlot(t) /\ t.value = s.value /\ t.failed = s.failed /\ t.left = s.left
    BY <2>1 DEF IsSlot
  <2> HIDE DEF t
  <2> DEFINE u == Settled(t)
  <2>6. /\ u.value = s.value /\ u.failed = s.failed /\ u.left = s.left
        /\ u.st \in {"marshalling", "done"}
    BY <2>5, SettledKeeps
  <2> HIDE DEF u
  <2>7. s.value # Failed => Placed(Representations(r, i), u)
    <3>1. s.value # Failed => s.left = {}
      BY <2>1, <2>4 DEF Placed
    <3> QED
      BY <2>4, <2>6, <3>1, PlacedOnward
  <2> QED
    BY <2>3, <2>6, <2>7 DEF StaysPlaced, u
<1> QED
  BY <1>2, <1>3, <1>4, <1>5, <1>6, <1>7 DEF EmployeeStep, WriteWord, FinishUpdate

\* No field of demo-opa-graphql is _entities.
LEMMA DemoStaysPlaced ==
  ASSUME ServersTypeOK, NEW r \in Requests, NEW i \in Fields(r), DemoStep(r, i)
  PROVE  StaysPlaced(r, i)
<1>1. server = "demo"
  BY DEF DemoStep
<1>2. Call(r, i).field # "_entities"
  BY <1>1, EntitiesCalled
<1> QED
  BY <1>2 DEF StaysPlaced

\* Every step moves a request, or the one field whose slot stays placed.
LEMMA EntitiesSteps ==
  ASSUME PointersInv, PlacesOK, [Next]_vars
  PROVE  \/ UNCHANGED <<workload, slot>>
         \/ \E r \in Requests : \E i \in Fields(r) :
              OtherFields(r, i) /\ StaysPlaced(r, i)
<1> USE DEF PointersInv
<1>1. ASSUME NEW r \in Requests, Arrive(r)
      PROVE  UNCHANGED <<workload, slot>>
  BY <1>1 DEF Arrive, Begin, Refuse
<1>2. ASSUME NEW r \in Requests, Answer(r)
      PROVE  UNCHANGED <<workload, slot>>
  BY <1>2 DEF Answer
<1>3. ASSUME NEW r \in Requests, NEW i \in Fields(r), ResolveStatic(r, i),
             UNCHANGED <<employees, users, postSeq>>
      PROVE  OtherFields(r, i) /\ StaysPlaced(r, i)
  <2>1. OtherFields(r, i)
    BY <1>3, StaticStep DEF Resolved
  <2>2. Call(r, i).field \in {"__type", "__schema", "_service"}
    BY <1>3 DEF ResolveStatic, Starts
  <2> QED
    BY <2>1, <2>2, OtherNames
<1>4. ASSUME NEW r \in Requests, NEW i \in Fields(r), ResolveEntities(r, i),
             UNCHANGED <<employees, users, postSeq>>
      PROVE  OtherFields(r, i) /\ StaysPlaced(r, i)
  BY <1>4, EntitiesStep, StartPlaced DEF Resolved
<1>5. ASSUME NEW r \in Requests, NEW i \in Fields(r), TodoStep(r, i),
             UNCHANGED <<employees, users, postSeq>>
      PROVE  OtherFields(r, i) /\ StaysPlaced(r, i)
  BY <1>5, TodoSteps, TodoStaysPlaced DEF Resolved
<1>6. ASSUME NEW r \in Requests, NEW i \in Fields(r), EmployeeStep(r, i)
      PROVE  OtherFields(r, i) /\ StaysPlaced(r, i)
  <2>1. WordsMoved(r, i)
    BY <1>6, EmployeeSteps
  <2>2. OtherFields(r, i)
    BY <2>1, Acting
  <2> QED
    BY <1>6, <2>2, EmployeeStaysPlaced
<1>7. ASSUME NEW r \in Requests, NEW i \in Fields(r), DemoStep(r, i), UNCHANGED employees
      PROVE  OtherFields(r, i) /\ StaysPlaced(r, i)
  BY <1>7, DemoSteps, DemoStaysPlaced DEF Resolved
<1> QED
  BY <1>1, <1>2, <1>3, <1>4, <1>5, <1>6, <1>7 DEF Next, RequestStep, Finished, vars

\* Every field that is _entities has what its goroutines have left in place.
LEMMA PlacesStep == PointersInv /\ PlacesOK /\ [Next]_vars => PlacesOK'
<1> SUFFICES ASSUME PointersInv, PlacesOK, [Next]_vars
             PROVE  PlacesOK'
  OBVIOUS
<1>1. UNCHANGED workload
  BY EntitiesSteps DEF OtherFields
<1>2. /\ Requests' = Requests /\ server' = server
      /\ \A q : Fields(q)' = Fields(q)
      /\ \A q, j : Call(q, j)' = Call(q, j)
  BY <1>1, SameRequests
<1>3. ASSUME NEW q \in Requests, NEW j \in Fields(q), Call(q, j).field = "_entities"
      PROVE  /\ slot'[q][j].st # "writing"
             /\ (slot'[q][j].st # "waiting" /\ slot'[q][j].value # Failed)
                  => Placed(Representations(q, j), slot'[q][j])
  <2>1. /\ slot[q][j].st # "writing"
        /\ (slot[q][j].st # "waiting" /\ slot[q][j].value # Failed)
             => Placed(Representations(q, j), slot[q][j])
    BY <1>3 DEF PlacesOK
  <2>2. CASE UNCHANGED slot
    BY <2>1, <2>2
  <2>3. ASSUME NEW r \in Requests, NEW i \in Fields(r),
               OtherFields(r, i), StaysPlaced(r, i)
        PROVE  \/ slot'[q][j] = slot[q][j]
               \/ q = r /\ j = i
    BY <2>3 DEF OtherFields
  <2> QED
    BY <1>3, <2>1, <2>2, <2>3, EntitiesSteps DEF StaysPlaced
<1>4. ASSUME NEW q \in Requests, NEW j \in Fields(q),
             Placed(Representations(q, j), slot'[q][j])
      PROVE  Placed(Representations(q, j), slot[q][j])'
  BY <1>2, <1>4 DEF Placed, PlaceOK, Pending, Resolvable, Representations
<1> QED
  BY <1>2, <1>3, <1>4 DEF PlacesOK

LEMMA PlacesInit == Init => PlacesOK
<1>1. ASSUME Init, NEW r \in Requests, NEW i \in Fields(r)
      PROVE  slot[r][i].st = "waiting"
  BY <1>1 DEF Init, ExecInit, EmptySlot
<1> QED
  BY <1>1 DEF PlacesOK

\* At any moment each representation of an _entities field is either still
\* with its goroutine, and its place empty, or has its entity or its error
\* (list[rep.index] = entity and e.Done in __resolve_entities).
THEOREM EntitiesInvAlways == Spec => []EntitiesInv
<1>1. Init => EntitiesInv
  BY PointersInit, PlacesInit DEF EntitiesInv
<1>2. EntitiesInv /\ [Next]_vars => EntitiesInv'
  BY PointersStep, PlacesStep DEF EntitiesInv
<1> QED
  BY <1>1, <1>2, PTL DEF Spec

\* Whatever representations an _entities field has, and in whichever order the
\* goroutines of its groups end, its answer has at the place of each
\* representation the entity of its type and key, or null, with an error
\* exactly for those no resolver takes.
THEOREM EntitiesInPlaceAlways == Spec => []EntitiesInPlace
<1>1. EntitiesInv => EntitiesInPlace
  <2> SUFFICES ASSUME EntitiesInv, NEW r \in Answered, NEW i \in Fields(r),
                      Call(r, i).field = "_entities", slot[r][i].value # Failed
               PROVE  LET reps == Representations(r, i)
                          list == slot[r][i].value.items
                      IN /\ DOMAIN list = DOMAIN reps
                         /\ \A k \in DOMAIN reps :
                              /\ k \in slot[r][i].failed <=> ~Resolvable(reps[k])
                              /\ list[k] # Nil => /\ list[k].type = reps[k].type
                                                  /\ list[k].key = reps[k].id
                                                  /\ k \notin slot[r][i].failed
                              /\ reps[k].type = "Employee" /\ server = "todo"
                                   /\ list[k] = Nil => k \in slot[r][i].failed
    BY DEF EntitiesInPlace
  <2> DEFINE reps == Representations(r, i)
             s == slot[r][i]
  <2>1. r \in Requests /\ s.st = "done"
    BY DEF Answered, EntitiesInv, PointersInv, StagesOK, Done
  <2>2. Placed(reps, s)
    BY <2>1 DEF EntitiesInv, PlacesOK
  <2> HIDE DEF reps, s
  <2>3. DOMAIN s.value.items = DOMAIN reps /\ s.left = {}
    BY <2>1, <2>2 DEF Placed
  <2>4. \A p \in DOMAIN reps : ~Pending(reps, s, p) /\ PlaceOK(reps, s, p)
    BY <2>2, <2>3 DEF Placed, Pending
  <2>5. \A p \in DOMAIN reps :
          /\ p \in s.failed <=> ~Resolvable(reps[p])
          /\ s.value.items[p] # Nil => /\ s.value.items[p].type = reps[p].type
                                       /\ s.value.items[p].key = reps[p].id
                                       /\ p \notin s.failed
          /\ reps[p].type = "Employee" /\ server = "todo" /\ s.value.items[p] = Nil
               => p \in s.failed
    BY <2>4 DEF PlaceOK
  <2> QED
    BY <2>3, <2>5 DEF reps, s
<1> QED
  BY <1>1, EntitiesInvAlways, PTL
=============================================================================
