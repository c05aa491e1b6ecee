------------------------------ MODULE Federation ------------------------------
(***************************************************************************)
(* generated/federation.go of todo-server and graphql-server: the router   *)
(* asks for entities by a list of representations, and the answer has to   *)
(* have an entity for each at its place.                                   *)
(*                                                                         *)
(* A representation has a __typename ("none" if it has no string there)    *)
(* and an id, which may be missing, null or a value that is no id.         *)
(***************************************************************************)
EXTENDS GraphQLExecution

EntityTypes == [todo |-> {"Employee", "Todo"}, employee |-> {"Employee"}]

Representations(r, i) == Call(r, i).representations

\* unmarshalN_Any: a representation has to be an object.
Scalar == [type |-> "scalar", id |-> "missing"]

ArgumentsFail(reps) == \E k \in DOMAIN reps : reps[k] = Scalar

GroupNames(reps) == {reps[k].type : k \in DOMAIN reps} \ {"none"}

\* buildRepresentationGroups: the indexes of a type's representations, after
\* each turn of the loop.
Group(reps, type) ==
  LET upTo[n \in 0..Len(reps)] ==
        IF n = 0 THEN <<>>
        ELSE IF reps[n].type = type THEN Append(upTo[n - 1], n)
        ELSE upTo[n - 1]
  IN upTo[Len(reps)]

\* When every goroutine of every group has called Done, the list is marshalled.
Collected(s) == IF s.left = {} THEN Settled(s) ELSE s

ResolveEntities(r, i) ==
  LET reps == Representations(r, i)
      s == slot[r][i]
  IN /\ Starts(r, i, "_entities")
     /\ IF ArgumentsFail(reps) THEN Update(r, i, Returned(s, Failed))
        ELSE Update(r, i, Collected(
               [s EXCEPT !.st = "resolving",
                         !.value = List([k \in DOMAIN reps |-> Nil]),
                         !.failed = {k \in DOMAIN reps : reps[k].type = "none"},
                         !.left = UNION {{<<type, k>> : k \in DOMAIN Group(reps, type)}
                                         : type \in GroupNames(reps)}]))

\* Whether resolveEntity calls a resolver: the type is known, the key is
\* there, not null, and an id.
Resolvable(rep) ==
  rep.type \in EntityTypes[server] /\ rep.id \notin {"missing", "null", "bad"}

\* Goroutine k of a group is about to resolve rep.
Resolving(r, i, type, k) ==
  slot[r][i].st = "resolving" /\ <<type, k>> \in slot[r][i].left

\* The index of a group's representation k in the request (rep.index).
IndexOf(r, i, type, k) == Group(Representations(r, i), type)[k]

Rep(r, i, type, k) == Representations(r, i)[IndexOf(r, i, type, k)]

\* Goroutine k of a group ends: the entity takes its place in the list, or
\* the error is added for it, and e.Done is called.
EntityAt(place, r, i, type, k, entity) ==
  LET rest == [slot[r][i] EXCEPT !.left = @ \ {<<type, k>>}]
  IN Update(r, i, Collected(
       IF entity = Failed THEN [rest EXCEPT !.failed = @ \cup {place}]
       ELSE [rest EXCEPT !.value.items[place] = entity]))

\* Faulty variants: the entity is stored at its index in the group; an error
\* returns before e.Done.
EntityAtGroupIndex(r, i, type, k, entity) == EntityAt(k, r, i, type, k, entity)

EntityErrorNeverDone(r, i, type, k, entity) ==
  IF entity = Failed THEN UNCHANGED execVars
  ELSE EntityAt(IndexOf(r, i, type, k), r, i, type, k, entity)

\* list[rep.index] = entity
EntityReturned(r, i, type, k, entity) ==
  EntityAt(IndexOf(r, i, type, k), r, i, type, k, entity)
=============================================================================
