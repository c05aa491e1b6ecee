-------------------------- MODULE GraphQLInvariants --------------------------
(***************************************************************************)
(* The inductive invariants behind what the answers of the GraphQL servers *)
(* promise about live pointers, the order of a mutation's fields, posts    *)
(* and users.                                                              *)
(***************************************************************************)
EXTENDS GraphQLServers

IsSlot(s) == s = [st |-> s.st, value |-> s.value, left |-> s.left,
                  failed |-> s.failed, shown |-> s.shown, wrote |-> s.wrote]

ServersTypeOK ==
  /\ workload \in Workloads
  /\ phase \in [Requests -> {"new", "running", "answered", "refused"}]
  /\ after \in [Requests -> SUBSET Requests]
  /\ slot = [r \in Requests |-> [i \in Fields(r) |-> slot[r][i]]]
  /\ \A r \in Requests : \A i \in Fields(r) : IsSlot(slot[r][i])
  /\ employees \in [Employees -> [Words -> Nat]]
  /\ postSeq \in Nat

\* A field that has not started has left no trace, and an answered request
\* has nothing left to do; the fields of a mutation start one by one.
StagesOK ==
  \A r \in Requests :
    /\ phase[r] = "new" => after[r] = {}
    /\ \A q \in after[r] : phase[q] = "answered"
    /\ \A i \in Fields(r) :
         /\ phase[r] \in {"new", "refused"} => slot[r][i].st = "waiting"
         /\ phase[r] = "answered" => Done(r, i)
         /\ slot[r][i].st = "waiting" => slot[r][i] = EmptySlot
         /\ slot[r][i].st = "writing" =>
              slot[r][i].value = Nil /\ slot[r][i].shown = {}
         /\ slot[r][i].st = "resolving" =>
              slot[r][i].value = List(slot[r][i].value.items)
         /\ IsMutation(r) => \A j \in Fields(r) :
              (i < j /\ ~Done(r, i)) => slot[r][j].st = "waiting"

\* The pointers that are marshalled are those of employees.
PointersOK ==
  \A r \in Requests : \A i \in Fields(r) :
    \A place \in LivePlaces(slot[r][i].value) :
      Pointer(slot[r][i].value, place) \in Employees

\* No word was shown or written that is newer than the map's.
WordsOK ==
  \A r \in Requests : \A i \in Fields(r) :
    \A x \in slot[r][i].shown \cup slot[r][i].wrote :
      /\ x.of \in Employees /\ x.word \in Words /\ x.version \in Nat
      /\ x.version <= employees[x.of][x.word]

\* One update at a time holds r.mu, and what it wrote is the map's.
WritersOK ==
  \A r \in Requests : \A i \in Fields(r) : slot[r][i].st = "writing" =>
    /\ Call(r, i).id \in Employees
    /\ \A x \in slot[r][i].wrote :
         /\ x = [of |-> x.of, word |-> x.word, version |-> x.version]
         /\ x.of = Call(r, i).id
         /\ x.version = employees[x.of][x.word]
    /\ \A q \in Requests : \A j \in Fields(q) :
         slot[q][j].st = "writing" => q = r /\ j = i

\* A name is whole unless an update has still to write part of it.
Renaming(e) ==
  \E r \in Requests : \E i \in Fields(r) :
    /\ slot[r][i].st = "writing" /\ Call(r, i).id = e
    /\ Unwritten(r, i) \cap {"nameData", "nameLen"} # {}

WholeOK == \A e \in Employees : Whole(e) \/ Renaming(e)

\* The first part of MutationsInOrder.
WritesInOrder ==
  \A r \in Requests : IsMutation(r) => \A i, j \in Fields(r) :
    \A write \in slot[r][j].wrote, read \in slot[r][i].shown :
      (write.of = read.of /\ write.word = read.word) =>
        IF i < j THEN read.version < write.version
                 ELSE write.version <= read.version

PointersInv ==
  /\ ServersTypeOK /\ StagesOK /\ PointersOK /\ WordsOK
  /\ WritersOK /\ WholeOK /\ WritesInOrder /\ NeverGoesBack
-----------------------------------------------------------------------------
(* demo-opa-graphql *)

\* The second part: posts are numbered in the order of a mutation's fields,
\* which return nothing but posts.
PostsInOrder ==
  server = "demo" =>
    \A r \in Requests : IsMutation(r) => \A i \in Fields(r) :
      slot[r][i].value.kind = "object" =>
        /\ slot[r][i].value.type = "Post"
        /\ \A j \in Fields(r) : (i < j /\ slot[r][j].value.kind = "object") =>
             slot[r][i].value.key < slot[r][j].value.key

\* A user has the seeded roles, or those of a token that asked for me.
UsersOK ==
  /\ \A subject \in DOMAIN Seeded :
       subject \in DOMAIN users /\ users[subject] = Seeded[subject]
  /\ \A subject \in DOMAIN users :
       /\ IsFiniteSet(users[subject])
       /\ subject \in DOMAIN Seeded \/ \E a \in Returning("User") :
            token(a[1]).subject = subject /\ users[subject] = Roles(token(a[1]))

\* What me shows is what is stored and what its token says.
UsersShown ==
  \A a \in Returning("User") :
    LET subject == token(a[1]).subject
    IN /\ Result(a).key = subject /\ subject \in DOMAIN users
       /\ RolesIn(Result(a)) = users[subject] \cup Roles(token(a[1]))

DemoInv == PostsAreAuthorized /\ PostsInOrder /\ UsersOK /\ UsersShown

ServersInv == PointersInv /\ DemoInv
-----------------------------------------------------------------------------
(* _entities *)

\* The goroutine of representation p has not ended.
Pending(reps, s, p) == \E task \in s.left : Group(reps, task[1])[task[2]] = p

\* A representation whose goroutine has ended has its entity or its error;
\* the others have neither.
PlaceOK(reps, s, p) ==
  LET entity == s.value.items[p]
  IN /\ Pending(reps, s, p) => entity = Nil /\ p \notin s.failed
     /\ ~Pending(reps, s, p) =>
          /\ p \in s.failed <=> ~Resolvable(reps[p])
          /\ reps[p].type = "Employee" /\ server = "todo" /\ entity = Nil
               => p \in s.failed
     /\ entity # Nil =>
          /\ entity.type = reps[p].type /\ entity.key = reps[p].id
          /\ p \notin s.failed

Placed(reps, s) ==
  /\ s.value = List(s.value.items) /\ DOMAIN s.value.items = DOMAIN reps
  /\ s.st # "resolving" => s.left = {}
  /\ \A task \in s.left :
       task = <<task[1], task[2]>> /\ task[2] \in DOMAIN Group(reps, task[1])
  /\ \A p \in DOMAIN reps : PlaceOK(reps, s, p)

PlacesOK ==
  \A r \in Requests : \A i \in Fields(r) : Call(r, i).field = "_entities" =>
    /\ slot[r][i].st # "writing"
    /\ (slot[r][i].st # "waiting" /\ slot[r][i].value # Failed) =>
         Placed(Representations(r, i), slot[r][i])

EntitiesInv == PointersInv /\ PlacesOK
=============================================================================
