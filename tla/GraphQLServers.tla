---------------------------- MODULE GraphQLServers ----------------------------
(***************************************************************************)
(* The three GraphQL servers, each under the requests of a workload, and   *)
(* what their answers promise.  A behaviour has one server: they share     *)
(* nothing.                                                                *)
(***************************************************************************)
EXTENDS TodoQueries, EmployeeQueries, DemoServer

vars == <<workload, phase, slot, after, employees, users, postSeq>>

Init == ExecInit /\ EmployeesInit /\ DemoInit

\* The steps of the goroutines of a request; Begin is its client's.
RequestStep(r) ==
  \/ /\ \E i \in Fields(r) :
          \/ /\ ResolveStatic(r, i)
             /\ UNCHANGED <<employees, users, postSeq>>
          \/ /\ ResolveEntities(r, i)
             /\ UNCHANGED <<employees, users, postSeq>>
          \/ /\ TodoStep(r, i)
             /\ UNCHANGED <<employees, users, postSeq>>
          \/ EmployeeStep(r, i) /\ UNCHANGED <<users, postSeq>>
          \/ DemoStep(r, i) /\ UNCHANGED employees
  \/ Answer(r) /\ UNCHANGED <<employees, users, postSeq>>

Arrive(r) ==
  /\ \/ (server = "demo" => Admitted(token(r))) /\ Begin(r)
     \/ Refuse(r)
  /\ UNCHANGED <<employees, users, postSeq>>

\* All requests of the workload are answered or refused.
Finished ==
  /\ \A r \in Requests : phase[r] \in {"answered", "refused"}
  /\ UNCHANGED vars

Next == (\E r \in Requests : Arrive(r) \/ RequestStep(r)) \/ Finished

\* Go runs every goroutine that can run, and r.mu lets everyone in in turn.
Fairness ==
  \A r \in 1..MaxRequests : WF_vars(r \in Requests /\ RequestStep(r))

Spec == Init /\ [][Next]_vars /\ Fairness

-----------------------------------------------------------------------------
\* The answer to _entities has, at the place of each representation, the
\* entity with its type and key, or null: for an entity that does not exist,
\* or for a representation no resolver takes, which also is an error
\* (__resolve_entities and resolveEntityGroup in federation.go).
EntitiesInPlace ==
  \A r \in Answered : \A i \in Fields(r) :
    (Call(r, i).field = "_entities" /\ slot[r][i].value # Failed) =>
      LET reps == Representations(r, i)
          list == slot[r][i].value.items
      IN /\ DOMAIN list = DOMAIN reps
         /\ \A k \in DOMAIN reps :
              /\ k \in slot[r][i].failed <=> ~Resolvable(reps[k])
              /\ list[k] # Nil => /\ list[k].type = reps[k].type
                                  /\ list[k].key = reps[k].id
                                  /\ k \notin slot[r][i].failed
              /\ reps[k].type = "Employee" /\ server = "todo" /\ list[k] = Nil
                   => k \in slot[r][i].failed

Shown(r) == UNION {slot[r][i].shown : i \in Fields(r)}

\* What an answer showed of an employee, no request that begins later shows
\* an older state of: pointers are read without r.mu (employeeByID, employees
\* and updateEmployee in schema.resolvers.go), but never go back.
NeverGoesBack ==
  \A q \in Requests : \A r \in after[q] :
    \A old \in Shown(r), new \in Shown(q) :
      (old.of = new.of /\ old.word = new.word) => old.version <= new.version

\* The fields of one mutation work one after the other: a field shows what it
\* and those before it wrote, or what others wrote since, and nothing that
\* those after it write; posts are numbered in their order (the loop of
\* _Mutation; updateEmployee answers with the pointer that later fields
\* write through).
MutationsInOrder ==
  \A r \in Requests : IsMutation(r) => \A i, j \in Fields(r) :
    /\ \A write \in slot[r][j].wrote, read \in slot[r][i].shown :
         (write.of = read.of /\ write.word = read.word) =>
           IF i < j THEN read.version < write.version
                    ELSE write.version <= read.version
    /\ (i < j /\ slot[r][i].value.kind = "object" /\ slot[r][j].value.kind = "object"
          /\ server = "demo") => slot[r][i].value.key < slot[r][j].value.key

\* One call wrote both words of e's name, as they are now.
Whole(e) ==
  LET Wrote(s, w) == [of |-> e, word |-> w, version |-> employees[e][w]] \in s.wrote
  IN \/ employees[e]["nameData"] = 0 /\ employees[e]["nameLen"] = 0
     \/ \E r \in Requests : \E i \in Fields(r) :
          Wrote(slot[r][i], "nameData") /\ Wrote(slot[r][i], "nameLen")

\* When no update is under way, the two words of a name were written by the
\* same call: updates exclude each other (r.mu in updateEmployee).
NamesAreWhole == Locked \/ \A e \in Employees : Whole(e)

Returning(type) ==
  {a \in {<<r, i>> : r \in Requests, i \in UNION {Fields(q) : q \in Requests}} :
     /\ a[2] \in Fields(a[1])
     /\ slot[a[1]][a[2]].value.kind = "object"
     /\ slot[a[1]][a[2]].value.type = type}

Result(a) == slot[a[1]][a[2]].value

\* Every post was created for a token with the role editor or admin, bears
\* the token's subject as its author, and no other post has its id (CreatePost,
\* nextPostID and authz.rego of demo-opa-graphql).
PostsAreAuthorized ==
  \A a \in Returning("Post") :
    /\ Roles(token(a[1])) \cap {"editor", "admin"} # {}
    /\ Result(a).fields.authorID = Leaf(token(a[1]).subject)
    /\ Result(a).key \in 1..postSeq
    /\ \A b \in Returning("Post") : Result(a).key = Result(b).key => a = b

RolesIn(user) == {x.value : x \in {user.fields.roles.items[k] :
                                    k \in DOMAIN user.fields.roles.items}}

\* me shows the token's own subject, with the roles of the token and those the
\* subject is stored with: the seeded ones, or those of the token that came
\* first; no other token's (Me and lookupUser of demo-opa-graphql).
RolesShown ==
  \A a \in Returning("User") :
    LET subject == token(a[1]).subject
        same    == {b \in Returning("User") : token(b[1]).subject = subject}
    IN /\ Result(a).key = subject
       /\ \E stored \in IF subject \in DOMAIN Seeded THEN {Seeded[subject]}
                         ELSE {Roles(token(b[1])) : b \in same} :
            \A b \in same : RolesIn(Result(b)) = stored \cup Roles(token(b[1]))

\* Every request the executor took up is answered: each goroutine of its
\* fields, groups and representations ends, and none waits for r.mu for ever
\* (Dispatch and the WaitGroups of federation.go).
RequestIsAnswered ==
  \A r \in 1..MaxRequests :
    (r \in Requests /\ phase[r] = "running") ~> (r \in Answered)
=============================================================================
