------------------------------ MODULE DemoServer ------------------------------
(***************************************************************************)
(* demo-opa-graphql: the bearer token (internal/security/jwt.go), the      *)
(* policy (policy/authz.rego, graph/authz.go) and the resolvers (graph/)   *)
(* under the generated code.                                               *)
(*                                                                         *)
(* A token is absent, malformed, or has a subject and roles.  Roles are a  *)
(* set: their order and doubles are left out.                              *)
(***************************************************************************)
EXTENDS GraphQLExecution

CONSTANTS Seeded     \* the users of NewResolver: subject -> roles

ASSUME RolesAssumption ==
  /\ \A subject \in DOMAIN Seeded : IsFiniteSet(Seeded[subject])
  /\ \A w \in Workloads : w.server = "demo" => \A r \in DOMAIN w.requests :
       w.requests[r].token.form = "valid" =>
         IsFiniteSet(w.requests[r].token.roles)

VARIABLES users,     \* Resolver.users: subject -> roles
          postSeq    \* Resolver.postSeq, counted from its start

demoVars == <<users, postSeq>>

DemoInit == users = Seeded /\ postSeq = 0

token(r) == request(r).token

NoToken   == [form |-> "none"]
Malformed == [form |-> "malformed"]   \* no Bearer token, or one jwt refuses
Valid(subject, roles) == [form |-> "valid", subject |-> subject, roles |-> roles]

\* JWTMiddleware: without a header the request is anonymous, with a bad one
\* or without a subject it is answered 401.
Admitted(t) == t.form = "none" \/ (t.form = "valid" /\ t.subject # "")

Refuse(r) ==
  /\ server = "demo"
  /\ phase[r] = "new"
  /\ ~Admitted(token(r))
  /\ phase' = [phase EXCEPT ![r] = "refused"]
  /\ UNCHANGED <<workload, slot, after>>

-----------------------------------------------------------------------------
(* Authorisation *)

Authenticated(t) == t.form = "valid"

Roles(t) == IF Authenticated(t) THEN t.roles ELSE {}

\* A faulty variant: the role is not asked for.
AnyoneCreates(t) == Authenticated(t)

AllowCreatePost(t) == Authenticated(t) /\ Roles(t) \cap {"editor", "admin"} # {}

Allow(field, t) ==
  \/ field = "publicInfo"
  \/ field = "me" /\ Authenticated(t)
  \/ field = "createPost" /\ AllowCreatePost(t)

DemoFields == {"publicInfo", "me", "createPost"}

\* authorize returns an error: the policy refuses, or its evaluation fails
\* (which is possible for any input: the request's context may end).
AuthorizeFails(r, i) ==
  /\ \E field \in DemoFields : Starts(r, i, field)
  /\ Update(r, i, Returned(slot[r][i], Failed))
  /\ UNCHANGED demoVars

Authorized(r, i, field) == Starts(r, i, field) /\ Allow(field, token(r))

-----------------------------------------------------------------------------
(* Resolvers *)

PublicInfo(r, i) ==
  /\ Authorized(r, i, "publicInfo")
  /\ Update(r, i, Returned(slot[r][i], Leaf("public graphql endpoint is healthy")))
  /\ UNCHANGED demoVars

\* nextPostID, under mu.
CreatePost(r, i) ==
  /\ Authorized(r, i, "createPost")
  /\ postSeq' = postSeq + 1
  /\ Update(r, i, Returned(slot[r][i],
       Object("Post", postSeq', [title |-> Leaf(Call(r, i).title),
                                 authorID |-> Leaf(token(r).subject)])))
  /\ UNCHANGED users

UnionRoles(base, extra) == base \cup extra

\* A faulty variant of LookupUser: a known user keeps the roles it is shown.
LookupUserStores(subject, roles) ==
  [s \in DOMAIN users \cup {subject} |->
     IF s # subject THEN users[s]
     ELSE IF s \in DOMAIN users THEN users[s] \cup roles ELSE roles]

\* lookupUser, under mu: what it leaves in users.  A user nobody knows gets
\* the roles of the token; a known one keeps its own.
LookupUser(subject, roles) ==
  [s \in DOMAIN users \cup {subject} |->
     IF s \in DOMAIN users THEN users[s] ELSE UnionRoles({}, roles)]

AsList(set) ==
  List(CHOOSE s \in [1..Cardinality(set) -> {Leaf(x) : x \in set}] :
         \A x \in set : \E k \in DOMAIN s : s[k] = Leaf(x))

Me(r, i) ==
  LET subject == token(r).subject
      roles   == token(r).roles
  IN /\ Authorized(r, i, "me")
     /\ users' = LookupUser(subject, roles)
     /\ Update(r, i, Returned(slot[r][i],
          Object("User", subject,
                 [id |-> Leaf(subject),
                  roles |-> AsList(UnionRoles(users'[subject], roles))])))
     /\ UNCHANGED postSeq

DemoStep(r, i) ==
  /\ server = "demo"
  /\ \/ AuthorizeFails(r, i)
     \/ PublicInfo(r, i)
     \/ CreatePost(r, i)
     \/ Me(r, i)
=============================================================================
