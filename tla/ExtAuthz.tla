------------------------------- MODULE ExtAuthz -------------------------------
(***************************************************************************)
(* The way of a request to the federated graph: Envoy asks authz-server's  *)
(* Check (internal/extauthz/server.go), which reads the token              *)
(* (internal/jwt), evaluates the policy (internal/opa, policy/) and        *)
(* rewrites the query (internal/rewriter); Envoy then refuses the request  *)
(* or hands it on, its Lua filter having swapped the body.                 *)
(*                                                                         *)
(* Data.  A token counts for what the policy reads from it: none sent, not *)
(* valid, or a user's whose privileges hold read:salary, do not, or cannot *)
(* be decoded.  A body is empty (that of a GET, too), not one Check's      *)
(* decoder takes (cut off by Envoy, an array, a query that is no string),  *)
(* an object whose `query` is absent, null or "", one whose query does not *)
(* parse, or a document.  Check decodes into a struct, which takes the key *)
(* in any spelling and the last one that is there; the rewriter looks it   *)
(* up in a map.  `other` is what Check takes from another spelling of the  *)
(* key: "none" when the query it takes is the one under `query`.           *)
(***************************************************************************)
EXTENDS FieldRewriter

CONSTANTS Requests,  \* the requests clients send
          Policies   \* sets of fields a policy may deny to users without
                     \* read:salary

VARIABLES request, policy,
          pc,        \* where Check is
          decision,  \* of the policy
          response,  \* of Check
          result,    \* of Envoy: what the client's request came to
          upstream   \* the body Cosmo Router gets

vars == <<request, policy, pc, decision, response, result, upstream>>

Tokens   == {"none", "invalid", "reader", "other", "unreadable"}
NoBody   == [kind |-> "none"]
NoAnswer == [status |-> "none"]

\* A body is as said above; a denied field has a name.
ASSUME RequestAssumption ==
  /\ \A r \in Requests :
       /\ r.body.kind \in {"none", "notObject", "noQuery", "garbled", "document"}
       /\ r.other \in {"none", "empty", "query"}
       /\ r.body.kind = "none" => r.body = NoBody /\ r.other = "none"
       /\ r.body.kind = "document" => IsParsed(r.body)
  /\ \A rules \in Policies : rules \subseteq Seq(STRING) \ {<<>>}

Init ==
  /\ request \in Requests
  /\ policy \in Policies
  /\ pc = "token"
  /\ decision = [allow |-> FALSE, denied |-> {}]
  /\ response = NoAnswer
  /\ result = "pending"
  /\ upstream = NoBody

Authenticated == request.token \in {"reader", "other", "unreadable"}

-----------------------------------------------------------------------------
(* Check *)

Answer(r) ==
  /\ response' = r
  /\ pc' = "answered"
  /\ UNCHANGED <<request, policy, decision, result, upstream>>

Refuse(code) == Answer([status |-> "denied", code |-> code])

GoOn(label) ==
  /\ pc' = label
  /\ UNCHANGED <<request, policy, response, result, upstream>>

\* jwt.ParseFromHeader: no header is no error, the policy decides.
ParseToken ==
  /\ pc = "token"
  /\ IF request.token = "invalid" THEN Refuse(401)
     ELSE GoOn("body") /\ UNCHANGED decision

\* An empty body is not read.
ParseBody ==
  /\ pc = "body"
  /\ IF request.body.kind = "notObject" THEN Refuse(403)
     ELSE GoOn("policy") /\ UNCHANGED decision

\* hasPrivilege of the token's privileges.  It is undefined when they cannot
\* be decoded, and can_read_salary then keeps its default.
CanReadSalary == request.token = "reader"

\* graphql_authz.rego.
Evaluate ==
  /\ pc = "policy"
  /\ GoOn("decided")
  /\ decision' = [allow  |-> Authenticated,
                  denied |-> IF Authenticated /\ ~CanReadSalary
                             THEN policy ELSE {}]

\* The evaluation is cancelled with the call.
EvaluationFails == pc = "policy" /\ Refuse(403)

DenyByPolicy == pc = "decided" /\ ~decision.allow /\ Refuse(403)

AllowUnchanged ==
  /\ pc = "decided"
  /\ decision.allow
  /\ decision.denied = {}
  /\ Answer([status |-> "ok", body |-> NoBody])

\* gqlBody.Query is not "".
HasQuery ==
  \/ request.other = "query"
  \/ request.other = "none" /\ request.body.kind \in {"garbled", "document"}

\* A query in the URL, in a form, or only named by its hash.
RefuseUnrewritable ==
  /\ pc = "decided" /\ decision.allow /\ decision.denied # {}
  /\ request.get \/ request.multipart \/ ~HasQuery
  /\ Refuse(403)

\* Without a string under `query` the body is handed back as it is.
RewriteBody(body, rules) ==
  CASE body.kind = "noQuery" -> body
    [] body.kind = "garbled" -> Failed
    [] OTHER -> RemoveFields(body, rules)

RewriteQuery ==
  LET rewritten == RewriteBody(request.body, decision.denied)
  IN /\ pc = "decided" /\ decision.allow /\ decision.denied # {}
     /\ ~request.get /\ ~request.multipart
     /\ HasQuery
     /\ IF rewritten = Failed THEN Refuse(403)
        ELSE Answer([status |-> "ok", body |-> rewritten])

-----------------------------------------------------------------------------
(* Envoy *)

Finish(outcome, body) ==
  /\ result = "pending"
  /\ result' = outcome
  /\ upstream' = body
  /\ UNCHANGED <<request, policy, pc, decision, response>>

\* The Lua filter replaces the body when x-rewritten-body is there.
Forward ==
  /\ response.status = "ok"
  /\ Finish("forwarded",
            IF response.body = NoBody THEN request.body ELSE response.body)

Reject == response.status = "denied" /\ Finish("refused", NoBody)

\* No answer within 5s: the request is refused, Check may still go on.
TimeOut == Finish("timedOut", NoBody)

-----------------------------------------------------------------------------
Check ==
  \/ ParseToken \/ ParseBody \/ Evaluate \/ EvaluationFails
  \/ DenyByPolicy \/ AllowUnchanged \/ RefuseUnrewritable \/ RewriteQuery

Done == pc = "answered" /\ result # "pending" /\ UNCHANGED vars

Next == Check \/ Forward \/ Reject \/ TimeOut \/ Done

Spec == Init /\ [][Next]_vars
-----------------------------------------------------------------------------
(* Properties *)

\* Types of the variables.  A document on its way upstream has no empty
\* operation.
TypeOK ==
  /\ pc \in {"token", "body", "policy", "decided", "answered"}
  /\ decision.allow \in BOOLEAN /\ decision.denied \in {{}, policy}
  /\ response.status \in {"none", "denied", "ok"}
  /\ result \in {"pending", "forwarded", "refused", "timedOut"}
  /\ upstream.kind \in {"none", "noQuery", "garbled", "document"}
  /\ upstream.kind = "document" =>
       \A op \in Operations(upstream) : Selections(upstream, op) \cap upstream.left # {}

Restricted == request.token \in {"other", "unreadable"}

\* A user without read:salary gets past Envoy with a query in the body only
\* (not with one in the URL or a form, which nobody filtered).  The query
\* under the key `query`, however it is laid out, no longer asks for what he
\* may not ask for, except by a path that goes through a named fragment
\* (rewriter.go:129).  Nothing is promised of what stands under another
\* spelling of the key: it suffices to get past Check (server.go:114), and
\* the rewriter does not look at it (rewriter.go:76).
OnlyPermittedGoesUpstream ==
  (Restricted /\ policy # {} /\ result = "forwarded") =>
    \/ upstream.kind = "noQuery" /\ request.other = "query"
    \/ /\ upstream.kind = "document"
       /\ \A leaf \in Requested(upstream) :
            Denied(policy, leaf.path) =>
              leaf.named /\ \A i \in DOMAIN leaf.path : <<leaf.path[i]>> \notin policy

\* A query GraphQL can tell the meaning of, every rule of several names for
\* which begins with a field of the root types (a path is looked for in each
\* fragment anew, and all definitions of an emptied fragment's name are gone).
Valid(doc, rules) ==
  /\ WellFormed(doc)
  /\ \A f, g \in Fragments(doc) : doc.nodes[f].name = doc.nodes[g].name => f = g
  /\ \A rule \in rules : Len(rule) > 1 =>
       \A op \in Operations(doc) : \A k \in 0..Cardinality(Fragments(doc)) :
         \A c \in Standing(doc, op)[k] :
           (doc.nodes[c.at].kind = "field" /\ doc.nodes[c.at].name = rule[1]) =>
             c.path = <<>>

\* Rewriting takes nothing else away: of a valid document that is handed on,
\* every leaf that is not denied still gets asked for, at its path.
PermittedGoesUpstream ==
  ( /\ result = "forwarded" /\ request.body.kind = "document"
    /\ Valid(request.body, policy) ) =>
    /\ upstream.kind = "document"
    /\ {leaf \in Requested(request.body) : ~Denied(policy, leaf.path)}
         \subseteq Requested(upstream)

\* The rewriter refuses a valid document only if one of its operations asks
\* for nothing but denied fields.
RefusedForCause ==
  ( /\ response.status = "denied" /\ decision.allow
    /\ ~request.get /\ ~request.multipart /\ HasQuery
    /\ request.body.kind = "document"
    /\ Valid(request.body, policy) ) =>
    \E op \in Operations(request.body) :
      \A leaf \in Leaves(request.body, op) : Denied(policy, leaf.path)

\* A well-formed document stays so, as long as no fragment loses all its
\* fields and, if there are fragments, no object field is denied.
WellFormedGoesUpstream ==
  LET doc == request.body IN
  ( /\ upstream.kind = "document"
    /\ WellFormed(doc)
    /\ Fragments(doc) # {} =>
         \A rule \in policy : rule[Len(rule)] \notin ObjectFields
    /\ \A f \in Fragments(doc) :
         \E leaf \in Leaves(doc, f) : ~Denied(policy, leaf.path) ) =>
    WellFormed(upstream)

\* A document all of whose fields are denied is refused ("ErrEmptyQuery is
\* returned when all requested fields are denied", rewriter.go:15).
AllDeniedIsRefused ==
  (Restricted /\ upstream.kind = "document") =>
    \E leaf \in Requested(request.body) : ~Denied(policy, leaf.path)
=============================================================================
