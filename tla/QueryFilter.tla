----------------------------- MODULE QueryFilter -----------------------------
(***************************************************************************)
(* graphql-opa: Evaluate (internal/authz/evaluator.go) asks the policy     *)
(* whether a query fits its schema and takes out of a valid one the        *)
(* salaries its user may not read (internal/authz/query_filter.go).        *)
(*                                                                         *)
(* A named fragment is filtered once per context it is spread in: each     *)
(* context gets a variant of its own, under a name of its own.             *)
(*                                                                         *)
(* Data.  The order of selections decides the names of variants, so a      *)
(* selection set is a sequence.  A field has its name, its id argument and *)
(* its sub-selections; aliases, other arguments and directives are left    *)
(* out.  A document is a sequence of operations and a function from the    *)
(* names of its fragments to their selection sets.                         *)
(***************************************************************************)
EXTENDS Integers, Sequences, FiniteSets, SequencesExt

CONSTANTS Requests,      \* the inputs of Evaluate
          ObjectFields   \* names of the fields that need sub-selections

VARIABLES request,
          pc,        \* where Evaluate is
          decision   \* what it returns

vars == <<request, pc, decision>>

Field(name, arg, sub) ==
  [kind |-> "field", name |-> name, arg |-> arg, sub |-> sub]
Inline(sub)  == [kind |-> "inline", sub |-> sub]
Spread(name) == [kind |-> "spread", name |-> name]

\* An id argument: none, a string, a number (for an argument of type ID), or
\* the variable, with the default of its definition.
NoArg             == [form |-> "none",     value |-> ""]
Literal(value)    == [form |-> "string",   value |-> value]
Number(value)     == [form |-> "number",   value |-> value]
Variable(default) == [form |-> "variable", value |-> default]

-----------------------------------------------------------------------------
(* graphql_authz.rego, resolveTargetID *)

CanReadSalary(user, target) ==
  user.role = "admin" \/ (target # "" /\ target = user.id)

\* The document is parsed, not validated: a variable does not know its
\* definition, so its default is not seen.  A number is no string.
ResolveTargetID(arg, given) ==
  CASE arg.form = "string"   -> arg.value
    [] arg.form = "variable" -> given
    [] OTHER -> ""

-----------------------------------------------------------------------------
(* The filter.  f is the queryFilter: `current` has the variants made so     *)
(* far, `variantByKey` finds them, `used` are the names taken.               *)

Outside == [inEmployeeByID |-> FALSE, salaryAllowed |-> FALSE]

NewQueryFilter(req) ==
  [user |-> req.user, given |-> req.given, originals |-> req.doc.fragments,
   current |-> <<>>, variantByKey |-> <<>>, used |-> {}, removed |-> {}]

Put(fun, key, value) ==
  [k \in DOMAIN fun \cup {key} |-> IF k = key THEN value ELSE fun[k]]

Suffixed(base, ctx) ==
  base \o (IF ctx.salaryAllowed THEN "__authz_allow" ELSE "__authz_deny")

\* Faulty variants: names are not reserved; variants are found by their
\* fragment's name alone.
SuffixedUnchecked(base, ctx, f) ==
  IF ctx.inEmployeeByID THEN Suffixed(base, ctx) ELSE base

KeyByName(name, ctx) == <<name, Outside>>

\* The plain name for the first that asks for it outside employeeByID, else
\* one with a suffix, and with a number when that is taken.
GenerateFragmentName(base, ctx, f) ==
  LET Candidate(i) == Suffixed(base, ctx) \o (IF i = 0 THEN "" ELSE "_" \o ToString(i))
      first == CHOOSE i \in 0..Cardinality(f.used) :
                 /\ Candidate(i) \notin f.used
                 /\ \A j \in 0..(i - 1) : Candidate(j) \in f.used
  IN IF ~ctx.inEmployeeByID /\ base \notin f.used THEN base ELSE Candidate(first)

FragmentVariantKey(name, ctx) == <<name, ctx>>

ChildContext(field, ctx, f) ==
  IF field.name # "employeeByID" THEN ctx
  ELSE [inEmployeeByID |-> TRUE,
        salaryAllowed  |-> CanReadSalary(f.user, ResolveTargetID(field.arg, f.given))]

Denied(sel, ctx) ==
  /\ sel.kind = "field" /\ sel.name = "salary"
  /\ ctx.inEmployeeByID /\ ~ctx.salaryAllowed

RECURSIVE FilterSelectionSet(_, _, _)

\* The variant's name, whether to keep its spread, and the filter.
EnsureFragmentVariant(name, ctx, f) ==
  LET key == FragmentVariantKey(name, ctx) IN
  CASE name \notin DOMAIN f.originals -> [name |-> name, keep |-> TRUE, f |-> f]
    [] name \in DOMAIN f.originals /\ key \in DOMAIN f.variantByKey ->
         LET variant == f.variantByKey[key]
         IN [name |-> variant, keep |-> f.current[variant] # <<>>, f |-> f]
    [] OTHER ->
         LET variant  == GenerateFragmentName(name, ctx, f)
             begun    == [f EXCEPT !.used = @ \cup {variant},
                                   !.variantByKey = Put(@, key, variant),
                                   !.current = Put(@, variant, f.originals[name])]
             filtered == FilterSelectionSet(f.originals[name], ctx, begun)
         IN [name |-> variant, keep |-> filtered.set # <<>>,
             f |-> [filtered.f EXCEPT !.current[variant] = filtered.set]]

\* The selections that stay, and the filter.
FilterSelectionSet(set, ctx, filter) ==
  LET Keep(acc, sel, f) == [set |-> Append(acc.set, sel), f |-> f]
      Drop(acc, f)      == [acc EXCEPT !.f = f]
      Within(acc, sel, childCtx) ==
        LET child == FilterSelectionSet(sel.sub, childCtx, acc.f)
        IN IF child.set = <<>> THEN Drop(acc, child.f)
           ELSE Keep(acc, [sel EXCEPT !.sub = child.set], child.f)
      Step(acc, sel) ==
        CASE Denied(sel, ctx) ->
               Drop(acc, [acc.f EXCEPT !.removed = @ \cup {"employeeByID.salary"}])
          [] sel.kind = "field" /\ ~Denied(sel, ctx) ->
               IF sel.sub = <<>> THEN Keep(acc, sel, acc.f)
               ELSE Within(acc, sel, ChildContext(sel, ctx, acc.f))
          [] sel.kind = "inline" -> Within(acc, sel, ctx)
          [] sel.kind = "spread" ->
               LET v == EnsureFragmentVariant(sel.name, ctx, acc.f)
               IN IF v.keep THEN Keep(acc, Spread(v.name), v.f) ELSE Drop(acc, v.f)
  IN FoldLeft(Step, [set |-> <<>>, f |-> filter], set)

RECURSIVE CollectFragmentSpreads(_)
CollectFragmentSpreads(set) ==
  UNION {CASE set[i].kind = "spread" -> {set[i].name}
           [] OTHER -> CollectFragmentSpreads(set[i].sub) : i \in DOMAIN set}

\* The names the operations reach through definitions that are left.
RECURSIVE Reached(_, _)
Reached(names, current) ==
  LET next == names \cup UNION {CollectFragmentSpreads(current[n]) :
                                  n \in names \cap DOMAIN current}
  IN IF next = names THEN names ELSE Reached(next, current)

\* Faulty variant: nothing is pruned.
PruneNothing(operations, current) == current

PruneUnusedFragments(operations, current) ==
  LET used == Reached(UNION {CollectFragmentSpreads(op.set) : op \in Range(operations)},
                      current)
  IN [n \in {u \in used \cap DOMAIN current : current[u] # <<>>} |-> current[n]]

\* The document that is left, and the filter.
FilterDocument(req) ==
  LET Step(acc, op) ==
        LET filtered == FilterSelectionSet(op.set, Outside, acc.f)
        IN [f |-> filtered.f,
            operations |-> IF filtered.set = <<>> THEN acc.operations
                           ELSE Append(acc.operations, [op EXCEPT !.set = filtered.set])]
      all == FoldLeft(Step, [operations |-> <<>>, f |-> NewQueryFilter(req)],
                      req.doc.operations)
  IN [doc |-> [operations |-> all.operations,
               fragments |-> PruneUnusedFragments(all.operations, all.f.current)],
      removed |-> all.f.removed]

-----------------------------------------------------------------------------
(* Evaluate *)

NoQuery  == [operations |-> <<>>, fragments |-> <<>>]

\* Faulty variant: the policy's `allow` stands.
AllowedByPolicy(doc) == TRUE

Allowed(doc) == doc.operations # <<>>

NoAnswer == [status |-> "none"]

Answer(d) == decision' = d /\ pc' = "answered" /\ UNCHANGED request

Init == request \in Requests /\ pc = "policy" /\ decision = NoAnswer

\* The policy verifies the query against the schema, which decides alone.
EvaluateDecision ==
  /\ pc = "policy"
  /\ IF request.valid
     THEN pc' = "filter" /\ UNCHANGED <<request, decision>>
     ELSE Answer([status |-> "decided", allow |-> FALSE, query_valid |-> FALSE,
                  filtered |-> NoQuery, removed |-> {}, reasons |-> {"schema"}])

\* filterGraphQLQuery, and what Evaluate makes of its answer.
FilterGraphQLQuery ==
  LET result  == FilterDocument(request)
      allowed == Allowed(result.doc)
  IN /\ pc = "filter"
     /\ Answer([status |-> "decided", allow |-> allowed, query_valid |-> TRUE,
                filtered |-> IF allowed THEN result.doc ELSE NoQuery,
                removed |-> result.removed,
                reasons |-> {r \in {"removed", "nothing left"} :
                               IF r = "removed" THEN result.removed # {}
                               ELSE ~allowed}])

\* An evaluation of the policy fails: of decision, or of can_read_salary.
EvaluationFails == pc # "answered" /\ Answer([status |-> "failed"])

Done == pc = "answered" /\ UNCHANGED vars

Next == EvaluateDecision \/ FilterGraphQLQuery \/ EvaluationFails \/ Done

Spec == Init /\ [][Next]_vars

-----------------------------------------------------------------------------
(* Properties *)

\* What a selection set asks for: the paths of its leaves, each field with its
\* id argument.
RECURSIVE Leaves(_, _, _)
Leaves(set, fragments, path) ==
  UNION {
    CASE set[i].kind = "inline" -> Leaves(set[i].sub, fragments, path)
      [] set[i].kind = "spread" ->
           IF set[i].name \notin DOMAIN fragments THEN {}
           ELSE Leaves(fragments[set[i].name], fragments, path)
      [] OTHER ->
           LET here == Append(path, [name |-> set[i].name, arg |-> set[i].arg])
           IN IF set[i].sub = <<>> THEN {here} ELSE Leaves(set[i].sub, fragments, here)
    : i \in DOMAIN set }

Asked(doc) ==
  UNION {{[operation |-> op.name, path |-> leaf] : leaf \in Leaves(op.set, doc.fragments, <<>>)}
         : op \in Range(doc.operations)}

\* The employee whose salary a leaf is, as `Target` reads the argument of the
\* nearest employeeByID above.
MayAsk(leaf, Target(_)) ==
  LET path == leaf.path
      above == {i \in DOMAIN path : path[i].name = "employeeByID"}
      nearest == CHOOSE i \in above : \A j \in above : j <= i
  IN (path[Len(path)].name = "salary" /\ above # {}) =>
       CanReadSalary(request.user, Target(path[nearest].arg))

\* Whom a server reads the argument as: it knows defaults and takes a number
\* for an ID.
ServerTarget(arg) ==
  IF arg.form = "variable" /\ request.given # "" THEN request.given ELSE arg.value

FilterTarget(arg) == ResolveTargetID(arg, request.given)

Decided == decision.status = "decided"

\* However a query is cut into fragments, and whatever these are called: the
\* filtered query asks for nothing new, for no salary under employeeByID that
\* is not the user's to read as the server will see the target, and for all
\* the rest, each leaf at its place in its operation (query_filter.go:131).
AsksForThePermitted ==
  Decided /\ decision.query_valid =>
    LET asked == Asked(request.doc)
        filtered == Asked(decision.filtered)
    IN /\ filtered \subseteq {leaf \in asked : MayAsk(leaf, ServerTarget)}
       /\ {leaf \in asked : MayAsk(leaf, FilterTarget)} \subseteq filtered

RECURSIVE Complete(_)
Complete(set) ==
  /\ set # <<>>
  /\ \A i \in DOMAIN set :
       ( \/ set[i].kind = "inline"
         \/ set[i].kind = "field" /\ set[i].name \in ObjectFields ) => Complete(set[i].sub)

WellFormed(doc) ==
  LET sets == {op.set : op \in Range(doc.operations)} \cup Range(doc.fragments)
  IN /\ \A set \in sets : Complete(set)
     /\ UNION {CollectFragmentSpreads(set) : set \in sets} = DOMAIN doc.fragments

\* Filtering a well-formed query leaves one: no empty selection set, no spread
\* without its definition, no definition without its spread
\* (query_filter.go:285).
FilteredIsWellFormed ==
  (Decided /\ decision.allow) => WellFormed(decision.filtered)

\* Evaluate's verdict agrees with what became of the query, whatever the
\* policy's own `allow` was (evaluator.go:107): a query is allowed when there is
\* something in it the user may ask for, fields are reported as removed when he
\* asked for one he may not, and an invalid query passes nothing on.
DecisionAgrees ==
  Decided =>
    LET asked == Asked(request.doc)
        may == {leaf \in asked : MayAsk(leaf, FilterTarget)}
    IN /\ decision.allow <=> request.valid /\ may # {}
       /\ (decision.removed # {}) <=> request.valid /\ may # asked
       /\ ~decision.allow => decision.filtered = NoQuery /\ decision.reasons # {}
=============================================================================
