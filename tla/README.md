# Verification of envoy-opa-graphql-rewriter-demo

TLA+ models of this repository's own logic, the TLC runs that check them on
small instances, and TLAPS proofs of what holds for every size. Paths below are
relative to `src/`; `todo-server/…`, `graphql-server/…`, `authz-server/…`,
`envoy/…` and `docs/…` lie in `envoy-opa-graphql-demo/`.

## 1. The system

The repository holds one federated demo and three smaller programs around the
same idea, taking out of a GraphQL query what its sender may not read.

```
client -> Envoy --ext_authz--> authz-server (JWT, OPA policy, query rewriter)
            |  Lua: swap the body
            v
        Cosmo Router -> graphql-server   employees, updates, subscriptions
                     -> todo-server      todos  --events--> Kafka --EDFS--> Router

graphql-rewiter     HTTP service / CLI: remove fields by path, inline fragments
graphql-opa         policy evaluation that returns a filtered query
demo-opa-graphql    a GraphQL server whose resolvers ask OPA before they act
```

| component | state | operations | talks to |
|---|---|---|---|
| todo-server mutations | `todos`, `todosByEmployee` under `mu`; atomic `sequence` | createTodo, updateTodo, deleteTodo, each with a rollback | Kafka, without `mu` held |
| todo-server queries | the same | employeeTodos, todoByID, two entity resolvers | router |
| Kafka publisher | the writer; the topic, which outlives the process | PublishTodoEvent | broker |
| graphql-server queries and updates | `employees` under `mu` | employeeByID, employees, updateEmployee, an entity resolver | event bus, with `mu` held |
| event bus | `subscribers` under its own `mu`; a channel of one per subscriber | Subscribe, Unsubscribe, Publish | forwarders |
| subscription | goroutine, a second channel of one, the client's context | employeeUpdated | bus, generated response loop |
| authz-server Check | none between requests | token, body, policy, rewrite | Envoy (gRPC), OPA (library) |
| field rewriter | the parsed document | RewriteBody | gqlparser |
| Envoy | the request in hand | ext_authz with a 5 s timeout, Lua filter | authz-server, router |
| graphql-rewiter | the parsed document, changed in place | handleRewrite, RewriteQuery | gqlparser |
| graphql-opa | fragment variants of one query | Evaluate, filterGraphQLQuery | OPA, gqlparser |
| demo-opa-graphql | `users`, `postSeq` under `mu` | JWT middleware, me, createPost, publicInfo | OPA |
| generated code | a slot per field of a request, counters of nulls and of goroutines | Exec, _Query, _Mutation, marshal functions, __resolve_entities | the resolvers of the three GraphQL servers |

What is hard here:

* **A mutation is not one step.** The todo resolvers change the maps under the
  lock, let go, wait for Kafka, and take the lock again to undo. Everything
  other requests did in between is there when they undo.
* **Failure is ambiguous.** WriteMessages can fail with the event stored, stored
  later, or stored twice; the process can die between any two steps, and the
  topic stays.
* **Pointers travel.** The bus passes the live `*Employee`, which is read field
  by field without the lock; createTodo passes the live `*Todo`; the queries of
  graphql-server return pointers that are marshalled after the lock is gone.
* **An answer is put together by many goroutines**: one per root field, item,
  group of entities and representation. Each writes its place, counts its null
  and reports its end.
* **Two goroutines and a consumer that may stop reading** share bounded
  channels, of which one gets closed.
* **Removing from a tree** leaves holes (empty selection sets, spreads without
  definitions), and named fragments have no path of their own.
* **Nodes are shared**: graphql-rewiter rewrites a fragment in place once per
  spread. graphql-opa clones instead, and has to keep the clones apart.

What makes each component correct:

* todo-server: map and index agree; a failed mutation leaves nothing, a
  successful one everything, and where concurrency breaks that, it does so in
  exactly the known ways; events are truthful and their ids unambiguous; every
  request is answered.
* event bus: no send on a closed channel; no forwarder without a client; no
  update waits for a client; order, filter, and nothing lost but by the one
  documented kind of drop.
* gateway: what goes upstream of a query it rewrites is what the policy permits,
  all of it, well formed; everything else is refused, and refused only for cause.
* graphql-rewiter: no removed path is printed, nothing else is lost.
* graphql-opa: per operation and target id, the same; variants never confuse
  two contexts; the verdict agrees with what is left.
* demo-opa-graphql: nothing happens before authorization; ids are unique; `me`
  shows nobody else's roles.
* GraphQL execution: null exactly where the schema allows it, entities at their
  places, mutations in their order, no answer older than an earlier one, and an
  answer to every request.

`PROJECT.json` lists the components with their status and 40 hazards, each at
its line, with the properties that would notice.

## 2. Modules

| module | models | source |
|---|---|---|
| `TodoStore` | resolver, mutations, publisher, topic, restarts | `todo-server/graph/{resolver,schema.resolvers,events}.go` |
| `TodoContract` | abstract: what mutations promise to clients that take turns | |
| `TodoSettled` | the mapping from `TodoStore` to `TodoContract` | |
| `TodoGuarantees`, `TodoTurns` | the inductive invariants of several requests: at will, and taking turns | |
| `TodoStoreProofs`, `TodoTurnsProofs` | theorems about `TodoStore` and its contract | |
| `EmployeeBus` | updateEmployee, EventBus, employeeUpdated, the consumer | `graphql-server/graph/{pubsub,schema.resolvers}.go` |
| `EmployeeBusProofs` | theorems about `EmployeeBus` | |
| `GraphQLTree` | documents as authz-server's rewriter holds them, what they ask for, when they are well formed | gqlparser's `ast`, as `rewriter.go` uses it |
| `FieldRewriter` | removal of denied fields | `authz-server/internal/rewriter/rewriter.go` |
| `ExtAuthz` | Check, the policy, Envoy's two filters; composes `FieldRewriter` | `authz-server/internal/*`, `policy/`, `envoy/envoy.yaml` |
| `ExtAuthzProofs` | theorems about `ExtAuthz` and `FieldRewriter` | |
| `PathRewriter` | handleRewrite and RewriteQuery | `graphql-rewiter/{rewriter,server}.go` |
| `PathRewriterProofs` | theorems about `PathRewriter` | |
| `QueryFilter` | Evaluate and the query filter | `graphql-opa/internal/authz/{evaluator,query_filter}.go`, `policy/` |
| `GeneratedCode` | marshal functions and null counts of every type, as tables | `generated.go` of the three GraphQL servers |
| `GraphQLSchemas` | the schemas the tables are compared with | `schema.graphqls`, the sources in `generated.go` |
| `Marshalling` | from a resolver's result to the answer, as the code and as GraphQL does it | `generated.go` |
| `GraphQLExecution` | requests, their fields, order and concurrency; introspection | `Exec`, `_Query`, `_Mutation` in `generated.go` |
| `Federation` | `_entities` | `generated/federation.go` of the two subgraphs |
| `TodoQueries` | todo-server's resolvers by their results | `todo-server/graph/*.resolvers.go` |
| `EmployeeQueries` | graphql-server's queries and mutation on live pointers | `graphql-server/graph/*.resolvers.go` |
| `DemoServer` | token, policy and resolvers of demo-opa-graphql | `demo-opa-graphql/{internal/security,policy,graph}` |
| `GraphQLServers` | composes the four above; what answers promise about pointers, order and authorization | |
| `GraphQLAnswers` | the answer's data, by the code and by the schema, with `Marshalling` | `generated.go` |
| `GraphQLInvariants`, `GraphQLServersProofs` | the inductive invariants of `GraphQLServers`; theorems | |
| `EntitiesProofs` | theorems about `_entities` | |
| `DataInduction` | induction for proofs about loops and recursive functions | |
| `MC…` | constants, generators of inputs and symmetry for TLC | |

Sections headed "Faulty variants" hold mistakes one could make in an operation;
no specification uses them. Putting one in the place of the operation it names
breaks a property, which shows that the property depends on the code
(`PROJECT.json`, "mutants").

### TodoStore

Variables carry the names of `Resolver`'s fields; `pc`, `call`, `event` and
`reply` are the locals of the mutation a request runs, `log` is the topic and `epoch` counts
restarts. One region under `r.mu` is one action.

| code | action |
|---|---|
| createTodo: `nextTodoID` / locked insertion | `AllocateTodo` / `InsertTodo` |
| `publishTodoEvent(ctx, "created", todo)`, which reads the live todo unlocked | `ReadTodoText`, `ReadTodoFlags` |
| createTodo: `cloneTodo(todo)` for the answer, of the live todo, unlocked | `CloneTodoText`, `CloneTodoFlags` |
| updateTodo, deleteTodo: locked region and the clone that is published | `UpdateTodo`, `DeleteTodo` (by `Start`) |
| "not found" | `RejectMutation` |
| the three rollbacks | `RollBackCreate`, `RollBackUpdate`, `RollBackDelete` |
| WriteMessages: the broker's side, and both ways it returns | `KafkaAppend`, `PublishSucceeds`, `PublishFails` |
| process restart, NewResolver | `Restart` |
| employeeTodos, todoByID and the entity resolvers | operators `EmployeeTodos`, `TodoByID` |

A text is named by the request that wrote it. A string read while another
request assigns it may come out with one's pointer and the other's length: the
value `Torn`, a possible outcome of `ReadTodoFlags` and `CloneTodoFlags` when
the text changed since the step before (`TextsRead`). (A text that changed and changed back between the two reads is
not torn in the model.) `Content` and `Deleted` are the only fields others write
that the event and the answer carry, so two reads are enough.

A topic keeps one order per key (`employeeID`, with a hash balancer); the model
has one order for all, and no property compares events of different employees.
kafka-go's writer retries and is not idempotent, and what an attempt that timed
out had sent may still arrive from its old connection. So `KafkaAppend` has no
end: an event may be stored while WriteMessages waits, when it has failed, and
once more after it succeeded, behind the todo's next event. A repeat is the same
message, with the `event_id` the mutation gave it (`by`); `IsRepeat` is what a
consumer that remembers the ids can tell.

### EmployeeBus

| code | action |
|---|---|
| updateEmployee to the end of the first / second assignment | `UpdateName` (`RejectUpdate`) / `UpdateSalary` |
| `Publish`: one subscriber's `select` / return, unlock | `SendTo` / `FinishUpdate` |
| `Subscribe` and start of the goroutine | `Subscribe` |
| outer `select`: `<-ch`; inner: `out <- emp`; either: `<-ctx.Done()` | `TakeEvent`, `Forward`, `NoticeCancel` |
| the deferred `Unsubscribe`, then `close(out)` | `Unsubscribe`, `CloseOut` |
| generated response loop: receive and read the name, read the salary, end | `Receive`, `Marshal`, `EndStream` |
| the client's context | `Cancel` |

`r.mu` is held from `UpdateName` to `FinishUpdate`, `eb.mu` for reading from
`UpdateSalary` (whose end is the `RLock`) to `FinishUpdate`. What travels is the
id of an employee, standing for the pointer; `due`, `seen` and `missed` are
history and guard nothing.

### ExtAuthz, FieldRewriter, GraphQLTree

The steps of `Check` are actions with the early returns as alternatives
(`ParseToken`, `ParseBody`, `Evaluate`, `EvaluationFails`, `DenyByPolicy`,
`AllowUnchanged`, `RefuseUnrewritable`, `RewriteQuery`), Envoy's are `Forward`
(with the Lua filter's swap), `Reject` and `TimeOut`.

A document is its nodes in the order of the text, each with its parent, and the
set `left` of those the rewriter left in the selection set they were in. That is
how the code works: it shortens slices in place and never makes a node. A node
is printed if it and all that is around it were left (`Present`). Names, nesting
and kinds of selections decide what this code does; order, arguments, aliases
and directives do not. Aliases in particular are ignored by the code, which
looks at `node.Name`.

`RemoveFields` has the three passes of `removeFields`: `Filter` on fragments and
operations, `WithoutSpreads` for the spreads of fragments that became empty, and
the two places where an empty operation is an error. `filterSelectionSet`
decides by a path on the way down and by emptiness on the way up, so it is two
functions: `Refused`, the fields `isDenied` at their paths (`Places`), and
`Filter`, which keeps what is not refused and has a selection left if it had
any. What a document asks for is defined by where its nodes stand once fragments
are expanded: `Standing` goes from spread to spread, as many times as there are
fragments, which is as far as a document without cycles goes.

Check and the rewriter read a body differently. Check decodes into a struct: Go
takes the key `query` in any spelling, and the last one that is there. The
rewriter looks `query` up in a map. So a request has its `body`, as the key
`query` gives it, and `other`: what Check reads under another spelling, if that
is what it reads. `HasQuery` is the test `gqlBody.Query != ""`; without a string
under `query`, `RewriteBody` hands the body back as it is.

Assumptions: clients do not send `x-rewritten-body` themselves; documents are
written against the federated schema; the formatter prints an empty selection
set as nothing.

### PathRewriter

Here order and sharing matter, so the document is a heap: a node has an id, a
selection set is a sequence of ids, and a fragment that is spread twice is one
set of nodes that two places share. `stack` has the calls of rewriteSelectionSet
under way, each with its set, its path, the place of its loop (`at`) and what it
returns so far (`kept`, the code's `out`). A step is one turn of a loop, or a
return, so every state between two writes to the document is a state of the
model.

| action | code |
|---|---|
| `Refuse`, `BuildRemovedSet` | the checks of handleRewrite and decisionPayload; removedSet with normalizePath |
| `RewriteOperation`, `FinishOperation` | a turn of the loop over doc.Operations: the call for an operation, and what it gives |
| `DropSelection` | shouldRemove, or a spread of an unknown fragment |
| `KeepField` | a field without selections |
| `CallItself` | the recursive call, of a field's or inline fragment's selections or of a fragment's |
| `Return` | writes what is left to the node (not to a fragment's definition) and appends it to the caller's out, or what is left of a spread (`Left`) |
| `Finish` | doc.Fragments = nil, printed, 200 |

Documents have no cyclic fragments (`IsDocument`): the code would not return.
What the properties say is defined apart from the rewriting: `Contents` is what
each node comes to when all fragments are expanded, with its path.

### QueryFilter

`Evaluate` has three ends: `EvaluateDecision` (an invalid query is decided
alone by the policy), `FilterGraphQLQuery` and `EvaluationFails`. The filter is
a function of the request: `FilterDocument` walks the operations, and a record
`f` carries `queryFilter`'s maps through the recursion, in the order of the
code, because that order decides which fragment gets its plain name. Names are
strings here: the suffixes and numbers of `generateFragmentName` are what the
hazard is about.

A request is a query OPA has validated against its schema, so no fragment is
cyclic, unknown or unused: `ensureFragmentVariant` meets a variant that is still
being filtered for none of these. The policy's Rego is modelled by
`CanReadSalary`. `ResolveTargetID` takes what gqlparser gives for an argument of
an unvalidated document: strings and variables, but neither numbers nor the
defaults of variables. There the filter is stricter than it need be, never laxer,
which `AsksForThePermitted` states by its two readings of an argument.

### The GraphQL servers

`GraphQLServers` is one module for three programs, because they are the same
program with other tables: gqlgen generated their execution. Init chooses a
workload, a server with requests each of which is sent once, at any time.
`Begin` and `Answer` are the ends of `Exec`; each root field has a slot, whose
`st` goes from "waiting" over "resolving" (entities), "writing" (updateEmployee
in its locked region) and "marshalling" (live pointers) to "done".

| code | definition |
|---|---|
| the loops of `_Query` (`__type` and `__schema` inline, the others by `out.Concurrently`) and `_Mutation` (in turn) | `Before`, `MayStart` |
| `out.Dispatch`, then marshal | `Answer` |
| `_T` with its `out.Invalids`, `marshalN…`, `marshalO…`, lists | `GeneratedCode`'s tables, read by `Marshalling` |
| `__resolve_entities`, groups and their goroutines, `e.Done` | `ResolveEntities`, `EntityReturned` |
| updateEmployee: lock, assignments, Publish and unlock | `StartUpdate`, `WriteWord`, `FinishUpdate` |
| `_Employee_name`, `_Employee_salary` on the pointer | `ReadWord` |
| JWTMiddleware | `Admitted`, `Refuse` |
| authorize | `Allow`, `AuthorizeFails` |
| lookupUser, nextPostID | `LookupUser` in `Me`, `CreatePost` |

A Go string is two words, and an employee's name is read and written as such
(`nameData`, `nameLen`): the run contains answers with a torn name, a data race
of the code that no document speaks of. Every word has the number of times it
was written, which is what the properties compare. Fields are marshalled in the
order name, salary, the order of a client that selects them so. `AuthorizeFails`
is possible for every input, since evaluation fails when the request's context
ends. `after` is history and guards nothing.

The tables are compared with the schemas, not assumed: `AnswerFollowsSchema`
computes the answer with the code's counts (`MarshalField`) and with GraphQL's
rule for null (`Completed`) from `schema.graphqls`. The introspection part is
the same in the three servers and translated from todo-server's. The answers of
`__type` and `__schema` are samples of what the introspection library gives.
`AnswerFollowsSchema` stands in `GraphQLAnswers`, a module of its own above
`GraphQLServers`, because `Marshalling` is recursive and nothing could be proved
about a module that reaches it.

## 3. Runs

All finish within two and a half minutes on two workers.

| run | instance | distinct states | what it shows |
|---|---|---|---|
| `todo_races` | 3 mutations at will, 2 employees, 2 seeded todos | 302 k | the index, what rollbacks can undo of each other's work |
| `todo_turns` | the same, one mutation per todo at a time, and 1 repeat of any event at any time | 418 k | `TodoStore` implements `TodoContract`; the last event, repeats aside, describes the todo; `TurnsAndEventsInv` |
| `todo_restart` | 2 mutations, 2 repeats of events, 1 restart, fairness | 133 k | `GuaranteesInv`, unique ids per process, every request answered |
| `bus_safety` | 2 updates, 2 subscriptions, 2 employees | 1.8 M | `BusInv`, closed channels, order and filter, what can be lost |
| `bus_liveness` | 2 updates, 1 subscription, 2 employees, fairness | 54 k | release after cancelling, updates answered, updates arrive |
| `gateway` | 817 requests (723 well-formed documents, all of them `Valid`), 4 policies | 44 k | permitted and only permitted fields go upstream, well formed |
| `gateway_salary_docs` | the same, deployed policy | | violation, finding 1 |
| `gateway_all_denied` | the same, `salary` denied everywhere | | violation, finding 2 |
| `path_rewriter` | 3,435 requests: one and two operations, two fragments, 7 removal lists | 71 k | removed paths gone, everything else there |
| `path_rewriter_shared` | the same | | violation, finding 3 |
| `query_filter` | every well-formed query of the families in `MCQueryFilter`: 2 users, literal, number and variable ids | 25 k | the filtered query asks for all that is permitted and nothing else, is well formed, and the verdict fits it |
| `graphql_servers` | 441 workloads of 1 to 3 requests on the three servers, fairness | 93 k | null, places, order, age of answers, authorization, every request answered |

**Bounds, and why they are enough.** The races of the todo store are between a
mutation, one that reaches its todo between its two regions, and a third that
sees the result: an update that restores what a failed update wrote needs
exactly three. Two employees with one todo each separate "this employee's
index" from "another's", and createTodo adds up to three todos. `MaxRepeats = 0`
is enough where nothing depends on the topic's order (`todo_races`); one repeat
suffices to end the topic in an old event (`todo_turns`), and the run with
restarts allows 2, one for each event or both for one. `MaxRestarts = 1` puts a restart between any two steps. A second
update fills a subscriber's channel while the first event waits, and the other
employee is the one whose event gets dropped or drops another's; with two
subscriptions one comes or goes while the other is being published to. The
documents put the sensitive leaf under two roots, directly, in an inline
fragment, in a named fragment on Employee and in one on Query that spreads it,
with and without a sibling that stays. The path rewriter's put a fragment at
none, one or both of two roots, alone, before and behind other selections, and
within another. The query filter's have a fragment in up to three contexts, a
second one with the name the first would get, one on Query that holds another
employeeByID, and a second operation after the first took its names. The
workloads have every sequence of up to three representations of five kinds (both
types, a missing key, an unknown type, no type); two updates and a reader, an
update and two readers in turn, updates of one mutation on one employee; and
every pair of the demo's requests under eight tokens, with three `me` of one
subject under different roles.

**The invariants behind the proofs are checked too**: `GuaranteesInv` (which
contains `StoreInv`, and that type correctness) in `todo_restart`, where the
process may die at any point; `TurnsAndEventsInv` in `todo_turns`; `BusInv`,
with the types of the bus, in `bus_safety`. Of `ServersInv` the run
`graphql_servers` checks the parts that are properties in their own right, and of
`GatewayInv` the run `gateway` checks what the properties draw from it.
`PrintingInv` was checked on the instance of `path_rewriter` before it was
proved; `RewritingInv` speaks of all the heaps a document may become (`Stands`),
which TLC cannot go through, so there the run checks what follows from it.

**Properties worth naming.** `HiddenOnlyByFailedUpdate`, `AckedTextSurvives`,
`FailedTextGone` and `AckedDeleteSticks` are exact statements of weak guarantees:
the code does lose acknowledged writes to another request's rollback, and these
say that nothing else loses them. They are the reason to keep this model beside
the code: a change that makes rollbacks compare before they write lets the
exceptions be struck out, and one that makes things worse breaks them.
`ImplementsContract` is the strong statement, for clients that wait.
`CreatedReportsTruthful` bounds what createTodo's two unlocked reads can tell:
only what a concurrent mutation wrote, and the answer goes back on the event
only when a mutation failed in between.
`PublishedIsSeenOrUnderWay` separates the harmless drop (the waiting event
points to the same employee, so its fields are the newest anyway) from the drop
that loses an update (`missed`): a subscriber filtered on one employee loses an
update to an event about another, because the filter stands behind the channel.
`OnlyPermittedGoesUpstream` speaks of the query under the key `query`, and there
excepts one way, a rule with a path inside a named fragment: not inline
fragments, nested fields, a second operation, other rules, unreadable
privileges, a GET or a form. It promises nothing of a query under another
spelling of the key: Check takes that for the query, the rewriter does not see
it, and a body without another one goes upstream as it came. Whether the router
reads such a key is outside src/.
`PermittedGoesUpstream` and `RefusedForCause` speak of `Valid` queries: well
formed, with one definition per fragment name (the code takes out every spread
of a name one of whose definitions it emptied), and rules with a path that begin
at a field of the root types (the code looks for a path in each fragment anew, so
`todos.content` denied at the root is taken out of a fragment on Employee, too).
A document that breaks the first two is refused by the router anyway; the third
holds of the deployed rule, `employeeByID.salary`.

`LastEventDescribesTodo` is for consumers that skip repeats, because the plain
last message of the topic may be a late copy of an older event although every
mutation succeeded.
`AnswerFollowsSchema` shows nulls at the root and in lists, where this code's
resolvers can leave them. They never leave a required field inside an object
null; the counts of those, and all marshal functions, are compared with the
schemas as tables (`TablesFollowSchema`, an assumption TLC evaluates in that
run). `NeverGoesBack`, `MutationsInOrder` and
`NamesAreWhole` say what a client may rely on although pointers are read without
the lock: an answer may be a mix, but never of anything older than an answer the
client already had, and what stays in the map is whole. `RolesShown` holds
although the demo keeps an unknown subject's first roles for ever: it says that
these and the token's are all that is shown. `AsksForThePermitted` compares the
filtered query with the original leaf by leaf, by the paths and id arguments a
server sees, after all fragments are expanded: names may not matter.

**Fairness.** `todo_restart` assumes that a request in flight goes on
(`WF(Continue(r))`): goroutines are scheduled, the locks are held for map
accesses only, and WriteMessages returns, because kafka-go bounds attempts and
their timeouts. Whether it succeeds is not assumed. `bus_liveness` assumes the
same of updates and forwarders, and strong fairness of `Unsubscribe`: it waits
for a write lock that publishers hold for reading again and again, and Go's
RWMutex keeps new readers out while a writer waits. Nothing is assumed of
clients: they may stop reading or never cancel. `UpdateReachesConsumer` has its
consumers' fairness as a premise. `graphql_servers` assumes that a request under
way goes on: its goroutines are scheduled, r.mu is held for the length of an
update, and a sync.RWMutex lets every waiter in; nothing is assumed of clients,
who may never send a request. Safety runs assume none. No run switches the
deadlock check off: `AllAnswered`, `Quiet`, `Finished` and `Done` are the ends
the programs really have.

## 4. Findings

1. `gateway_salary_docs`: `docs/opa-policy-spec.md:235` restricts `salary` in
   all operations; `graphql_authz.rego:27` denies `employeeByID.salary` only, so
   `employees { salary }` goes upstream unchanged.
2. `gateway_all_denied`: `rewriter.go:15` says a query all of whose fields are
   denied is ErrEmptyQuery. Pass 3 (`rewriter.go:219`) keeps a field whose last
   spread it removed, and the query goes upstream without the sub-selections it
   needs.
3. `path_rewriter_shared`: `graphql-rewiter/rewriter.go:81` says object fields
   without sub-selections are dropped. With a fragment spread at two paths, the
   second rewriting empties a node the first has already returned.

Three differences met on the way have no run: `docs/opa-policy-spec.md:273`
expects 401 for unauthenticated requests while `Check` maps the policy's refusal
to 403 (only a bad token is 401); `rewriter.go:129` says that only global
rules apply in fragments, while rules with a path do apply, relative to the
fragment's start; and `server.go:115` refuses a body without a query because
restrictions cannot be enforced on it, while one whose query stands only under
another spelling of the key passes that test and is handed on as it is.

## 5. Proofs

Eight modules hold theorems, `DataInduction` the lemmas for induction, all of
them for every value of the constants. What TLC shows on an instance of the
safety properties of `TodoStore`, `EmployeeBus`, `GraphQLServers`, `ExtAuthz`
and `PathRewriter`, they show for any number of requests, employees, subscriptions, repeated events, restarts and fields, for any
documents and policies, and for clients that take turns or not, unless a theorem
says otherwise in its hypotheses.

| theorem | statement, short |
|---|---|
| **`TodoStoreProofs`** | |
| `StoreInvInductive`, `TypeCorrect`, `IndexAlwaysSound` | `Spec => []StoreInv`, `[]TypeOK`, `[]IndexSound` |
| `ListingIsIndex` | the `continue` in listTodosByEmployeeNoLock is never taken |
| `FailedCreateGone` | `Spec => []FailedCreateLeavesNoTrace` |
| `GuaranteesInvAlways` | `Spec => []GuaranteesInv` |
| `HiddenOnlyByFailedUpdateAlways`, `CreatedTodoListedAlways`, `AckedTextSurvivesAlways`, `FailedTextGoneAlways`, `AckedDeleteSticksAlways` | what a rollback can do to other requests' work, and nothing else can |
| `CreatedReportsTruthfulAlways` | what createTodo tells without the lock |
| `IdsUniqueInEpochAlways` | event ids are unambiguous while the process runs |
| **`TodoTurnsProofs`**, for `ClientsTakeTurns` | |
| `TurnsAndEventsAlways` | `Spec => []TurnsAndEventsInv` |
| `LastEventDescribesTodoAlways` | a todo's last event that is no repeat describes it, however late repeats arrive |
| `ContractImplemented` | `Spec => ImplementsContract`: the refinement |
| **`EmployeeBusProofs`** | |
| `BusInvAlways`, `BusTypeCorrect` | `Spec => []BusInv`, `[]TypeOK` |
| `NeverSendsOnClosedAlways`, `InOrderOnceMatchingAlways`, `PublishedIsSeenOrUnderWayAlways` | the run's safety properties of the bus |
| **`GraphQLServersProofs`** | |
| `PointersInvAlways`, `ServersInvAlways` | `Spec => []PointersInv`, `[]ServersInv` |
| `NeverGoesBackAlways`, `NamesAreWholeAlways`, `MutationsInOrderAlways` | what clients may rely on although pointers are read without the lock |
| `PostsAreAuthorizedAlways`, `RolesShownAlways` | demo-opa-graphql: posts and roles |
| **`EntitiesProofs`** | |
| `EntitiesInvAlways`, `EntitiesInPlaceAlways` | `Spec => []EntitiesInv`, `[]EntitiesInPlace` |
| **`ExtAuthzProofs`** | |
| `GatewayInvariant`, `TypeCorrect` | `Spec => []GatewayInv`, `[]TypeOK` |
| `OnlyPermitted` | whatever the document and the policy, nothing denied goes upstream under the key `query` but by a path through a named fragment |
| `AllPermitted` | of a valid document that goes upstream, all that is not denied does |
| `RefusalHasCause` | a valid document is refused only if an operation asks for nothing else than denied fields |
| `StaysWellFormed` | what goes upstream is well formed if what came was |
| **`PathRewriterProofs`** | |
| `RewritingInvariant`, `TypeCorrect` | `Spec => []RewritingInv`, `[]TypeOK`: types, and no spread is left in what was rewritten |
| `RemovedIsNotPrintedAlways` | no removed field is printed, whatever nodes the document shares |
| `PrintingInvariant`, `OthersArePrintedAlways` | of a document that spreads no fragment twice: every other field is printed, and no selection set is left empty |

**Assumptions on constants.** `TodoStore`: `SeedAssumption` (both seeded todos
have an owner among the employees), `TextAssumption` and `NoneAssumption` (the
names of texts and of "no value" are not something else), `BoundAssumption` (the
bounds are numbers). `EmployeeBus`: `NoneAssumption`. `GraphQLServers`:
`WorkloadAssumption` (a request of a workload is a sequence of calls of fields
that the server's root type has, and the argument of `_entities` is a list) and `RolesAssumption` (a role list is finite).
`ExtAuthz`: `RequestAssumption` (a body is of one of five kinds, an empty one has no other spelling of the key, a document is
one the parser makes: a forest in which no braces are empty; a denied field has
a name). `PathRewriter`: `RequestAssumption` (operations and removed fields are
sequences; a document is one the parser makes, of finitely many nodes, each in
one selection set at one place, whose fragments are not cyclic).
TLC evaluates each of them in the runs. Theorems of `TodoTurnsProofs` have two
hypotheses: `ClientsTakeTurns` (one mutation per todo at a time, and the process
is not restarted, since the maps do not outlive it and the contract promises
that todos stay) and that `Requests` is finite, because the contract's ids are
`1..(2 + Cardinality(Requests))`.

### TodoStore

`IndexSound` alone is not inductive. A rollback of deleteTodo
indexes its todo again, which is sound only because the todo it saved was not
deleted (`LocalsOK`) and because it looks whether the todo still exists. A
rollback of updateTodo writes `Deleted`, which is sound only because it can only
write FALSE: what it saved was found. An insertion is sound only if its id is
fresh: ids in the map and in the hands of createTodo calls are at most
`sequence`, and no two calls have the same (`IdsHandedOut`). And createTodo's
rollback removes the index entry of the employee it was called for, which is the
only bucket that can hold the id because the todo in the map is still that
employee's (`CreatedInMap`). `StoreInv` is the conjunction; `CreatedInMap` at the
label "failed" together with `IndexSound` gives `FailedCreateLeavesNoTrace`.
Each action has a lemma (`…Keeps`), with one step per conjunct it can disturb.

**Guarantees under races.** The properties speak of mutations that ended; the
invariant has to speak of those under way as well. `RacesInv` says, from the
moment a mutation writes, what excuses there are for its effect not to be there.
The core is `TextsOK`: if the todo's text is not r's although r's write stands,
then some other update u either stands with its own text, or failed and put back
a text that is not r's, which one formula covers: `pc[u] = "failed" <=>
call[u].original.content # r`. It is inductive because an update saves the text
it overwrites, so that a rollback that hides r's text is itself the excuse, and
a rollback that fails *after* u succeeded finds u's `original`. This needs that
the texts of different requests differ and one not begun has no text anywhere
(`IdleTextNowhere`), and that nobody reaches an id before it is in the map
(`CreatorsApart`). `ReportsInv` follows a text or a deletion from the write of a
mutation that reached the todo (`Reached`) to createTodo's event, answer and
the topic, in this order; that the answer goes back on the event only after a
failure (`TakenBack`) is a relation between the event and the live todo that
every later write has to keep. The
proof does not go through every action for every property: `StepKinds` shows once that every
step is one of nine kinds (a request moves on, an event is stored, an id is given
out, a todo inserted, changed, put back, …), and each part of the invariant is
kept per kind.

**Taking turns, and the refinement.** `HeldOK` is the heart: from its change to
its end a mutation finds the todo as it left it. With it, what the contract
calls the state (`TodoSettled`: the todos without what is still unpublished) can
be computed from the locals of the one mutation in flight. `StepsImplement` maps
every step: publishing that succeeds is the contract's create, update or
delete; a rollback or a rejection is its refusal; allocation, insertion, reads, clones and the
broker's steps stutter (`AllocatedSettlesNothing`, `MovedImplements`, …). A
todo is listed exactly if it is live (`LiveListed`), which is what makes the index
follow. For `LastEventDescribesTodo`, `OwnEventLast` says that while r publishes
nobody else's event about its todo arrives for the first time. Late copies do
not matter because what was acknowledged is on the topic already
(`Acknowledged`): a first copy that arrives is of a mutation that is still
publishing or has failed, every other one is a repeat and leaves `IsLast` alone.

### EmployeeBus

`BusInv` consists of the types; who holds which lock (`JobOK`: one update at a
time; `VisitsOK`: the subscribers still to visit are registered, so none is
closed); where each forwarder is and what it holds (`LifeOK`); and what the
events in the five places of a subscription are to each other. `OrderOK` orders
the places (marshalled, queued, in hand, waiting) by sequence number and says
that an event that is still to visit s is newer than all s carries, so that
taking, forwarding and dropping keep the order. `FilterOK` says that what passed
the filter matches it, `FieldsOK` that published and seen fields are not ahead of
the employee's, and `SeenOK` is `PublishedIsSeenOrUnderWay` by places, with the
event of which the name has been read and the salary has not. The drop in `SendTo` keeps `SeenOK` because the
waiting event is about the same employee or the update goes into `missed`.

### GraphQLServers

The first half of `GraphQLServersProofs` reduces the actions of three servers to
five kinds of steps, as far as pointers are concerned: a field gets a result, or
part of one (`Resolved`), an update begins (`UpdateBegun`), writes a word (`WordWritten`), a
word is shown (`WordShown`), a request is taken up, refused or answered (`PhaseMoved`). The
second half keeps `PointersInv` per kind: a word shown or written is never newer
than the map's (`WordsOK`), so a word read later is not older than one an
earlier answer showed (`NeverGoesBack`, which is inductive with it because an
answered request shows nothing any more, `StagesOK`); one slot at most is
writing and its words are the newest (`WritersOK`), so a name is whole unless
that slot has a word left (`WholeOK`), and whole when it is done. `WritesInOrder`
needs that a mutation's later fields have not begun. For
demo-opa-graphql three more kinds suffice (`NothingMade`, `PostMade`,
`UserFound`), and `DemoInv`: ids are handed out ascending and belong to
authorized callers, a stored user has the seeded roles or those of a token that
asked for `me`, and what `me` shows is what is stored joined with its token's roles.

### _entities

`PlacesOK` says of each place of the list where its representation is: while
its goroutine runs (some task in `left` has its index) the place is empty and
without an error; afterwards it has the entity, with the representation's type
and key, or the error, exactly if no resolver takes the representation. It
needs that a task belongs to exactly one place, of its own type, and that every
place whose representation has a type has a task. Those are facts about the
loop of `buildRepresentationGroups`, for lists of any length:
`LoopExists` shows that the recursive function `Group` is defined by exists,
`LoopSelects` that after n turns the group holds, in rising order, the indexes
up to n of the type's representations, and `GroupFacts` what follows for the
resolvers. Both are inductions over n with `SetInduction`, which
`DataInduction` derives from the library's theorem on minimal elements.
`EntitiesInv` is `PointersInv` with `PlacesOK`; an answered request has no
goroutine left, and `EntitiesInPlace` follows.

### ExtAuthz

`GatewayInv` is about control: what was decided is what the policy makes of the
token (`Evaluated`) or, until then and when the evaluation failed, the default;
an answer "ok" carries no body exactly when nothing is denied, and else what
`RemoveFields` made of the document, or the body as it came if it has a query
only under another spelling of the key; a document is refused behind the policy
only when `RemoveFields` failed; and upstream has the answer's body if there is
one, the request's if not. The rest is about documents, for all of them:

* *The functions.* `Places`, `Filter`'s and `Standing` are recursive, so each has a lemma
  that it exists (`PlacesExist`, `KeepsExist`, `StandExists`: by induction, with
  `SetInduction`, over the order of the nodes, backwards for the second, whose
  equation looks at children, and over the number of spreads). `NodeInduction` then proves facts from parents
  to children.
* *Nothing denied is left.* A node that is still there was kept, and so was all
  around it, so no name on its path within its definition is denied by itself and
  no prefix of that path by a rule (`Survivors`).
  Expanding fragments concatenates such paths: a rule of one name cannot begin to
  apply (`NoNameDenied`), a rule with a path can, which is the exception the
  property makes (`NothingDeniedIsLeft`).
* *Nothing else is gone.* Everything on the way to a leaf that is not denied
  is refused nowhere (`NotRefused`), though the code looks at
  paths within a fragment and the property at paths from the operation: this is
  where `Valid` is needed. So each is kept for the sake of the next (`Held`),
  and a spread on the way is not taken out since its fragment was not emptied
  (`AliveStands`, `OthersAreLeft`). If an operation is lost, all its leaves were denied, which is
  `RefusalHasCause`.
* *No holes.* The first pass keeps what has selections only with one of them;
  when no fragment is emptied the third removes nothing, and every fragment
  stays spread because no field around a spread is denied (`FragmentKept`,
  `WellFormedIsLeft`).

### PathRewriter

The proof has to deal with a program that changes the nodes it is walking over,
and may come to the same nodes again.

* *Heaps.* A document without cycles gives each node a rank above the nodes it
  holds and those of the fragment it spreads (`Ranks`). Whatever the rewriting
  does, selection sets only lose nodes or get nodes of lower rank, so the ranks
  of the document serve for every heap (`IsHeap`), and by induction over them
  `Contents` is what its equation says.
* *No removed field is printed.* `RewritingInv` says of each call what is kept of
  the selections it has passed: it is `Clean` below the call's path (no spread,
  no removed path, at any depth), and each kept node can stand in the place of a
  selection of the set (`Stands`). `Stands` is about *every* heap of the
  document: that is what makes it survive the writes of later calls. Since a
  write leaves a node with less than it had (`WrittenShrinks`), what is clean
  stays clean, also when a second spread of a fragment changes nodes that the
  first has already returned. No assumption about sharing is needed, and the
  paths at which a fragment is met the second time may be others.
* *Every other field is.* With a shared fragment this is false (finding 3), so
  `PrintingInv` is for documents that spread no fragment twice. There each
  node is in one selection set, and each set in one place, so the nodes below two selections are
  apart or one holds the other (`Comparable`, `InnerApart`, `RootsApart`).
  What the calls have still to do is as the request had it (`Untouched`,
  `Pending`), and a node is written once, when its call returns; by then
  it is in nothing that was kept elsewhere and in nothing to come (`KeptElsewhere`,
  `KeptBelow`, `ReturnPlaces`). So what a call has kept comes to exactly what is
  owed for the selections it has passed (`Owed`: the leaves no removed path
  covers), and holds no empty set (`NoHole`), which is what `Does` says and what
  `OthersArePrinted` reads off when an operation is done.

### Only model-checked

* **Liveness** (`EveryRequestAnswered`, `CancelledIsReleased`,
  `UpdateIsAnswered`, `UpdateReachesConsumer`, `RequestIsAnswered`): fairness and
  ENABLED are out of the prover's reach.
* **Recursive operators.** What `QueryFilter` and `Marshalling` compute is
  written with RECURSIVE operators, with which the prover loses its SMT solver,
  so the properties of `QueryFilter` and `AnswerFollowsSchema` are for TLC.

## 6. Not modelled

* the texts of UpdatedAt and the order of employeeTodos by them.
* NoopPublisher: it always succeeds, one of the behaviours modelled.
* the operation type and top-level fields `Check` extracts for policies that
  read them; the deployed one does not. `rewriteBatch`, which `Check` cannot
  reach. `x-user-id`.
* signatures, base64, the Bloom filter's bits and its false positives.
* Cosmo Router, Kafka and OPA beyond how the code uses them; the libraries of
  gqlgen and gqlparser; commands, scripts, the HTML page.
* in generated code: the complexity tables (no server sets a limit), `@defer`
  (its groups are always empty here), `resolveManyEntities` (no type is multi),
  recovering from panics (no resolver panics), leaf scalars, and the checks of
  introspection code in graphql-server and demo-opa-graphql, a copy of
  todo-server's.
* variables that no field uses any more after graphql-opa or authz-server took a
  field out: no model has the definitions of variables.
* graphql-rewiter on cyclic fragments, and the operation it prints empty when
  every field is removed.

## 7. Plan

Done, in this order: `TodoStore` with its contract and proofs (the richest
state, the most failure modes), `EmployeeBus`, the gateway with its rewriter,
`PathRewriter`, `QueryFilter`, and the three GraphQL servers with their
generated code; then the safety properties of the store, the bus and the
servers as theorems, the refinement of `TodoContract`, and the theorems about
documents: `_entities`, the gateway and the path rewriter.

Left to prove:

1. `AnswerFollowsSchema`, by induction over a value's type, with the recursion of
   `Marshalling` turned into functions, as in `GraphQLTree`.
2. `QueryFilter`'s properties, with a step per selection and a stack of calls, as
   in `PathRewriter`, because its functions carry a record through the walk.
