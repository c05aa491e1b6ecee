---------------------------- MODULE TodoGuarantees ----------------------------
(***************************************************************************)
(* The inductive invariants behind the guarantees of TodoStore that        *)
(* concern several requests.  StoreInv relates the map to the index; these *)
(* relate what is in the map, in an event, in an answer and in the topic   *)
(* to the calls that put it there.                                         *)
(***************************************************************************)
EXTENDS TodoStore

Made(r) == call[r] # None

\* A request makes one call.  `original` holds r's own text in a create,
\* and the text r replaced, never r's own, in an update.
CallsOK ==
  \A r \in Requests :
    /\ pc[r] = "idle" => ~Made(r)
    /\ Current(r) => /\ InFlight(r) \/ pc[r] \in {"ok", "failed"}
                     /\ call[r].id <= sequence
    /\ (Made(r) /\ call[r].op = "create") => call[r].original.content = r
    /\ (Made(r) /\ call[r].op = "update") => call[r].original.content # r

\* The text of a request that has not begun is nowhere yet.
IdleTextNowhere ==
  \A r \in Requests : pc[r] = "idle" =>
    /\ \A id \in DOMAIN todos : todos[id].content # r
    /\ \A q \in Requests : Made(q) => call[q].original.content # r

\* No other call is about an id whose todo is not in the map yet, and no
\* two creates of a process got the same id.
CreatorsApart ==
  \A r, q \in Requests :
    /\ (r # q /\ Current(r) /\ Current(q) /\ pc[r] = "allocated") =>
         call[q].id # call[r].id
    /\ ( /\ r # q /\ Made(r) /\ Made(q)
         /\ call[r].op = "create" /\ call[q].op = "create"
         /\ call[r].epoch = call[q].epoch ) =>
         call[q].id # call[r].id

CallsInv == CallsOK /\ IdleTextNowhere /\ CreatorsApart
-----------------------------------------------------------------------------
(* What the races of mutations can do to a todo *)

Undone(op, id)   == \E q \in Calls(op, id) : pc[q] = "failed"
Standing(op, id) == \E q \in Calls(op, id) : pc[q] # "failed"

\* A todo is deleted by a delete that did not fail, and a todo that is
\* neither deleted nor indexed was brought back by an update that failed.
HiddenOK ==
  \A id \in DOMAIN todos :
    /\ todos[id].deleted => Standing("delete", id)
    /\ (~todos[id].deleted /\ id \notin todosByEmployee[todos[id].employee]) =>
         Undone("update", id) /\ Standing("delete", id)

\* AckedTextSurvives from the write on, and FailedTextGone.
TextsOK ==
  \A id \in DOMAIN todos, r \in Requests : (Current(r) /\ call[r].id = id) =>
    /\ ( /\ call[r].op \in {"create", "update"}
         /\ pc[r] \notin {"allocated", "failed"}
         /\ todos[id].content # r ) =>
         \E u \in Calls("update", id) \ {r} :
           pc[u] = "failed" <=> call[u].original.content # r
    /\ ( /\ call[r].op = "update" /\ pc[r] = "failed"
         /\ todos[id].content = r ) =>
         \E u \in Calls("update", id) \ {r} :
           pc[u] = "failed" /\ call[u].original.content = r

\* AckedDeleteSticks from the write on; a second delete finds the todo only
\* if an update brought it back.
DeletesOK ==
  \A id \in DOMAIN todos : \A r \in Calls("delete", id) : pc[r] # "failed" =>
    /\ ~todos[id].deleted => Undone("update", id)
    /\ \A q \in Calls("delete", id) \ {r} :
         pc[q] # "failed" => Undone("update", id)

RacesInv == HiddenOK /\ TextsOK /\ DeletesOK
-----------------------------------------------------------------------------
(* What is told about a todo *)

\* An event, published or not, is about the call that built it.
About(e, r) ==
  /\ Made(r) /\ e.by = r
  /\ e.type = call[r].op /\ e.todo = call[r].id /\ e.epoch = call[r].epoch

EventsOK ==
  /\ \A r \in Requests : event[r] # None => About(event[r], r)
  /\ \A r \in Requests :
       Current(r) => (event[r] = None <=> pc[r] \in {"allocated", "inserted"})
  /\ \A i \in DOMAIN log : About(log[i], log[i].by)

\* A call of the process reached the todo r created; one of them failed.
Reached(op, r) ==
  \E q \in Requests : Current(q) /\ call[q].op = op /\ call[q].id = call[r].id

TakenBack(r) ==
  \E q \in Requests : /\ Current(q) /\ call[q].op \in {"update", "delete"}
                      /\ call[q].id = call[r].id /\ pc[q] = "failed"

\* A text other than r's, or a deletion, of the todo r created has a cause.
Caused(r, content, deleted) ==
  /\ content # r => Reached("update", r)
  /\ deleted => Reached("delete", r)

\* Where r's event told of a change and a later look shows none, a mutation
\* was undone.
Explained(r, content, deleted) ==
  ( \/ event[r].content # r /\ content = r
    \/ event[r].deleted /\ ~deleted ) => TakenBack(r)

\* r's event, the todo it is about, r's answer, and an entry of the topic.
EventTruthful(r) ==
  (Creator(r) /\ event[r] # None) =>
    Caused(r, event[r].content, event[r].deleted)

TodoExplained(r, id) ==
  (Creator(r) /\ event[r] # None /\ call[r].id = id) =>
    Explained(r, todos[id].content, todos[id].deleted)

ReplyTruthful(r) ==
  (Creator(r) /\ pc[r] \in {"answering", "ok"}) =>
    /\ Caused(r, reply[r].content, reply[r].deleted)
    /\ Explained(r, reply[r].content, reply[r].deleted)

EntryTruthful(r, i) ==
  (log[i].by = r /\ log[i].type = "create" /\ log[i].epoch = epoch) =>
    Caused(r, log[i].content, log[i].deleted)

ReportsOK ==
  \A r \in Requests :
    /\ EventTruthful(r) /\ ReplyTruthful(r)
    /\ \A id \in DOMAIN todos : TodoExplained(r, id)
    /\ \A i \in DOMAIN log : EntryTruthful(r, i)

ReportsInv == EventsOK /\ ReportsOK

GuaranteesInv == StoreInv /\ CallsInv /\ RacesInv /\ ReportsInv
=============================================================================
