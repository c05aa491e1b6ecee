----------------------------- MODULE EmployeeBus -----------------------------
(***************************************************************************)
(* The employee subgraph: UpdateEmployee and EmployeeUpdated               *)
(* (graph/schema.resolvers.go) around the EventBus (graph/pubsub.go).      *)
(*                                                                         *)
(* A subscription is three goroutines joined by two channels of capacity   *)
(* one: publishers send to ch, the goroutine EmployeeUpdated starts        *)
(* forwards from ch to out what the filter lets through, and the consumer  *)
(* (generated.go) takes an event from out and marshals it.                 *)
(*                                                                         *)
(* Data.  A name or salary is the number of the update that wrote it.      *)
(* What travels is a pointer: the consumer reads the employee's fields     *)
(* when it marshals, one after the other and without r.mu.  An event       *)
(* carries, as history, the fields as they were published.                 *)
(***************************************************************************)
EXTENDS Integers, Sequences, FiniteSets

CONSTANTS Employees,  \* ids in Resolver.employees
          Updates,    \* calls of UpdateEmployee, each once
          Subs,       \* calls of EmployeeUpdated, each once
          None        \* no filter; no event

VARIABLES employees,    \* Resolver.employees: the fields
          clock,        \* number of the last update
          upc,          \* where each update is
          job,          \* its employee, and whether it sets the salary
          left,         \* subscribers its Publish has yet to visit
          subscribers,  \* EventBus.subscribers: the keys
          ch, out,      \* the two channels of a subscription
          closed,       \* subscriptions whose ch is closed
          filter,       \* the id argument
          spc, hand,    \* the forwarder, and the event it holds
          cancelled,    \* subscriptions whose context is done
          cpc, shown,   \* the consumer, and the event it marshals
          due,          \* history: fields last published to a subscription
          seen,         \*          fields last marshalled for it
          missed        \*          employees whose last event was dropped
                        \*          in favour of another's

updateVars   == <<employees, clock, upc, job, left>>
forwardVars  == <<subscribers, closed, filter, spc, hand>>
consumerVars == <<cpc, shown>>
historyVars  == <<due, seen, missed>>
vars == <<updateVars, forwardVars, consumerVars, historyVars, ch, out, cancelled>>

Fields == [name : Nat, salary : Nat]
Event  == [emp : Employees, seq : Nat, fields : Fields]

ASSUME NoneAssumption == None \notin Employees /\ None \notin Event

Unwritten == [name |-> 0, salary |-> 0]

AtLeast(f, g) == f.name >= g.name /\ f.salary >= g.salary

Matches(s, e) == filter[s] \in {None, e}

Init ==
  /\ employees = [e \in Employees |-> Unwritten]
  /\ clock = 0
  /\ upc  = [u \in Updates |-> "idle"]
  /\ job  = [u \in Updates |-> None]
  /\ left = [u \in Updates |-> {}]
  /\ subscribers = {}
  /\ ch  = [s \in Subs |-> <<>>]
  /\ out = [s \in Subs |-> <<>>]
  /\ closed = {}
  /\ filter = [s \in Subs |-> None]
  /\ spc  = [s \in Subs |-> "idle"]
  /\ hand = [s \in Subs |-> None]
  /\ cancelled = {}
  /\ cpc   = [s \in Subs |-> "idle"]
  /\ shown = [s \in Subs |-> None]
  /\ due  = [s \in Subs |-> [e \in Employees |-> Unwritten]]
  /\ seen = [s \in Subs |-> [e \in Employees |-> Unwritten]]
  /\ missed = [s \in Subs |-> {}]

EmployeesLocked == \E u \in Updates : upc[u] \in {"writing", "publishing"}

\* eb.mu is held for reading while an update publishes.
BusLocked == \E u \in Updates : upc[u] = "publishing"

Published(u) ==
  [emp |-> job[u].emp, seq |-> clock, fields |-> employees[job[u].emp]]

-----------------------------------------------------------------------------
(* Faulty variants of the actions below: each is a mistake one could make in *)
(* the code, and breaks a property.  No specification uses them.             *)

\* Publish waits for room in ch.
SendWaits(u, s) ==
  LET e == job[u].emp
  IN /\ upc[u] = "publishing" /\ s \in left[u]
     /\ IF ch[s] # <<>> THEN UNCHANGED vars
        ELSE /\ left' = [left EXCEPT ![u] = @ \ {s}]
             /\ ch' = [ch EXCEPT ![s] = <<Published(u)>>]
             /\ due' = IF Matches(s, e) /\ s \notin cancelled
                       THEN [due EXCEPT ![s][e] = employees[e]] ELSE due
             /\ UNCHANGED <<employees, clock, upc, job, forwardVars,
                            consumerVars, seen, missed, out, cancelled>>

\* The forwarder does not go back to the outer select.
ForwardAgain(s) ==
  /\ spc[s] = "holding" /\ out[s] = <<>>
  /\ out' = [out EXCEPT ![s] = <<hand[s]>>]
  /\ UNCHANGED <<updateVars, forwardVars, consumerVars, historyVars, ch,
                 cancelled>>

\* The inner select has a default, as Publish has.
ForwardOrDrop(s) ==
  /\ spc[s] = "holding"
  /\ out' = IF out[s] = <<>> THEN [out EXCEPT ![s] = <<hand[s]>>] ELSE out
  /\ hand' = [hand EXCEPT ![s] = None]
  /\ spc' = [spc EXCEPT ![s] = "waiting"]
  /\ UNCHANGED <<updateVars, subscribers, closed, filter, consumerVars,
                 historyVars, ch, cancelled>>

\* The inner select has no case for ctx.Done.
NoticeCancelOutside(s) ==
  /\ spc[s] = "waiting" /\ s \in cancelled
  /\ spc' = [spc EXCEPT ![s] = "leaving"]
  /\ UNCHANGED <<updateVars, subscribers, closed, filter, hand, consumerVars,
                 historyVars, ch, out, cancelled>>

\* Unsubscribe does not take the lock.
UnsubscribeUnlocked(s) ==
  /\ spc[s] = "leaving"
  /\ subscribers' = subscribers \ {s}
  /\ closed' = closed \cup {s}
  /\ spc' = [spc EXCEPT ![s] = "closing"]
  /\ UNCHANGED <<updateVars, filter, hand, consumerVars, historyVars, ch, out,
                 cancelled>>

-----------------------------------------------------------------------------
(* UpdateEmployee, under r.mu from the first step to the last *)

UpdateName(u, e, setName, setSalary) ==
  /\ upc[u] = "idle" /\ ~EmployeesLocked
  /\ clock' = clock + 1
  /\ job' = [job EXCEPT ![u] = [emp |-> e, salary |-> setSalary]]
  /\ employees' = IF setName THEN [employees EXCEPT ![e].name = clock + 1]
                  ELSE employees
  /\ upc' = [upc EXCEPT ![u] = "writing"]
  /\ UNCHANGED <<left, forwardVars, consumerVars, historyVars, ch, out, cancelled>>

\* An id that is not in the map.
RejectUpdate(u) ==
  /\ upc[u] = "idle" /\ ~EmployeesLocked
  /\ upc' = [upc EXCEPT ![u] = "done"]
  /\ UNCHANGED <<employees, clock, job, left, forwardVars, consumerVars,
                 historyVars, ch, out, cancelled>>

\* Publish locks the bus for reading before it looks at the subscribers.
UpdateSalary(u) ==
  /\ upc[u] = "writing"
  /\ employees' = IF job[u].salary
                  THEN [employees EXCEPT ![job[u].emp].salary = clock]
                  ELSE employees
  /\ left' = [left EXCEPT ![u] = subscribers]
  /\ upc' = [upc EXCEPT ![u] = "publishing"]
  /\ UNCHANGED <<clock, job, forwardVars, consumerVars, historyVars, ch, out,
                 cancelled>>

\* The select of Publish: send, or drop the event when ch is full.
SendTo(u, s) ==
  LET e == job[u].emp
  IN /\ upc[u] = "publishing" /\ s \in left[u]
     /\ left' = [left EXCEPT ![u] = @ \ {s}]
     /\ \/ ch[s] = <<>> /\ ch' = [ch EXCEPT ![s] = <<Published(u)>>]
        \/ ch[s] # <<>> /\ UNCHANGED ch
     /\ IF s \notin cancelled /\ Matches(s, e)
        THEN /\ due' = [due EXCEPT ![s][e] = employees[e]]
             /\ missed' = [missed EXCEPT ![s] =
                  IF ch[s] = <<>> \/ Head(ch[s]).emp = e
                  THEN @ \ {e} ELSE @ \cup {e}]
        ELSE UNCHANGED <<due, missed>>
     /\ UNCHANGED <<employees, clock, upc, job, forwardVars, consumerVars, seen,
                    out, cancelled>>

FinishUpdate(u) ==
  /\ upc[u] = "publishing" /\ left[u] = {}
  /\ upc' = [upc EXCEPT ![u] = "done"]
  /\ job' = [job EXCEPT ![u] = None]
  /\ UNCHANGED <<employees, clock, left, forwardVars, consumerVars,
                 historyVars, ch, out, cancelled>>

-----------------------------------------------------------------------------
(* EmployeeUpdated *)

\* Subscribe, under eb.mu, and the start of the forwarder.
Subscribe(s, f) ==
  /\ spc[s] = "idle" /\ ~BusLocked
  /\ subscribers' = subscribers \cup {s}
  /\ filter' = [filter EXCEPT ![s] = f]
  /\ spc' = [spc EXCEPT ![s] = "waiting"]
  /\ UNCHANGED <<updateVars, closed, hand, consumerVars, historyVars, ch, out,
                 cancelled>>

\* The client disconnects or completes the operation.  Its history ends.
Cancel(s) ==
  /\ spc[s] # "idle" /\ s \notin cancelled
  /\ cancelled' = cancelled \cup {s}
  /\ due'  = [due EXCEPT ![s] = [e \in Employees |-> Unwritten]]
  /\ seen' = [seen EXCEPT ![s] = [e \in Employees |-> Unwritten]]
  /\ missed' = [missed EXCEPT ![s] = {}]
  /\ UNCHANGED <<updateVars, forwardVars, consumerVars, ch, out>>

\* The outer select receives from ch.
TakeEvent(s) ==
  /\ spc[s] = "waiting" /\ ch[s] # <<>>
  /\ ch' = [ch EXCEPT ![s] = <<>>]
  /\ IF Matches(s, Head(ch[s]).emp)
     THEN /\ hand' = [hand EXCEPT ![s] = Head(ch[s])]
          /\ spc' = [spc EXCEPT ![s] = "holding"]
     ELSE UNCHANGED <<hand, spc>>
  /\ UNCHANGED <<updateVars, subscribers, closed, filter, consumerVars,
                 historyVars, out, cancelled>>

\* The inner select sends to out.
Forward(s) ==
  /\ spc[s] = "holding" /\ out[s] = <<>>
  /\ out' = [out EXCEPT ![s] = <<hand[s]>>]
  /\ hand' = [hand EXCEPT ![s] = None]
  /\ spc' = [spc EXCEPT ![s] = "waiting"]
  /\ UNCHANGED <<updateVars, subscribers, closed, filter, consumerVars,
                 historyVars, ch, cancelled>>

\* Either select takes ctx.Done.
NoticeCancel(s) ==
  /\ spc[s] \in {"waiting", "holding"} /\ s \in cancelled
  /\ hand' = [hand EXCEPT ![s] = None]
  /\ spc' = [spc EXCEPT ![s] = "leaving"]
  /\ UNCHANGED <<updateVars, subscribers, closed, filter, consumerVars,
                 historyVars, ch, out, cancelled>>

\* The deferred calls, last first: Unsubscribe, under eb.mu ...
Unsubscribe(s) ==
  /\ spc[s] = "leaving" /\ ~BusLocked
  /\ subscribers' = subscribers \ {s}
  /\ closed' = closed \cup {s}
  /\ spc' = [spc EXCEPT ![s] = "closing"]
  /\ UNCHANGED <<updateVars, filter, hand, consumerVars, historyVars, ch, out,
                 cancelled>>

\* ... and close(out).
CloseOut(s) ==
  /\ spc[s] = "closing"
  /\ spc' = [spc EXCEPT ![s] = "gone"]
  /\ UNCHANGED <<updateVars, subscribers, closed, filter, hand, consumerVars,
                 historyVars, ch, out, cancelled>>

-----------------------------------------------------------------------------
(* The consumer: generated.go's response loop *)

\* It takes an event and reads the name ...
Receive(s) ==
  /\ cpc[s] = "idle" /\ spc[s] # "idle" /\ out[s] # <<>>
  /\ out' = [out EXCEPT ![s] = <<>>]
  /\ shown' = [shown EXCEPT ![s] =
       [event |-> Head(out[s]), name |-> employees[Head(out[s]).emp].name]]
  /\ cpc' = [cpc EXCEPT ![s] = "marshalling"]
  /\ UNCHANGED <<updateVars, forwardVars, historyVars, ch, cancelled>>

\* ... then the salary, and sends the response.
Marshal(s) ==
  LET e == shown[s].event.emp
  IN /\ cpc[s] = "marshalling"
     /\ seen' = IF s \in cancelled THEN seen
                ELSE [seen EXCEPT ![s][e] = [name |-> shown[s].name,
                                             salary |-> employees[e].salary]]
     /\ shown' = [shown EXCEPT ![s] = None]
     /\ cpc' = [cpc EXCEPT ![s] = "idle"]
     /\ UNCHANGED <<updateVars, forwardVars, due, missed, ch, out, cancelled>>

\* The stream ends: out is drained and closed, or the context is done.
EndStream(s) ==
  /\ cpc[s] = "idle"
  /\ s \in cancelled \/ (spc[s] = "gone" /\ out[s] = <<>>)
  /\ cpc' = [cpc EXCEPT ![s] = "ended"]
  /\ UNCHANGED <<updateVars, forwardVars, shown, historyVars, ch, out, cancelled>>

-----------------------------------------------------------------------------
ContinueUpdate(u) ==
  \/ UpdateSalary(u) \/ FinishUpdate(u)
  \/ \E s \in Subs : SendTo(u, s)

RunForwarder(s) ==
  TakeEvent(s) \/ Forward(s) \/ NoticeCancel(s) \/ Unsubscribe(s) \/ CloseOut(s)

Consume(s) == Receive(s) \/ Marshal(s) \/ EndStream(s)

\* Every update was answered and every open subscription is idle.
Quiet ==
  /\ \A u \in Updates : upc[u] = "done"
  /\ \A s \in Subs :
       \/ spc[s] = "gone" /\ cpc[s] = "ended"
       \/ spc[s] = "waiting" /\ ch[s] = <<>> /\ out[s] = <<>> /\ s \notin cancelled
  /\ UNCHANGED vars

Next ==
  \/ \E u \in Updates :
       \/ \E e \in Employees, n, sal \in BOOLEAN : UpdateName(u, e, n, sal)
       \/ RejectUpdate(u)
       \/ ContinueUpdate(u)
  \/ \E s \in Subs :
       \/ \E f \in Employees \cup {None} : Subscribe(s, f)
       \/ Cancel(s) \/ RunForwarder(s) \/ Consume(s)
  \/ Quiet

Spec == Init /\ [][Next]_vars

\* The Go scheduler runs every goroutine of the server that can run.  A
\* Lock that waits keeps new readers out, so Unsubscribe gets the bus even
\* if publishers come back for ever.  Nothing is assumed of the client.
ServerFairness ==
  /\ \A u \in Updates : WF_vars(ContinueUpdate(u))
  /\ \A s \in Subs : WF_vars(RunForwarder(s)) /\ SF_vars(Unsubscribe(s))

FairSpec == Spec /\ ServerFairness
-----------------------------------------------------------------------------
(* Properties *)

\* Types of the variables.
TypeOK ==
  /\ employees \in [Employees -> Fields]
  /\ clock \in Nat
  /\ upc \in [Updates -> {"idle", "writing", "publishing", "done"}]
  /\ job \in [Updates -> [emp : Employees, salary : BOOLEAN] \cup {None}]
  /\ left \in [Updates -> SUBSET Subs]
  /\ subscribers \subseteq Subs /\ closed \subseteq Subs
  /\ cancelled \subseteq Subs
  /\ ch \in [Subs -> Seq(Event)] /\ out \in [Subs -> Seq(Event)]
  /\ filter \in [Subs -> Employees \cup {None}]
  /\ spc \in [Subs -> {"idle", "waiting", "holding", "leaving", "closing", "gone"}]
  /\ hand \in [Subs -> Event \cup {None}]
  /\ cpc \in [Subs -> {"idle", "marshalling", "ended"}]
  /\ shown \in [Subs -> [event : Event, name : Nat] \cup {None}]
  /\ due \in [Subs -> [Employees -> Fields]]
  /\ seen \in [Subs -> [Employees -> Fields]]
  /\ missed \in [Subs -> SUBSET Employees]

\* A channel a publisher is about to send to is never closed: it would
\* panic, with r.mu and eb.mu held.  (TestEventBus_UnsubscribeStopsReceiving
\* says so of the sequential case.)
NeverSendsOnClosed ==
  \A u \in Updates : left[u] \cap closed = {}

\* The events under way to a consumer, oldest first.
UnderWay(s) ==
  (IF cpc[s] = "marshalling" THEN <<shown[s].event>> ELSE <<>>) \o out[s]
    \o (IF hand[s] = None THEN <<>> ELSE <<hand[s]>>) \o ch[s]

\* A subscription gets events in the order they were published, each at
\* most once, and out only what its filter lets through.
InOrderOnceMatching ==
  \A s \in Subs :
    /\ \A i, j \in DOMAIN UnderWay(s) :
         i < j => UnderWay(s)[i].seq < UnderWay(s)[j].seq
    /\ \A i \in DOMAIN out[s] : Matches(s, out[s][i].emp)

\* What was published about an employee reaches the consumer of an open
\* subscription: it was marshalled, or will be when an event under way is,
\* or it was dropped because an event about another employee filled ch.
\* (An event dropped because ch holds one about the same employee does no
\* harm: both point to the same fields.)
PublishedIsSeenOrUnderWay ==
  \A s \in subscribers \ cancelled, e \in Employees :
    \/ AtLeast(seen[s][e], due[s][e])
    \/ \E i \in DOMAIN UnderWay(s) :
         /\ UnderWay(s)[i].emp = e
         /\ (i = 1 /\ cpc[s] = "marshalling") => shown[s].name >= due[s][e].name
    \/ e \in missed[s]

\* A subscription without a client leaves nothing behind, even if nobody
\* reads its channels any more: the forwarder ends and its channel leaves
\* the bus.
CancelledIsReleased ==
  \A s \in Subs :
    s \in cancelled ~> (spc[s] = "gone" /\ s \notin subscribers)

\* updateEmployee is answered whatever the subscribers do (pubsub.go:47:
\* publishing does not block), though it holds r.mu all the while.
UpdateIsAnswered ==
  \A u \in Updates : upc[u] = "writing" ~> upc[u] = "done"

\* With consumers that go on reading, an update reaches every subscription
\* that stays open and lets it through, unless it was dropped in favour of
\* another employee's.
UpdateReachesConsumer ==
  (\A s \in Subs : WF_vars(Consume(s))) =>
    \A s \in Subs, e \in Employees :
      []<>( \/ AtLeast(seen[s][e], due[s][e])
            \/ e \in missed[s]
            \/ s \in cancelled )
-----------------------------------------------------------------------------
(* The inductive invariant from which EmployeeBusProofs proves the safety *)
(* properties.                                                             *)

InProgress(u) == upc[u] \in {"writing", "publishing"}

\* r.mu lets one update in at a time.
JobOK ==
  /\ \A u, v \in Updates : InProgress(u) /\ InProgress(v) => u = v
  /\ \A u \in Updates :
       InProgress(u) => job[u] \in [emp : Employees, salary : BOOLEAN]

\* Publish visits keys of the map, and visits while it holds eb.mu.
VisitsOK ==
  \A u \in Updates :
    /\ left[u] \subseteq subscribers
    /\ upc[u] # "publishing" => left[u] = {}

\* Where the forwarder is tells what is registered, closed and held.
LifeOK ==
  \A s \in Subs :
    /\ s \in subscribers <=> spc[s] \in {"waiting", "holding", "leaving"}
    /\ s \in closed <=> spc[s] \in {"closing", "gone"}
    /\ IF spc[s] = "holding" THEN hand[s] \in Event ELSE hand[s] = None
    /\ cpc[s] = "marshalling" => shown[s] \in [event : Event, name : Nat]
    /\ Len(ch[s]) <= 1 /\ Len(out[s]) <= 1
    /\ spc[s] = "idle" => ch[s] = <<>> /\ out[s] = <<>>

\* The places an event passes through, as sets of at most one event.
Elems(q) == {q[i] : i \in DOMAIN q}
Marshalled(s) == IF cpc[s] = "marshalling" THEN {shown[s].event} ELSE {}
Queued(s) == Elems(out[s])
Held(s) == IF hand[s] = None THEN {} ELSE {hand[s]}
Waiting(s) == Elems(ch[s])

Carried(s) == Marshalled(s) \cup Queued(s) \cup Held(s) \cup Waiting(s)

Before(A, B) == \A a \in A, b \in B : a.seq < b.seq

\* An event is older than those in the places behind its own, than the
\* update that is being written, and than one that has yet to visit s.
OrderOK ==
  \A s \in Subs :
    /\ Before(Marshalled(s), Queued(s) \cup Held(s) \cup Waiting(s))
    /\ Before(Queued(s), Held(s) \cup Waiting(s))
    /\ Before(Held(s), Waiting(s))
    /\ \A m \in Carried(s) :
         /\ m.seq <= clock
         /\ \A u \in Updates : upc[u] = "writing" \/ s \in left[u] => m.seq < clock

\* What passed the filter still matches it.
FilterOK == \A s \in Subs : \A m \in Queued(s) \cup Held(s) : Matches(s, m.emp)

\* The fields only grow, and what was published or shown is not ahead of
\* them; a name read before the salary is not behind what was shown before.
FieldsOK ==
  /\ \A e \in Employees : employees[e].name <= clock /\ employees[e].salary <= clock
  /\ \A s \in Subs, e \in Employees :
       /\ AtLeast(employees[e], due[s][e])
       /\ AtLeast(employees[e], seen[s][e])
       /\ due[s][e] # Unwritten => spc[s] # "idle" /\ Matches(s, e)
  /\ \A s \in Subs : cpc[s] = "marshalling" =>
       /\ seen[s][shown[s].event.emp].name <= shown[s].name
       /\ shown[s].name <= employees[shown[s].event.emp].name

\* PublishedIsSeenOrUnderWay, by the places of the events.
SeenOK ==
  \A s \in Subs, e \in Employees : s \in subscribers \ cancelled =>
    \/ AtLeast(seen[s][e], due[s][e])
    \/ \E m \in Queued(s) \cup Held(s) \cup Waiting(s) : m.emp = e
    \/ /\ cpc[s] = "marshalling" /\ shown[s].event.emp = e
       /\ shown[s].name >= due[s][e].name
    \/ e \in missed[s]

BusInv ==
  /\ TypeOK /\ JobOK /\ VisitsOK /\ LifeOK
  /\ OrderOK /\ FilterOK /\ FieldsOK /\ SeenOK
=============================================================================
