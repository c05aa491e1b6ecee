-------------------------- MODULE EmployeeBusProofs --------------------------
(***************************************************************************)
(* Proofs about EmployeeBus, for every number of employees, updates and    *)
(* subscriptions: BusInv is inductive, and with it hold the safety         *)
(* properties of the bus.                                                  *)
(***************************************************************************)
EXTENDS EmployeeBus, TLAPS

\* A channel of capacity one is empty or holds its head.
LEMMA OneElement ==
  ASSUME NEW S, NEW q \in Seq(S), Len(q) <= 1
  PROVE  /\ q = <<>> => Elems(q) = {}
         /\ q # <<>> => Head(q) \in S /\ q[1] = Head(q) /\ DOMAIN q = {1}
         /\ q # <<>> => Elems(q) = {Head(q)}
<1>1. Len(q) \in Nat /\ DOMAIN q = 1 .. Len(q)
  OBVIOUS
<1>2. CASE q = <<>>
  BY <1>2 DEF Elems
<1>3. CASE q # <<>>
  <2>1. Len(q) = 1 /\ DOMAIN q = {1}
    BY <1>1, <1>3
  <2>2. Head(q) = q[1] /\ Head(q) \in S
    BY <1>3, <2>1
  <2> QED
    BY <1>3, <2>1, <2>2 DEF Elems
<1> QED
  BY <1>2, <1>3

LEMMA OneSent == ASSUME NEW x PROVE Elems(<<x>>) = {x} /\ Len(<<x>>) = 1
BY DEF Elems

LEMMA NoneSent == Elems(<<>>) = {} /\ Len(<<>>) = 0
BY DEF Elems

\* What a subscription holds is well formed.
LEMMA CarriedTyped ==
  ASSUME TypeOK, LifeOK, NEW s \in Subs
  PROVE  /\ Carried(s) \subseteq Event
         /\ ch[s] # <<>> => Waiting(s) = {Head(ch[s])}
         /\ ch[s] = <<>> => Waiting(s) = {}
         /\ out[s] # <<>> => Queued(s) = {Head(out[s])}
         /\ out[s] = <<>> => Queued(s) = {}
<1>1. ch[s] \in Seq(Event) /\ out[s] \in Seq(Event)
  BY DEF TypeOK
<1>2. Len(ch[s]) <= 1 /\ Len(out[s]) <= 1
  BY DEF LifeOK
<1>3. Waiting(s) \subseteq Event /\ Queued(s) \subseteq Event
  BY <1>1, <1>2, OneElement DEF Waiting, Queued
<1>4. Held(s) \subseteq Event /\ Marshalled(s) \subseteq Event
  BY DEF TypeOK, LifeOK, Held, Marshalled
<1> QED
  BY <1>1, <1>2, <1>3, <1>4, OneElement DEF Carried, Waiting, Queued

\* A step that moves no event leaves every place as it was.
LEMMA PlacesFrame ==
  ASSUME UNCHANGED <<ch, out, hand, cpc, shown>>, NEW s \in Subs
  PROVE  /\ Marshalled(s)' = Marshalled(s) /\ Queued(s)' = Queued(s)
         /\ Held(s)' = Held(s) /\ Waiting(s)' = Waiting(s)
         /\ Carried(s)' = Carried(s)
BY DEF Marshalled, Queued, Held, Waiting, Carried

LEMMA InitBusInv == Init => BusInv
<1> SUFFICES ASSUME Init PROVE BusInv
  OBVIOUS
<1>1. TypeOK
  BY DEF Init, TypeOK, Fields, Unwritten
<1>2. JobOK /\ VisitsOK /\ LifeOK
  BY DEF Init, JobOK, VisitsOK, LifeOK, InProgress
<1>3. \A s \in Subs : Carried(s) = {}
  BY NoneSent DEF Init, Carried, Marshalled, Queued, Held, Waiting
<1>4. OrderOK /\ FilterOK
  BY <1>3 DEF OrderOK, FilterOK, Before, Carried
<1>5. FieldsOK /\ SeenOK
  BY DEF Init, FieldsOK, SeenOK, AtLeast, Unwritten
<1> QED
  BY <1>1, <1>2, <1>4, <1>5 DEF BusInv
-----------------------------------------------------------------------------
(* Every step keeps BusInv: a lemma per action *)

LEMMA UpdateNameKeeps ==
  ASSUME BusInv, NEW u \in Updates, NEW e \in Employees,
         NEW n \in BOOLEAN, NEW sal \in BOOLEAN, UpdateName(u, e, n, sal)
  PROVE  BusInv'
<1> USE DEF BusInv
<1>1. /\ UNCHANGED <<left, subscribers, closed, filter, spc, hand>>
      /\ UNCHANGED <<cpc, shown, due, seen, missed, ch, out, cancelled>>
  BY DEF UpdateName, forwardVars, consumerVars, historyVars
<1>2. \A v \in Updates : ~InProgress(v)
  BY DEF UpdateName, EmployeesLocked, InProgress
<1>3. clock \in Nat /\ clock' = clock + 1
  BY DEF UpdateName, TypeOK
<1>4. /\ employees' \in [Employees -> Fields]
      /\ \A f \in Employees :
           /\ employees'[f].name >= employees[f].name
           /\ employees'[f].salary = employees[f].salary
           /\ employees'[f].name <= clock'
  <2>1. CASE n
    <3>1. employees' = [employees EXCEPT ![e] = [employees[e] EXCEPT !.name = clock + 1]]
      BY <2>1 DEF UpdateName
    <3>2. employees \in [Employees -> Fields] /\ employees[e] \in Fields
      BY DEF TypeOK
    <3>3. [employees[e] EXCEPT !.name = clock + 1]
            = [name |-> clock + 1, salary |-> employees[e].salary]
      BY <3>2 DEF Fields
    <3> QED
      BY <1>3, <3>1, <3>2, <3>3 DEF Fields, FieldsOK
  <2>2. CASE ~n
    BY <1>3, <2>2 DEF UpdateName, TypeOK, Fields, FieldsOK
  <2> QED
    BY <2>1, <2>2
<1>5. TypeOK'
  BY <1>1, <1>3, <1>4 DEF TypeOK, UpdateName
<1>6. JobOK' /\ VisitsOK' /\ LifeOK'
  BY <1>1, <1>2 DEF UpdateName, TypeOK, JobOK, VisitsOK, InProgress, LifeOK
<1>7. UNCHANGED <<ch, out, hand, cpc, shown>>
  BY <1>1
<1>8. OrderOK'
  <2>1. \A s \in Subs : \A m \in Carried(s) : m.seq < clock' /\ m.seq <= clock'
    <3> SUFFICES ASSUME NEW s \in Subs, NEW m \in Carried(s)
                 PROVE  m.seq < clock' /\ m.seq <= clock'
      OBVIOUS
    <3>1. m.seq \in Nat
      BY CarriedTyped DEF Event
    <3>2. m.seq <= clock
      BY DEF OrderOK
    <3> QED
      BY <1>3, <3>1, <3>2
  <2> QED
    BY <1>7, <2>1, PlacesFrame DEF OrderOK, Before
<1>9. FilterOK' /\ SeenOK'
  <2>1. FilterOK'
    BY <1>1, <1>7, PlacesFrame DEF FilterOK, Matches
  <2>2. SeenOK'
    BY <1>1, <1>7, PlacesFrame DEF SeenOK, AtLeast
  <2> QED
    BY <2>1, <2>2
<1>10. FieldsOK'
  <2>1. \A f \in Employees : employees[f] \in Fields /\ employees'[f] \in Fields
    BY <1>4 DEF TypeOK
  <2>2. \A s \in Subs, f \in Employees : due[s][f] \in Fields /\ seen[s][f] \in Fields
    BY DEF TypeOK
  <2>3. \A s \in Subs, f \in Employees :
          AtLeast(employees'[f], due[s][f]) /\ AtLeast(employees'[f], seen[s][f])
    BY <1>4, <2>1, <2>2 DEF FieldsOK, AtLeast, Fields
  <2>4. \A f \in Employees : employees'[f].name <= clock' /\ employees'[f].salary <= clock'
    BY <1>3, <1>4, <2>1 DEF FieldsOK, Fields
  <2>5. \A s \in Subs : cpc[s] = "marshalling" =>
          shown[s].event.emp \in Employees /\ shown[s].name \in Nat
    BY DEF LifeOK, Event
  <2>6. \A s \in Subs : cpc[s] = "marshalling" =>
          shown[s].name <= employees'[shown[s].event.emp].name
    BY <1>4, <2>1, <2>5 DEF FieldsOK, Fields
  <2> QED
    BY <1>1, <2>3, <2>4, <2>6 DEF FieldsOK, AtLeast, Matches
<1> QED
  BY <1>5, <1>6, <1>8, <1>9, <1>10
LEMMA RejectUpdateKeeps ==
  ASSUME BusInv, NEW u \in Updates, RejectUpdate(u)
  PROVE  BusInv'
<1> USE DEF BusInv
<1>1. /\ UNCHANGED <<left, subscribers, closed, filter, spc, hand>>
      /\ UNCHANGED <<cpc, shown, due, seen, missed, ch, out, cancelled>>
      /\ UNCHANGED <<employees, clock, job>>
      /\ upc' = [upc EXCEPT ![u] = "done"]
  BY DEF RejectUpdate, forwardVars, consumerVars, historyVars
<1>2. upc[u] = "idle" /\ \A v \in Updates : upc'[v] = "writing" => upc[v] = "writing"
  BY <1>1 DEF RejectUpdate, TypeOK
<1>3. TypeOK'
  BY <1>1 DEF TypeOK
<1>4. JobOK' /\ VisitsOK' /\ LifeOK'
  BY <1>1, <1>2 DEF TypeOK, JobOK, VisitsOK, InProgress, LifeOK
<1>5. OrderOK' /\ FilterOK'
  BY <1>1, <1>2, PlacesFrame DEF OrderOK, Before, FilterOK, Matches
<1>6. FieldsOK'
  BY <1>1 DEF FieldsOK, AtLeast, Matches
<1>7. SeenOK'
  BY <1>1, PlacesFrame DEF SeenOK, AtLeast
<1> QED
  BY <1>3, <1>4, <1>5, <1>6, <1>7

LEMMA UpdateSalaryKeeps ==
  ASSUME BusInv, NEW u \in Updates, UpdateSalary(u)
  PROVE  BusInv'
<1> USE DEF BusInv
<1>1. /\ UNCHANGED <<subscribers, closed, filter, spc, hand>>
      /\ UNCHANGED <<cpc, shown, due, seen, missed, ch, out, cancelled>>
      /\ UNCHANGED <<clock, job>>
      /\ upc' = [upc EXCEPT ![u] = "publishing"]
      /\ left' = [left EXCEPT ![u] = subscribers]
  BY DEF UpdateSalary, forwardVars, consumerVars, historyVars
<1>2. /\ upc[u] = "writing" /\ upc'[u] = "publishing"
      /\ \A v \in Updates \ {u} : upc'[v] = upc[v] /\ left'[v] = left[v]
      /\ job[u] \in [emp : Employees, salary : BOOLEAN]
      /\ clock \in Nat
  BY <1>1 DEF UpdateSalary, TypeOK, JobOK, InProgress
<1>3. /\ employees' \in [Employees -> Fields]
      /\ \A f \in Employees :
           /\ employees'[f].name = employees[f].name
           /\ employees'[f].salary >= employees[f].salary
           /\ employees'[f].salary <= clock
  <2>1. CASE job[u].salary
    <3> DEFINE e == job[u].emp
    <3>1. employees' = [employees EXCEPT ![e] = [employees[e] EXCEPT !.salary = clock]]
      BY <2>1 DEF UpdateSalary
    <3>2. employees \in [Employees -> Fields] /\ e \in Employees /\ employees[e] \in Fields
      BY <1>2 DEF TypeOK
    <3>3. [employees[e] EXCEPT !.salary = clock]
            = [name |-> employees[e].name, salary |-> clock]
      BY <3>2 DEF Fields
    <3> HIDE DEF e
    <3> QED
      BY <1>2, <3>1, <3>2, <3>3 DEF Fields, FieldsOK
  <2>2. CASE ~job[u].salary
    BY <2>2 DEF UpdateSalary, TypeOK, Fields, FieldsOK
  <2> QED
    BY <2>1, <2>2
<1>4. TypeOK'
  BY <1>1, <1>3 DEF TypeOK
<1>5. \A v, w \in Updates : InProgress(v)' /\ InProgress(w)' => v = w
  BY <1>2 DEF JobOK, InProgress
<1>6. JobOK' /\ VisitsOK' /\ LifeOK'
  BY <1>1, <1>2, <1>5 DEF TypeOK, JobOK, VisitsOK, InProgress, LifeOK
<1>7. OrderOK'
  <2>1. \A s \in Subs : \A m \in Carried(s) : m.seq < clock
    BY <1>2 DEF OrderOK
  <2> QED
    BY <1>1, <2>1, PlacesFrame DEF OrderOK, Before
<1>8. FilterOK'
  BY <1>1, PlacesFrame DEF FilterOK, Matches
<1>9. FieldsOK'
  <2>1. \A f \in Employees : employees[f] \in Fields /\ employees'[f] \in Fields
    BY <1>3 DEF TypeOK
  <2>2. \A s \in Subs, f \in Employees : due[s][f] \in Fields /\ seen[s][f] \in Fields
    BY DEF TypeOK
  <2>3. \A s \in Subs, f \in Employees :
          AtLeast(employees'[f], due[s][f]) /\ AtLeast(employees'[f], seen[s][f])
    BY <1>3, <2>1, <2>2 DEF FieldsOK, AtLeast, Fields
  <2>4. \A s \in Subs : cpc[s] = "marshalling" => shown[s].event.emp \in Employees
    BY DEF LifeOK, Event
  <2>5. \A s \in Subs : cpc[s] = "marshalling" =>
          shown[s].name <= employees'[shown[s].event.emp].name
    BY <1>3, <2>4 DEF FieldsOK
  <2> QED
    BY <1>1, <1>3, <2>3, <2>5 DEF FieldsOK, AtLeast, Matches
<1>10. SeenOK'
  BY <1>1, PlacesFrame DEF SeenOK, AtLeast
<1> QED
  BY <1>4, <1>6, <1>7, <1>8, <1>9, <1>10

LEMMA FinishUpdateKeeps ==
  ASSUME BusInv, NEW u \in Updates, FinishUpdate(u)
  PROVE  BusInv'
<1> USE DEF BusInv
<1>1. /\ UNCHANGED <<left, subscribers, closed, filter, spc, hand>>
      /\ UNCHANGED <<cpc, shown, due, seen, missed, ch, out, cancelled>>
      /\ UNCHANGED <<employees, clock>>
      /\ upc' = [upc EXCEPT ![u] = "done"]
      /\ job' = [job EXCEPT ![u] = None]
      /\ left[u] = {}
  BY DEF FinishUpdate, forwardVars, consumerVars, historyVars
<1>2. /\ upc'[u] = "done"
      /\ \A v \in Updates \ {u} : upc'[v] = upc[v] /\ job'[v] = job[v]
  BY <1>1 DEF TypeOK
<1>3. TypeOK'
  BY <1>1 DEF TypeOK
<1>4. JobOK' /\ VisitsOK' /\ LifeOK'
  BY <1>1, <1>2 DEF JobOK, VisitsOK, InProgress, LifeOK
<1>5. OrderOK' /\ FilterOK'
  BY <1>1, <1>2, PlacesFrame DEF OrderOK, Before, FilterOK, Matches
<1>6. FieldsOK'
  BY <1>1 DEF FieldsOK, AtLeast, Matches
<1>7. SeenOK'
  BY <1>1, PlacesFrame DEF SeenOK, AtLeast
<1> QED
  BY <1>3, <1>4, <1>5, <1>6, <1>7

LEMMA SendToKeeps ==
  ASSUME BusInv, NEW u \in Updates, NEW s \in Subs, SendTo(u, s)
  PROVE  BusInv'
<1> USE DEF BusInv
<1> DEFINE e == job[u].emp
           pub == [emp |-> e, seq |-> clock, fields |-> employees[e]]
           wanted == s \notin cancelled /\ Matches(s, e)
<1>1. /\ UNCHANGED <<subscribers, closed, filter, spc, hand, cpc, shown>>
      /\ UNCHANGED <<employees, clock, upc, job, seen, out, cancelled>>
      /\ left' = [left EXCEPT ![u] = left[u] \ {s}]
      /\ upc[u] = "publishing" /\ s \in left[u]
  BY DEF SendTo, forwardVars, consumerVars
<1>2. \/ ch[s] = <<>> /\ ch' = [ch EXCEPT ![s] = <<pub>>]
      \/ ch[s] # <<>> /\ ch' = ch
  BY DEF SendTo, Published
<1>3. IF wanted
      THEN /\ due' = [due EXCEPT ![s] = [due[s] EXCEPT ![e] = employees[e]]]
           /\ missed' = [missed EXCEPT ![s] =
                IF ch[s] = <<>> \/ Head(ch[s]).emp = e
                THEN missed[s] \ {e} ELSE missed[s] \cup {e}]
      ELSE due' = due /\ missed' = missed
  BY DEF SendTo
<1>4. e \in Employees /\ clock \in Nat /\ employees[e] \in Fields
  BY <1>1 DEF TypeOK, JobOK, InProgress
<1>5. pub \in Event /\ pub.seq = clock /\ pub.emp = e
  BY <1>4 DEF Event
<1> HIDE DEF e, pub
<1>6. s \in subscribers /\ spc[s] # "idle"
  BY <1>1 DEF VisitsOK, LifeOK
<1>7. \A v \in Updates : upc[v] = "writing" \/ left[v] # {} => v = u
  BY <1>1 DEF JobOK, VisitsOK, InProgress
<1>8. /\ \A v \in Updates : left'[v] \subseteq left[v]
      /\ \A v \in Updates : ~(upc[v] = "writing" \/ s \in left'[v])
  BY <1>1, <1>7 DEF TypeOK
<1>9. /\ \A x \in Subs : ch'[x] \in Seq(Event) /\ Len(ch'[x]) <= 1
      /\ \A x \in Subs \ {s} : ch'[x] = ch[x]
      /\ \/ ch[s] = <<>> /\ ch'[s] = <<pub>>
         \/ ch[s] # <<>> /\ ch'[s] = ch[s]
  <2>1. CASE ch[s] = <<>> /\ ch' = [ch EXCEPT ![s] = <<pub>>]
    BY <1>5, <2>1, OneSent DEF TypeOK, LifeOK
  <2>2. CASE ch[s] # <<>> /\ ch' = ch
    BY <2>2 DEF TypeOK, LifeOK
  <2> QED
    BY <1>2, <2>1, <2>2
<1>10. /\ \A x \in Subs : /\ Marshalled(x)' = Marshalled(x)
                          /\ Queued(x)' = Queued(x) /\ Held(x)' = Held(x)
       /\ \A x \in Subs \ {s} : Waiting(x)' = Waiting(x)
       /\ \/ ch[s] = <<>> /\ Waiting(s) = {} /\ Waiting(s)' = {pub}
          \/ ch[s] # <<>> /\ Waiting(s) = {Head(ch[s])} /\ Waiting(s)' = Waiting(s)
  <2>1. \A x \in Subs : /\ Marshalled(x)' = Marshalled(x)
                        /\ Queued(x)' = Queued(x) /\ Held(x)' = Held(x)
    BY <1>1 DEF Marshalled, Queued, Held
  <2>2. \A x \in Subs \ {s} : Waiting(x)' = Waiting(x)
    BY <1>9 DEF Waiting
  <2>3. ch[s] = <<>> => Waiting(s) = {}
    BY CarriedTyped
  <2>4. ch[s] # <<>> => Waiting(s) = {Head(ch[s])}
    BY CarriedTyped
  <2>5. ch'[s] = <<pub>> => Waiting(s)' = {pub}
    BY OneSent DEF Waiting
  <2>6. ch'[s] = ch[s] => Waiting(s)' = Waiting(s)
    BY DEF Waiting
  <2> QED
    BY <1>9, <2>1, <2>2, <2>3, <2>4, <2>5, <2>6
<1>11. /\ due' \in [Subs -> [Employees -> Fields]]
       /\ missed' \in [Subs -> SUBSET Employees]
       /\ \A x \in Subs, f \in Employees :
            ~(x = s /\ f = e /\ wanted) =>
              /\ due'[x][f] = due[x][f]
              /\ f \in missed[x] => f \in missed'[x]
       /\ wanted => due'[s][e] = employees[e]
       /\ (wanted /\ ch[s] # <<>> /\ Head(ch[s]).emp # e) => e \in missed'[s]
  <2>1. due \in [Subs -> [Employees -> Fields]] /\ missed \in [Subs -> SUBSET Employees]
    BY DEF TypeOK
  <2>2. CASE wanted
    <3>1. due' = [due EXCEPT ![s] = [due[s] EXCEPT ![e] = employees[e]]]
      BY <1>3, <2>2
    <3>2. missed' = [missed EXCEPT ![s] =
                IF ch[s] = <<>> \/ Head(ch[s]).emp = e
                THEN missed[s] \ {e} ELSE missed[s] \cup {e}]
      BY <1>3, <2>2
    <3> HIDE DEF wanted
    <3> QED
      BY <1>4, <2>1, <2>2, <3>1, <3>2
  <2>3. CASE ~wanted
    <3>1. due' = due /\ missed' = missed
      BY <1>3, <2>3
    <3> HIDE DEF wanted
    <3> QED
      BY <2>1, <2>3, <3>1
  <2> QED
    BY <2>2, <2>3
<1>12. TypeOK'
  <2>1. ch' \in [Subs -> Seq(Event)]
    BY <1>2, <1>9 DEF TypeOK
  <2>2. left' \in [Updates -> SUBSET Subs]
    BY <1>1 DEF TypeOK
  <2> QED
    BY <1>1, <1>11, <2>1, <2>2 DEF TypeOK
<1>13. JobOK' /\ VisitsOK'
  BY <1>1, <1>8 DEF JobOK, VisitsOK, InProgress
<1>14. LifeOK'
  BY <1>1, <1>6, <1>9 DEF LifeOK
<1>15. OrderOK'
  <2>1. \A m \in Carried(s) : m.seq < clock
    BY <1>1 DEF OrderOK
  <2>2. \A x \in Subs \ {s} : Carried(x)' = Carried(x)
    BY <1>10 DEF Carried
  <2>3. Carried(s)' \subseteq Carried(s) \cup {pub}
    BY <1>10 DEF Carried
  <2>4. /\ Before(Marshalled(s), Waiting(s)')
        /\ Before(Queued(s), Waiting(s)')
        /\ Before(Held(s), Waiting(s)')
    BY <1>5, <1>10, <2>1 DEF OrderOK, Before, Carried
  <2>5. \A x \in Subs \ {s} : \A m \in Carried(x)' :
          /\ m.seq <= clock
          /\ \A v \in Updates : upc[v] = "writing" \/ x \in left'[v] => m.seq < clock
    BY <1>8, <2>2 DEF OrderOK
  <2>6. \A m \in Carried(s)' :
          /\ m.seq <= clock
          /\ \A v \in Updates : ~(upc[v] = "writing" \/ s \in left'[v])
    <3>1. \A m \in Carried(s) : m.seq <= clock
      BY DEF OrderOK
    <3> QED
      BY <1>4, <1>5, <1>8, <2>3, <3>1
  <2>7. \A x \in Subs : /\ Before(Marshalled(x)', Queued(x)' \cup Held(x)' \cup Waiting(x)')
                        /\ Before(Queued(x)', Held(x)' \cup Waiting(x)')
                        /\ Before(Held(x)', Waiting(x)')
    BY <1>10, <2>4 DEF OrderOK, Before
  <2> QED
    BY <1>1, <2>5, <2>6, <2>7 DEF OrderOK, Before
<1>16. FilterOK'
  BY <1>1, <1>10 DEF FilterOK, Matches
<1>17. FieldsOK'
  <2>1. \A x \in Subs, f \in Employees :
          AtLeast(employees[f], due'[x][f])
    <3>1. AtLeast(employees[e], employees[e])
      BY <1>4 DEF AtLeast, Fields
    <3>2. \A x \in Subs, f \in Employees : AtLeast(employees[f], due[x][f])
      BY DEF FieldsOK
    <3> HIDE DEF wanted
    <3> QED
      BY <1>11, <3>1, <3>2
  <2>2. \A x \in Subs, f \in Employees :
          due'[x][f] # Unwritten => spc[x] # "idle" /\ Matches(x, f)
    BY <1>6, <1>11 DEF FieldsOK
  <2> QED
    BY <1>1, <2>1, <2>2 DEF FieldsOK, AtLeast, Matches
<1>18. SeenOK'
  <2> SUFFICES ASSUME NEW x \in Subs, NEW f \in Employees, x \in subscribers \ cancelled
               PROVE  \/ AtLeast(seen[x][f], due'[x][f])
                      \/ \E m \in Queued(x) \cup Held(x) \cup Waiting(x)' : m.emp = f
                      \/ /\ cpc[x] = "marshalling" /\ shown[x].event.emp = f
                         /\ shown[x].name >= due'[x][f].name
                      \/ f \in missed'[x]
    BY <1>1, <1>10 DEF SeenOK, AtLeast
  <2>1. CASE x = s /\ f = e /\ wanted
    BY <1>5, <1>10, <1>11, <2>1
  <2>2. CASE ~(x = s /\ f = e /\ wanted)
    <3>1. due'[x][f] = due[x][f] /\ (f \in missed[x] => f \in missed'[x])
      BY <1>11, <2>2
    <3>2. Waiting(x) \subseteq Waiting(x)'
      BY <1>10
    <3> QED
      BY <3>1, <3>2 DEF SeenOK
  <2> QED
    BY <2>1, <2>2
<1> QED
  BY <1>12, <1>13, <1>14, <1>15, <1>16, <1>17, <1>18

LEMMA SubscribeKeeps ==
  ASSUME BusInv, NEW s \in Subs, NEW f \in Employees \cup {None}, Subscribe(s, f)
  PROVE  BusInv'
<1> USE DEF BusInv
<1>1. /\ UNCHANGED <<employees, clock, upc, job, left, closed, hand>>
      /\ UNCHANGED <<cpc, shown, due, seen, missed, ch, out, cancelled>>
      /\ subscribers' = subscribers \cup {s}
      /\ filter' = [filter EXCEPT ![s] = f]
      /\ spc' = [spc EXCEPT ![s] = "waiting"]
      /\ spc[s] = "idle" /\ \A u \in Updates : upc[u] # "publishing"
  BY DEF Subscribe, updateVars, consumerVars, historyVars, BusLocked
<1>2. /\ spc'[s] = "waiting"
      /\ \A x \in Subs \ {s} : spc'[x] = spc[x] /\ filter'[x] = filter[x]
  BY <1>1 DEF TypeOK
<1>3. TypeOK'
  BY <1>1 DEF TypeOK
<1>4. JobOK' /\ VisitsOK'
  BY <1>1 DEF JobOK, VisitsOK, InProgress
<1>5. LifeOK'
  BY <1>1, <1>2 DEF LifeOK
<1>6. OrderOK'
  BY <1>1, PlacesFrame DEF OrderOK, Before
<1>7. Queued(s) = {} /\ Held(s) = {}
  BY <1>1, CarriedTyped DEF LifeOK, Held
<1>8. FilterOK'
  BY <1>1, <1>2, <1>7, PlacesFrame DEF FilterOK, Matches
<1>9. \A e \in Employees : due[s][e] = Unwritten
  BY <1>1 DEF FieldsOK
<1>10. FieldsOK'
  <2>1. \A x \in Subs, e \in Employees :
          due[x][e] # Unwritten => spc'[x] # "idle" /\ filter'[x] \in {None, e}
    BY <1>2, <1>9 DEF FieldsOK, Matches
  <2> QED
    BY <1>1, <2>1 DEF FieldsOK, AtLeast, Matches
<1>11. SeenOK'
  <2>1. \A e \in Employees : AtLeast(seen[s][e], due[s][e])
    BY <1>9 DEF AtLeast, Unwritten, TypeOK, Fields
  <2> QED
    BY <1>1, <2>1, PlacesFrame DEF SeenOK, AtLeast
<1> QED
  BY <1>3, <1>4, <1>5, <1>6, <1>8, <1>10, <1>11

LEMMA CancelKeeps ==
  ASSUME BusInv, NEW s \in Subs, Cancel(s)
  PROVE  BusInv'
<1> USE DEF BusInv
<1>1. /\ UNCHANGED <<employees, clock, upc, job, left>>
      /\ UNCHANGED <<subscribers, closed, filter, spc, hand, cpc, shown, ch, out>>
      /\ cancelled' = cancelled \cup {s}
      /\ due' = [due EXCEPT ![s] = [e \in Employees |-> Unwritten]]
      /\ seen' = [seen EXCEPT ![s] = [e \in Employees |-> Unwritten]]
      /\ missed' = [missed EXCEPT ![s] = {}]
  BY DEF Cancel, updateVars, forwardVars, consumerVars
<1>2. /\ \A e \in Employees : due'[s][e] = Unwritten /\ seen'[s][e] = Unwritten
      /\ \A x \in Subs \ {s} : due'[x] = due[x] /\ seen'[x] = seen[x] /\ missed'[x] = missed[x]
  BY <1>1 DEF TypeOK
<1>3. TypeOK'
  BY <1>1 DEF TypeOK, Unwritten, Fields
<1>4. JobOK' /\ VisitsOK' /\ LifeOK'
  BY <1>1 DEF JobOK, VisitsOK, InProgress, LifeOK
<1>5. OrderOK' /\ FilterOK'
  BY <1>1, PlacesFrame DEF OrderOK, Before, FilterOK, Matches
<1>6. FieldsOK'
  <2>1. \A e \in Employees : AtLeast(employees[e], Unwritten)
    BY DEF AtLeast, Unwritten, TypeOK, Fields
  <2>2. \A x \in Subs, e \in Employees :
          /\ AtLeast(employees[e], due'[x][e])
          /\ AtLeast(employees[e], seen'[x][e])
          /\ due'[x][e] # Unwritten => spc[x] # "idle" /\ Matches(x, e)
    BY <1>2, <2>1 DEF FieldsOK
  <2>3. \A x \in Subs : cpc[x] = "marshalling" =>
          shown[x].event.emp \in Employees /\ shown[x].name \in Nat
    BY DEF LifeOK, Event
  <2>4. \A x \in Subs : cpc[x] = "marshalling" =>
          seen'[x][shown[x].event.emp].name <= shown[x].name
    BY <1>2, <2>3 DEF FieldsOK, Unwritten
  <2> QED
    BY <1>1, <2>2, <2>4 DEF FieldsOK, AtLeast, Matches
<1>7. SeenOK'
  BY <1>1, <1>2, PlacesFrame DEF SeenOK, AtLeast
<1> QED
  BY <1>3, <1>4, <1>5, <1>6, <1>7

LEMMA TakeEventKeeps ==
  ASSUME BusInv, NEW s \in Subs, TakeEvent(s)
  PROVE  BusInv'
<1> USE DEF BusInv
<1> DEFINE m == Head(ch[s])
<1>1. /\ UNCHANGED <<employees, clock, upc, job, left, subscribers, closed, filter>>
      /\ UNCHANGED <<cpc, shown, due, seen, missed, out, cancelled>>
      /\ spc[s] = "waiting" /\ ch[s] # <<>>
      /\ ch' = [ch EXCEPT ![s] = <<>>]
  BY DEF TakeEvent, updateVars, consumerVars, historyVars
<1>2. IF Matches(s, m.emp)
      THEN /\ hand' = [hand EXCEPT ![s] = m]
           /\ spc' = [spc EXCEPT ![s] = "holding"]
      ELSE hand' = hand /\ spc' = spc
  BY DEF TakeEvent
<1>3. Waiting(s) = {m} /\ m \in Carried(s) /\ m \in Event /\ hand[s] = None
  BY <1>1, CarriedTyped DEF Carried, LifeOK
<1> HIDE DEF m
<1>4. /\ ch'[s] = <<>>
      /\ \A x \in Subs \ {s} : ch'[x] = ch[x] /\ hand'[x] = hand[x] /\ spc'[x] = spc[x]
      /\ Matches(s, m.emp) => hand'[s] = m /\ spc'[s] = "holding"
      /\ ~Matches(s, m.emp) => hand'[s] = None /\ spc'[s] = "waiting"
  BY <1>1, <1>2, <1>3 DEF TypeOK
<1>5. /\ \A x \in Subs : Marshalled(x)' = Marshalled(x) /\ Queued(x)' = Queued(x)
      /\ \A x \in Subs \ {s} : Held(x)' = Held(x) /\ Waiting(x)' = Waiting(x)
      /\ Waiting(s)' = {}
      /\ Held(s)' = IF Matches(s, m.emp) THEN {m} ELSE {}
  <2>1. \A x \in Subs : Marshalled(x)' = Marshalled(x) /\ Queued(x)' = Queued(x)
    BY <1>1 DEF Marshalled, Queued
  <2>2. \A x \in Subs \ {s} : Held(x)' = Held(x) /\ Waiting(x)' = Waiting(x)
    BY <1>4 DEF Held, Waiting
  <2>3. Waiting(s)' = {}
    BY <1>4, NoneSent DEF Waiting
  <2>4. Held(s)' = IF Matches(s, m.emp) THEN {m} ELSE {}
    BY <1>3, <1>4, NoneAssumption DEF Held
  <2> QED
    BY <2>1, <2>2, <2>3, <2>4
<1>6. TypeOK'
  <2>1. ch' \in [Subs -> Seq(Event)]
    BY <1>1 DEF TypeOK
  <2>2. /\ hand' \in [Subs -> Event \cup {None}]
        /\ spc' \in [Subs -> {"idle", "waiting", "holding", "leaving", "closing", "gone"}]
    <3>1. CASE Matches(s, m.emp)
      <4>1. /\ hand' = [hand EXCEPT ![s] = m] /\ spc' = [spc EXCEPT ![s] = "holding"]
            /\ hand \in [Subs -> Event \cup {None}] /\ m \in Event
        BY <1>2, <1>3, <3>1 DEF TypeOK
      <4>2. hand' \in [Subs -> Event \cup {None}]
        BY <4>1
      <4> QED
        BY <4>1, <4>2 DEF TypeOK
    <3>2. CASE ~Matches(s, m.emp)
      BY <1>2, <3>2 DEF TypeOK
    <3> QED
      BY <3>1, <3>2
  <2> QED
    BY <1>1, <2>1, <2>2 DEF TypeOK
<1>7. JobOK' /\ VisitsOK'
  BY <1>1 DEF JobOK, VisitsOK, InProgress
<1>8. LifeOK'
  BY <1>1, <1>3, <1>4, NoneSent DEF LifeOK
<1>9. OrderOK'
  <2>1. \A x \in Subs : Carried(x)' \subseteq Carried(x)
    BY <1>3, <1>5 DEF Carried
  <2>2. \A x \in Subs :
          /\ Before(Marshalled(x), Queued(x) \cup Held(x)' \cup Waiting(x)')
          /\ Before(Queued(x), Held(x)' \cup Waiting(x)')
          /\ Before(Held(x)', Waiting(x)')
    BY <1>3, <1>5 DEF OrderOK, Before
  <2> QED
    BY <1>1, <1>5, <2>1, <2>2 DEF OrderOK, Before
<1>10. FilterOK'
  BY <1>1, <1>5 DEF FilterOK, Matches
<1>11. FieldsOK'
  BY <1>1, <1>4 DEF FieldsOK, AtLeast, Matches
<1>12. SeenOK'
  <2> SUFFICES ASSUME NEW x \in Subs, NEW f \in Employees, x \in subscribers \ cancelled
               PROVE  \/ AtLeast(seen[x][f], due[x][f])
                      \/ \E n \in Queued(x) \cup Held(x)' \cup Waiting(x)' : n.emp = f
                      \/ /\ cpc[x] = "marshalling" /\ shown[x].event.emp = f
                         /\ shown[x].name >= due[x][f].name
                      \/ f \in missed[x]
    BY <1>1, <1>5 DEF SeenOK, AtLeast
  <2>1. CASE x = s /\ f = m.emp /\ ~Matches(s, f)
    <3>1. due[s][f] = Unwritten
      BY <2>1 DEF FieldsOK
    <3> QED
      BY <2>1, <3>1 DEF AtLeast, Unwritten, TypeOK, Fields
  <2>2. CASE ~(x = s /\ f = m.emp /\ ~Matches(s, f))
    <3>1. \/ AtLeast(seen[x][f], due[x][f])
          \/ \E n \in Queued(x) \cup Held(x) \cup Waiting(x) : n.emp = f
          \/ /\ cpc[x] = "marshalling" /\ shown[x].event.emp = f
             /\ shown[x].name >= due[x][f].name
          \/ f \in missed[x]
      BY DEF SeenOK
    <3>2. ASSUME NEW n \in Queued(x) \cup Held(x) \cup Waiting(x), n.emp = f
          PROVE  n \in Queued(x) \cup Held(x)' \cup Waiting(x)'
      <4>1. CASE x # s
        BY <1>5, <3>2, <4>1
      <4>2. CASE x = s
        <5>1. Held(s) = {}
          BY <1>3 DEF Held
        <5>2. n = m => n \in Held(s)'
          BY <1>5, <2>2, <3>2, <4>2
        <5> QED
          BY <1>3, <3>2, <4>2, <5>1, <5>2
      <4> QED
        BY <4>1, <4>2
    <3> QED
      BY <3>1, <3>2
  <2> QED
    BY <2>1, <2>2
<1> QED
  BY <1>6, <1>7, <1>8, <1>9, <1>10, <1>11, <1>12

LEMMA ForwardKeeps ==
  ASSUME BusInv, NEW s \in Subs, Forward(s)
  PROVE  BusInv'
<1> USE DEF BusInv
<1> DEFINE m == hand[s]
<1>1. /\ UNCHANGED <<employees, clock, upc, job, left, subscribers, closed, filter>>
      /\ UNCHANGED <<cpc, shown, due, seen, missed, ch, cancelled>>
      /\ spc[s] = "holding" /\ out[s] = <<>>
      /\ out' = [out EXCEPT ![s] = <<m>>]
      /\ hand' = [hand EXCEPT ![s] = None]
      /\ spc' = [spc EXCEPT ![s] = "waiting"]
  BY DEF Forward, updateVars, consumerVars, historyVars
<1>2. m \in Event /\ Held(s) = {m} /\ Queued(s) = {}
  BY <1>1, CarriedTyped, NoneAssumption DEF LifeOK, Held
<1> HIDE DEF m
<1>3. /\ out'[s] = <<m>> /\ hand'[s] = None /\ spc'[s] = "waiting"
      /\ \A x \in Subs \ {s} : out'[x] = out[x] /\ hand'[x] = hand[x] /\ spc'[x] = spc[x]
  BY <1>1 DEF TypeOK
<1>4. /\ \A x \in Subs : Marshalled(x)' = Marshalled(x) /\ Waiting(x)' = Waiting(x)
      /\ \A x \in Subs \ {s} : Held(x)' = Held(x) /\ Queued(x)' = Queued(x)
      /\ Queued(s)' = {m} /\ Held(s)' = {}
  <2>1. \A x \in Subs : Marshalled(x)' = Marshalled(x) /\ Waiting(x)' = Waiting(x)
    BY <1>1 DEF Marshalled, Waiting
  <2>2. \A x \in Subs \ {s} : Held(x)' = Held(x) /\ Queued(x)' = Queued(x)
    BY <1>3 DEF Held, Queued
  <2>3. Queued(s)' = {m} /\ Held(s)' = {}
    BY <1>3, OneSent DEF Held, Queued
  <2> QED
    BY <2>1, <2>2, <2>3
<1>5. TypeOK'
  BY <1>1, <1>2 DEF TypeOK
<1>6. JobOK' /\ VisitsOK'
  BY <1>1 DEF JobOK, VisitsOK, InProgress
<1>7. LifeOK'
  BY <1>1, <1>3, OneSent DEF LifeOK
<1>8. OrderOK'
  <2>1. \A x \in Subs : Carried(x)' = Carried(x)
    BY <1>2, <1>4 DEF Carried
  <2>2. \A x \in Subs :
          /\ Before(Marshalled(x), Queued(x)' \cup Held(x)' \cup Waiting(x))
          /\ Before(Queued(x)', Held(x)' \cup Waiting(x))
          /\ Before(Held(x)', Waiting(x))
    BY <1>2, <1>4 DEF OrderOK, Before
  <2> QED
    BY <1>1, <1>4, <2>1, <2>2 DEF OrderOK, Before
<1>9. FilterOK'
  BY <1>1, <1>2, <1>4 DEF FilterOK, Matches
<1>10. FieldsOK'
  BY <1>1, <1>3 DEF FieldsOK, AtLeast, Matches
<1>11. SeenOK'
  <2>1. \A x \in Subs : Queued(x)' \cup Held(x)' \cup Waiting(x)'
                          = Queued(x) \cup Held(x) \cup Waiting(x)
    BY <1>2, <1>4
  <2> QED
    BY <1>1, <2>1 DEF SeenOK, AtLeast
<1> QED
  BY <1>5, <1>6, <1>7, <1>8, <1>9, <1>10, <1>11

LEMMA NoticeCancelKeeps ==
  ASSUME BusInv, NEW s \in Subs, NoticeCancel(s)
  PROVE  BusInv'
<1> USE DEF BusInv
<1>1. /\ UNCHANGED <<employees, clock, upc, job, left, subscribers, closed, filter>>
      /\ UNCHANGED <<cpc, shown, due, seen, missed, ch, out, cancelled>>
      /\ spc[s] \in {"waiting", "holding"} /\ s \in cancelled
      /\ hand' = [hand EXCEPT ![s] = None]
      /\ spc' = [spc EXCEPT ![s] = "leaving"]
  BY DEF NoticeCancel, updateVars, consumerVars, historyVars
<1>2. /\ hand'[s] = None /\ spc'[s] = "leaving"
      /\ \A x \in Subs \ {s} : hand'[x] = hand[x] /\ spc'[x] = spc[x]
  BY <1>1 DEF TypeOK
<1>3. /\ \A x \in Subs : /\ Marshalled(x)' = Marshalled(x)
                         /\ Queued(x)' = Queued(x) /\ Waiting(x)' = Waiting(x)
      /\ \A x \in Subs \ {s} : Held(x)' = Held(x)
      /\ Held(s)' = {}
  BY <1>1, <1>2 DEF Marshalled, Queued, Held, Waiting
<1>4. TypeOK'
  BY <1>1 DEF TypeOK
<1>5. JobOK' /\ VisitsOK'
  BY <1>1 DEF JobOK, VisitsOK, InProgress
<1>6. LifeOK'
  BY <1>1, <1>2 DEF LifeOK
<1>7. \A x \in Subs : Held(x)' \subseteq Held(x)
  BY <1>3
<1>8. OrderOK'
  <2>1. \A x \in Subs : Carried(x)' \subseteq Carried(x)
    BY <1>3, <1>7 DEF Carried
  <2> QED
    BY <1>1, <1>3, <1>7, <2>1 DEF OrderOK, Before
<1>9. FilterOK'
  BY <1>1, <1>3, <1>7 DEF FilterOK, Matches
<1>10. FieldsOK'
  BY <1>1, <1>2 DEF FieldsOK, AtLeast, Matches
<1>11. SeenOK'
  BY <1>1, <1>3 DEF SeenOK, AtLeast
<1> QED
  BY <1>4, <1>5, <1>6, <1>8, <1>9, <1>10, <1>11

LEMMA UnsubscribeKeeps ==
  ASSUME BusInv, NEW s \in Subs, Unsubscribe(s)
  PROVE  BusInv'
<1> USE DEF BusInv
<1>1. /\ UNCHANGED <<employees, clock, upc, job, left, filter, hand>>
      /\ UNCHANGED <<cpc, shown, due, seen, missed, ch, out, cancelled>>
      /\ spc[s] = "leaving" /\ \A u \in Updates : upc[u] # "publishing"
      /\ subscribers' = subscribers \ {s}
      /\ closed' = closed \cup {s}
      /\ spc' = [spc EXCEPT ![s] = "closing"]
  BY DEF Unsubscribe, updateVars, consumerVars, historyVars, BusLocked
<1>2. /\ spc'[s] = "closing"
      /\ \A x \in Subs \ {s} : spc'[x] = spc[x]
  BY <1>1 DEF TypeOK
<1>3. TypeOK'
  BY <1>1 DEF TypeOK
<1>4. JobOK' /\ VisitsOK'
  BY <1>1 DEF JobOK, VisitsOK, InProgress
<1>5. LifeOK'
  BY <1>1, <1>2 DEF LifeOK
<1>6. OrderOK' /\ FilterOK'
  BY <1>1, PlacesFrame DEF OrderOK, Before, FilterOK, Matches
<1>7. FieldsOK'
  BY <1>1, <1>2 DEF FieldsOK, AtLeast, Matches
<1>8. SeenOK'
  BY <1>1, PlacesFrame DEF SeenOK, AtLeast
<1> QED
  BY <1>3, <1>4, <1>5, <1>6, <1>7, <1>8

LEMMA CloseOutKeeps ==
  ASSUME BusInv, NEW s \in Subs, CloseOut(s)
  PROVE  BusInv'
<1> USE DEF BusInv
<1>1. /\ UNCHANGED <<employees, clock, upc, job, left, subscribers, closed, filter, hand>>
      /\ UNCHANGED <<cpc, shown, due, seen, missed, ch, out, cancelled>>
      /\ spc[s] = "closing"
      /\ spc' = [spc EXCEPT ![s] = "gone"]
  BY DEF CloseOut, updateVars, consumerVars, historyVars
<1>2. /\ spc'[s] = "gone"
      /\ \A x \in Subs \ {s} : spc'[x] = spc[x]
  BY <1>1 DEF TypeOK
<1>3. TypeOK'
  BY <1>1 DEF TypeOK
<1>4. JobOK' /\ VisitsOK'
  BY <1>1 DEF JobOK, VisitsOK, InProgress
<1>5. LifeOK'
  BY <1>1, <1>2 DEF LifeOK
<1>6. OrderOK' /\ FilterOK'
  BY <1>1, PlacesFrame DEF OrderOK, Before, FilterOK, Matches
<1>7. FieldsOK'
  BY <1>1, <1>2 DEF FieldsOK, AtLeast, Matches
<1>8. SeenOK'
  BY <1>1, PlacesFrame DEF SeenOK, AtLeast
<1> QED
  BY <1>3, <1>4, <1>5, <1>6, <1>7, <1>8

LEMMA ReceiveKeeps ==
  ASSUME BusInv, NEW s \in Subs, Receive(s)
  PROVE  BusInv'
<1> USE DEF BusInv
<1> DEFINE m == Head(out[s])
           view == [event |-> m, name |-> employees[m.emp].name]
<1>1. /\ UNCHANGED <<employees, clock, upc, job, left>>
      /\ UNCHANGED <<subscribers, closed, filter, spc, hand>>
      /\ UNCHANGED <<due, seen, missed, ch, cancelled>>
      /\ cpc[s] = "idle" /\ out[s] # <<>>
      /\ out' = [out EXCEPT ![s] = <<>>]
      /\ shown' = [shown EXCEPT ![s] = view]
      /\ cpc' = [cpc EXCEPT ![s] = "marshalling"]
  BY DEF Receive, updateVars, forwardVars, historyVars
<1>2. Queued(s) = {m} /\ m \in Event /\ Marshalled(s) = {}
  BY <1>1, CarriedTyped DEF Carried, Marshalled
<1>3. /\ view \in [event : Event, name : Nat]
      /\ view.event = m /\ view.name = employees[m.emp].name
      /\ m.emp \in Employees
  BY <1>2 DEF TypeOK, Fields, Event
<1> HIDE DEF m, view
<1>4. /\ out'[s] = <<>> /\ shown'[s] = view /\ cpc'[s] = "marshalling"
      /\ \A x \in Subs \ {s} : out'[x] = out[x] /\ shown'[x] = shown[x] /\ cpc'[x] = cpc[x]
  BY <1>1 DEF TypeOK
<1>5. /\ \A x \in Subs : Held(x)' = Held(x) /\ Waiting(x)' = Waiting(x)
      /\ \A x \in Subs \ {s} : Marshalled(x)' = Marshalled(x) /\ Queued(x)' = Queued(x)
      /\ Marshalled(s)' = {m} /\ Queued(s)' = {}
  <2>1. \A x \in Subs : Held(x)' = Held(x) /\ Waiting(x)' = Waiting(x)
    BY <1>1 DEF Held, Waiting
  <2>2. \A x \in Subs \ {s} : Marshalled(x)' = Marshalled(x) /\ Queued(x)' = Queued(x)
    BY <1>4 DEF Marshalled, Queued
  <2>3. Marshalled(s)' = {m} /\ Queued(s)' = {}
    BY <1>3, <1>4, NoneSent DEF Marshalled, Queued
  <2> QED
    BY <2>1, <2>2, <2>3
<1>6. TypeOK'
  BY <1>1, <1>3 DEF TypeOK
<1>7. JobOK' /\ VisitsOK'
  BY <1>1 DEF JobOK, VisitsOK, InProgress
<1>8. LifeOK'
  BY <1>1, <1>3, <1>4, NoneSent DEF LifeOK
<1>9. OrderOK'
  <2>1. \A x \in Subs : Carried(x)' = Carried(x)
    BY <1>2, <1>5 DEF Carried
  <2>2. \A x \in Subs :
          /\ Before(Marshalled(x)', Queued(x)' \cup Held(x) \cup Waiting(x))
          /\ Before(Queued(x)', Held(x) \cup Waiting(x))
          /\ Before(Held(x), Waiting(x))
    BY <1>2, <1>5 DEF OrderOK, Before
  <2> QED
    BY <1>1, <1>5, <2>1, <2>2 DEF OrderOK, Before
<1>10. FilterOK'
  BY <1>1, <1>5 DEF FilterOK, Matches
<1>11. FieldsOK'
  <2>1. seen[s][m.emp].name <= employees[m.emp].name /\ employees[m.emp].name \in Nat
    BY <1>3 DEF FieldsOK, AtLeast, TypeOK, Fields
  <2>2. \A x \in Subs : cpc'[x] = "marshalling" =>
          /\ seen[x][shown'[x].event.emp].name <= shown'[x].name
          /\ shown'[x].name <= employees[shown'[x].event.emp].name
    BY <1>3, <1>4, <2>1 DEF FieldsOK
  <2> QED
    BY <1>1, <2>2 DEF FieldsOK, AtLeast, Matches
<1>12. SeenOK'
  <2> SUFFICES ASSUME NEW x \in Subs, NEW f \in Employees, x \in subscribers \ cancelled
               PROVE  \/ AtLeast(seen[x][f], due[x][f])
                      \/ \E n \in Queued(x)' \cup Held(x) \cup Waiting(x) : n.emp = f
                      \/ /\ cpc'[x] = "marshalling" /\ shown'[x].event.emp = f
                         /\ shown'[x].name >= due[x][f].name
                      \/ f \in missed[x]
    BY <1>1, <1>5 DEF SeenOK, AtLeast
  <2>1. CASE x = s /\ f = m.emp
    BY <1>3, <1>4, <2>1 DEF FieldsOK, AtLeast
  <2>2. CASE x = s /\ f # m.emp
    BY <1>1, <1>2, <1>5, <2>2 DEF SeenOK
  <2>3. CASE x # s
    BY <1>4, <1>5, <2>3 DEF SeenOK
  <2> QED
    BY <2>1, <2>2, <2>3
<1> QED
  BY <1>6, <1>7, <1>8, <1>9, <1>10, <1>11, <1>12

LEMMA MarshalKeeps ==
  ASSUME BusInv, NEW s \in Subs, Marshal(s)
  PROVE  BusInv'
<1> USE DEF BusInv
<1> DEFINE e == shown[s].event.emp
           view == [name |-> shown[s].name, salary |-> employees[e].salary]
<1>1. /\ UNCHANGED <<employees, clock, upc, job, left>>
      /\ UNCHANGED <<subscribers, closed, filter, spc, hand>>
      /\ UNCHANGED <<due, missed, ch, out, cancelled>>
      /\ cpc[s] = "marshalling"
      /\ shown' = [shown EXCEPT ![s] = None]
      /\ cpc' = [cpc EXCEPT ![s] = "idle"]
  BY DEF Marshal, updateVars, forwardVars
<1>2. IF s \in cancelled THEN seen' = seen
      ELSE seen' = [seen EXCEPT ![s] = [seen[s] EXCEPT ![e] = view]]
  BY DEF Marshal
<1>3. /\ e \in Employees /\ view \in Fields
      /\ view.name = shown[s].name /\ view.salary = employees[e].salary
  BY <1>1 DEF LifeOK, Event, TypeOK, Fields
<1>4. /\ view.name <= employees[e].name /\ seen[s][e].name <= view.name
      /\ employees[e] \in Fields /\ seen[s][e] \in Fields /\ due[s][e] \in Fields
  BY <1>1, <1>3 DEF FieldsOK, TypeOK
<1>5. SeenOK => \A f \in Employees : s \in subscribers \ cancelled =>
         \/ AtLeast(seen[s][f], due[s][f])
         \/ \E n \in Queued(s) \cup Held(s) \cup Waiting(s) : n.emp = f
         \/ f = e /\ view.name >= due[s][f].name
         \/ f \in missed[s]
  BY <1>3 DEF SeenOK
<1> HIDE DEF e, view
<1>6. /\ shown'[s] = None /\ cpc'[s] = "idle"
      /\ \A x \in Subs \ {s} : shown'[x] = shown[x] /\ cpc'[x] = cpc[x]
  BY <1>1 DEF TypeOK
<1>7. /\ seen' \in [Subs -> [Employees -> Fields]]
      /\ \A x \in Subs, f \in Employees : ~(x = s /\ f = e) => seen'[x][f] = seen[x][f]
      /\ s \in cancelled => seen' = seen
      /\ s \notin cancelled => seen'[s][e] = view
  <2>1. seen \in [Subs -> [Employees -> Fields]]
    BY DEF TypeOK
  <2>2. CASE s \in cancelled
    BY <1>2, <2>1, <2>2
  <2>3. CASE s \notin cancelled
    BY <1>2, <1>3, <2>1, <2>3
  <2> QED
    BY <2>2, <2>3
<1>8. /\ \A x \in Subs : /\ Queued(x)' = Queued(x)
                         /\ Held(x)' = Held(x) /\ Waiting(x)' = Waiting(x)
      /\ \A x \in Subs \ {s} : Marshalled(x)' = Marshalled(x)
      /\ Marshalled(s)' = {}
  BY <1>1, <1>6 DEF Marshalled, Queued, Held, Waiting
<1>9. TypeOK'
  BY <1>1, <1>7 DEF TypeOK
<1>10. JobOK' /\ VisitsOK'
  BY <1>1 DEF JobOK, VisitsOK, InProgress
<1>11. LifeOK'
  BY <1>1, <1>6 DEF LifeOK
<1>12. OrderOK'
  <2>1. \A x \in Subs : Carried(x)' \subseteq Carried(x) /\ Marshalled(x)' \subseteq Marshalled(x)
    BY <1>8 DEF Carried
  <2> QED
    BY <1>1, <1>8, <2>1 DEF OrderOK, Before
<1>13. FilterOK'
  BY <1>1, <1>8 DEF FilterOK, Matches
<1>14. FieldsOK'
  <2>1. \A x \in Subs, f \in Employees : AtLeast(employees[f], seen'[x][f])
    <3>1. AtLeast(employees[e], view)
      BY <1>3, <1>4 DEF AtLeast, Fields
    <3>2. \A x \in Subs, f \in Employees : AtLeast(employees[f], seen[x][f])
      BY DEF FieldsOK
    <3> QED
      BY <1>7, <3>1, <3>2
  <2>2. \A x \in Subs : cpc'[x] = "marshalling" =>
          /\ seen'[x][shown'[x].event.emp].name <= shown'[x].name
          /\ shown'[x].name <= employees[shown'[x].event.emp].name
    <3>1. \A x \in Subs : cpc[x] = "marshalling" => shown[x].event.emp \in Employees
      BY DEF LifeOK, Event
    <3> QED
      BY <1>6, <1>7, <3>1 DEF FieldsOK
  <2> QED
    BY <1>1, <2>1, <2>2 DEF FieldsOK, AtLeast, Matches
<1>15. SeenOK'
  <2> SUFFICES ASSUME NEW x \in Subs, NEW f \in Employees, x \in subscribers \ cancelled
               PROVE  \/ AtLeast(seen'[x][f], due[x][f])
                      \/ \E n \in Queued(x) \cup Held(x) \cup Waiting(x) : n.emp = f
                      \/ /\ cpc'[x] = "marshalling" /\ shown'[x].event.emp = f
                         /\ shown'[x].name >= due[x][f].name
                      \/ f \in missed[x]
    BY <1>1, <1>8 DEF SeenOK, AtLeast
  <2>1. CASE x = s /\ f = e
    <3>1. seen'[s][e] = view
      BY <1>7, <2>1
    <3>2. due[s][e].salary <= view.salary
      BY <1>3, <1>4 DEF FieldsOK, AtLeast
    <3>3. AtLeast(seen[s][e], due[s][e]) => AtLeast(view, due[s][e])
      BY <1>3, <1>4, <3>2 DEF AtLeast, Fields
    <3>4. view.name >= due[s][e].name => AtLeast(view, due[s][e])
      BY <1>3, <1>4, <3>2 DEF AtLeast, Fields
    <3> QED
      BY <1>5, <2>1, <3>1, <3>3, <3>4
  <2>2. CASE x = s /\ f # e
    BY <1>5, <1>7, <2>2
  <2>3. CASE x # s
    BY <1>6, <1>7, <2>3 DEF SeenOK
  <2> QED
    BY <2>1, <2>2, <2>3
<1> QED
  BY <1>9, <1>10, <1>11, <1>12, <1>13, <1>14, <1>15

LEMMA EndStreamKeeps ==
  ASSUME BusInv, NEW s \in Subs, EndStream(s)
  PROVE  BusInv'
<1> USE DEF BusInv
<1>1. /\ UNCHANGED <<employees, clock, upc, job, left>>
      /\ UNCHANGED <<subscribers, closed, filter, spc, hand>>
      /\ UNCHANGED <<shown, due, seen, missed, ch, out, cancelled>>
      /\ cpc[s] = "idle"
      /\ cpc' = [cpc EXCEPT ![s] = "ended"]
  BY DEF EndStream, updateVars, forwardVars, historyVars
<1>2. \A x \in Subs : cpc'[x] = "marshalling" <=> cpc[x] = "marshalling"
  BY <1>1 DEF TypeOK
<1>3. \A x \in Subs : /\ Marshalled(x)' = Marshalled(x) /\ Queued(x)' = Queued(x)
                      /\ Held(x)' = Held(x) /\ Waiting(x)' = Waiting(x)
                      /\ Carried(x)' = Carried(x)
  BY <1>1, <1>2 DEF Marshalled, Queued, Held, Waiting, Carried
<1>4. TypeOK'
  BY <1>1 DEF TypeOK
<1>5. JobOK' /\ VisitsOK' /\ LifeOK'
  BY <1>1, <1>2 DEF JobOK, VisitsOK, InProgress, LifeOK
<1>6. OrderOK' /\ FilterOK'
  BY <1>1, <1>3 DEF OrderOK, Before, FilterOK, Matches
<1>7. FieldsOK'
  BY <1>1, <1>2 DEF FieldsOK, AtLeast, Matches
<1>8. SeenOK'
  BY <1>1, <1>2, <1>3 DEF SeenOK, AtLeast
<1> QED
  BY <1>4, <1>5, <1>6, <1>7, <1>8

LEMMA StutterKeeps ==
  ASSUME BusInv, UNCHANGED vars
  PROVE  BusInv'
<1> USE DEF BusInv
<1>1. /\ UNCHANGED <<employees, clock, upc, job, left>>
      /\ UNCHANGED <<subscribers, closed, filter, spc, hand>>
      /\ UNCHANGED <<cpc, shown, due, seen, missed, ch, out, cancelled>>
  BY DEF vars, updateVars, forwardVars, consumerVars, historyVars
<1>2. TypeOK'
  BY <1>1 DEF TypeOK
<1>3. JobOK' /\ VisitsOK' /\ LifeOK'
  BY <1>1 DEF JobOK, VisitsOK, InProgress, LifeOK
<1>4. OrderOK' /\ FilterOK'
  BY <1>1, PlacesFrame DEF OrderOK, Before, FilterOK, Matches
<1>5. FieldsOK' /\ SeenOK'
  BY <1>1, PlacesFrame DEF FieldsOK, SeenOK, AtLeast, Matches
<1> QED
  BY <1>2, <1>3, <1>4, <1>5

LEMMA NextKeeps == BusInv /\ [Next]_vars => BusInv'
<1> SUFFICES ASSUME BusInv, [Next]_vars PROVE BusInv'
  OBVIOUS
<1>1. ASSUME NEW u \in Updates, NEW e \in Employees,
             NEW n \in BOOLEAN, NEW sal \in BOOLEAN, UpdateName(u, e, n, sal)
      PROVE  BusInv'
  BY <1>1, UpdateNameKeeps
<1>2. ASSUME NEW u \in Updates, RejectUpdate(u) PROVE BusInv'
  BY <1>2, RejectUpdateKeeps
<1>3. ASSUME NEW u \in Updates, ContinueUpdate(u) PROVE BusInv'
  BY <1>3, UpdateSalaryKeeps, FinishUpdateKeeps, SendToKeeps DEF ContinueUpdate
<1>4. ASSUME NEW s \in Subs, NEW f \in Employees \cup {None}, Subscribe(s, f)
      PROVE  BusInv'
  BY <1>4, SubscribeKeeps
<1>5. ASSUME NEW s \in Subs, Cancel(s) PROVE BusInv'
  BY <1>5, CancelKeeps
<1>6. ASSUME NEW s \in Subs, RunForwarder(s) PROVE BusInv'
  BY <1>6, TakeEventKeeps, ForwardKeeps, NoticeCancelKeeps, UnsubscribeKeeps,
     CloseOutKeeps DEF RunForwarder
<1>7. ASSUME NEW s \in Subs, Consume(s) PROVE BusInv'
  BY <1>7, ReceiveKeeps, MarshalKeeps, EndStreamKeeps DEF Consume
<1>8. CASE Quiet \/ UNCHANGED vars
  BY <1>8, StutterKeeps DEF Quiet
<1> QED
  BY <1>1, <1>2, <1>3, <1>4, <1>5, <1>6, <1>7, <1>8 DEF Next

\* BusInv holds in every reachable state.
THEOREM BusInvAlways == Spec => []BusInv
<1> QED
  BY InitBusInv, NextKeeps, PTL DEF Spec
-----------------------------------------------------------------------------
(* What follows from BusInv *)

\* The variables of the bus keep their types.
THEOREM BusTypeCorrect == Spec => []TypeOK
<1>1. BusInv => TypeOK
  BY DEF BusInv
<1> QED
  BY <1>1, BusInvAlways, PTL

\* Publish never sends on a channel Unsubscribe has closed.
THEOREM NeverSendsOnClosedAlways == Spec => []NeverSendsOnClosed
<1>1. BusInv => NeverSendsOnClosed
  <2> SUFFICES ASSUME BusInv, NEW u \in Updates, NEW s \in left[u]
               PROVE  s \notin closed
    BY DEF NeverSendsOnClosed
  <2>1. s \in Subs /\ s \in subscribers
    BY DEF BusInv, VisitsOK, TypeOK
  <2> QED
    BY <2>1 DEF BusInv, LifeOK
<1> QED
  BY <1>1, BusInvAlways, PTL

\* A sequence of events in the order they were published.
Ascending(q) == \A i, j \in DOMAIN q : i < j => q[i].seq < q[j].seq

\* Joining two such sequences, the older first, gives another.
LEMMA ConcatAscending ==
  ASSUME NEW a \in Seq(Event), NEW b \in Seq(Event),
         Ascending(a), Ascending(b), Before(Elems(a), Elems(b))
  PROVE  /\ a \o b \in Seq(Event)
         /\ Ascending(a \o b)
         /\ Elems(a \o b) = Elems(a) \cup Elems(b)
<1> DEFINE c == a \o b
<1>1. /\ Len(a) \in Nat /\ Len(b) \in Nat /\ c \in Seq(Event)
      /\ Len(c) = Len(a) + Len(b) /\ DOMAIN c = 1 .. Len(a) + Len(b)
      /\ DOMAIN a = 1 .. Len(a) /\ DOMAIN b = 1 .. Len(b)
  OBVIOUS
<1>2. \A i \in DOMAIN c :
        IF i <= Len(a) THEN i \in DOMAIN a /\ c[i] = a[i]
        ELSE i - Len(a) \in DOMAIN b /\ c[i] = b[i - Len(a)]
  BY <1>1
<1>3. \A i \in DOMAIN a : i \in DOMAIN c /\ c[i] = a[i]
  BY <1>1
<1>4. \A i \in DOMAIN b : i + Len(a) \in DOMAIN c /\ c[i + Len(a)] = b[i]
  BY <1>1
<1> HIDE DEF c
<1>5. Elems(c) = Elems(a) \cup Elems(b)
  BY <1>2, <1>3, <1>4 DEF Elems
<1>6. ASSUME NEW i \in DOMAIN c, NEW j \in DOMAIN c, i < j
      PROVE  c[i].seq < c[j].seq
  <2>1. i \in Nat /\ j \in Nat
    BY <1>1
  <2>2. CASE j <= Len(a)
    BY <1>1, <1>2, <1>6, <2>1, <2>2 DEF Ascending
  <2>3. CASE i <= Len(a) /\ ~(j <= Len(a))
    <3>1. c[i] \in Elems(a) /\ c[j] \in Elems(b)
      BY <1>2, <2>3 DEF Elems
    <3> QED
      BY <3>1 DEF Before
  <2>4. CASE ~(i <= Len(a))
    <3>1. i - Len(a) < j - Len(a) /\ ~(j <= Len(a))
      BY <1>1, <1>6, <2>1, <2>4
    <3> QED
      BY <1>2, <2>4, <3>1 DEF Ascending
  <2> QED
    BY <2>2, <2>3, <2>4
<1> QED
  BY <1>1, <1>5, <1>6 DEF c, Ascending

\* The events under way are those in the four places, in this order.
LEMMA UnderWayAscending ==
  ASSUME BusInv, NEW s \in Subs
  PROVE  /\ UnderWay(s) \in Seq(Event)
         /\ Ascending(UnderWay(s))
         /\ Elems(UnderWay(s)) = Carried(s)
         /\ cpc[s] = "marshalling" =>
              /\ 1 \in DOMAIN UnderWay(s)
              /\ UnderWay(s)[1] = shown[s].event
<1> USE DEF BusInv
<1> DEFINE m == IF cpc[s] = "marshalling" THEN <<shown[s].event>> ELSE <<>>
           h == IF hand[s] = None THEN <<>> ELSE <<hand[s]>>
<1>1. /\ m \in Seq(Event) /\ Elems(m) = Marshalled(s) /\ Len(m) <= 1
      /\ cpc[s] = "marshalling" => m[1] = shown[s].event /\ Len(m) = 1
  <2>1. CASE cpc[s] = "marshalling"
    <3>1. shown[s].event \in Event
      BY <2>1 DEF LifeOK
    <3> QED
      BY <2>1, <3>1, OneSent DEF Marshalled
  <2>2. CASE cpc[s] # "marshalling"
    BY <2>2, NoneSent DEF Marshalled
  <2> QED
    BY <2>1, <2>2
<1>2. h \in Seq(Event) /\ Elems(h) = Held(s) /\ Len(h) <= 1
  <2>1. CASE hand[s] # None
    <3>1. hand[s] \in Event
      BY <2>1 DEF TypeOK
    <3> QED
      BY <2>1, <3>1, OneSent DEF Held
  <2>2. CASE hand[s] = None
    BY <2>2, NoneSent DEF Held
  <2> QED
    BY <2>1, <2>2
<1>3. out[s] \in Seq(Event) /\ Elems(out[s]) = Queued(s) /\ Len(out[s]) <= 1
  BY DEF TypeOK, LifeOK, Queued
<1>4. ch[s] \in Seq(Event) /\ Elems(ch[s]) = Waiting(s) /\ Len(ch[s]) <= 1
  BY DEF TypeOK, LifeOK, Waiting
<1>5. UnderWay(s) = ((m \o out[s]) \o h) \o ch[s]
  BY DEF UnderWay
<1> HIDE DEF m, h
<1>6. \A q \in Seq(Event) : Len(q) <= 1 => Ascending(q)
  BY DEF Ascending
<1>7. /\ Before(Marshalled(s), Queued(s))
      /\ Before(Marshalled(s) \cup Queued(s), Held(s))
      /\ Before(Marshalled(s) \cup Queued(s) \cup Held(s), Waiting(s))
  BY DEF OrderOK, Before
<1> HIDE DEF BusInv
<1>8. /\ m \o out[s] \in Seq(Event) /\ Ascending(m \o out[s])
      /\ Elems(m \o out[s]) = Marshalled(s) \cup Queued(s)
  <2>1. /\ m \in Seq(Event) /\ Ascending(m) /\ Before(Elems(m), Elems(out[s]))
        /\ out[s] \in Seq(Event) /\ Ascending(out[s])
        /\ Elems(m) \cup Elems(out[s]) = Marshalled(s) \cup Queued(s)
    BY <1>1, <1>3, <1>6, <1>7
  <2> QED
    BY <2>1, ConcatAscending
<1>9. /\ (m \o out[s]) \o h \in Seq(Event) /\ Ascending((m \o out[s]) \o h)
      /\ Elems((m \o out[s]) \o h) = Marshalled(s) \cup Queued(s) \cup Held(s)
  <2> DEFINE q == m \o out[s]
  <2>1. /\ q \in Seq(Event) /\ Ascending(q) /\ Before(Elems(q), Elems(h))
        /\ h \in Seq(Event) /\ Ascending(h)
        /\ Elems(q) \cup Elems(h) = Marshalled(s) \cup Queued(s) \cup Held(s)
    BY <1>2, <1>6, <1>7, <1>8
  <2> HIDE DEF q
  <2>2. q \o h \in Seq(Event) /\ Ascending(q \o h)
        /\ Elems(q \o h) = Elems(q) \cup Elems(h)
    BY <2>1, ConcatAscending
  <2> QED
    BY <2>1, <2>2 DEF q
<1>10. /\ UnderWay(s) \in Seq(Event) /\ Ascending(UnderWay(s))
       /\ Elems(UnderWay(s)) = Carried(s)
  <2> DEFINE q == (m \o out[s]) \o h
  <2>1. /\ q \in Seq(Event) /\ Ascending(q) /\ Before(Elems(q), Elems(ch[s]))
        /\ ch[s] \in Seq(Event) /\ Ascending(ch[s])
        /\ Elems(q) \cup Elems(ch[s]) = Carried(s)
    BY <1>4, <1>6, <1>7, <1>9 DEF Carried
  <2> HIDE DEF q
  <2>2. q \o ch[s] \in Seq(Event) /\ Ascending(q \o ch[s])
        /\ Elems(q \o ch[s]) = Elems(q) \cup Elems(ch[s])
    BY <2>1, ConcatAscending
  <2> QED
    BY <1>5, <2>1, <2>2 DEF q
<1>11. ASSUME cpc[s] = "marshalling"
       PROVE  1 \in DOMAIN UnderWay(s) /\ UnderWay(s)[1] = shown[s].event
  <2>1. \A a \in Seq(Event), b \in Seq(Event) :
          1 \in DOMAIN a => 1 \in DOMAIN (a \o b) /\ (a \o b)[1] = a[1]
    OBVIOUS
  <2>2. 1 \in DOMAIN m /\ m[1] = shown[s].event
    BY <1>1, <1>11
  <2>3. 1 \in DOMAIN (m \o out[s]) /\ (m \o out[s])[1] = shown[s].event
    BY <1>1, <1>3, <2>1, <2>2
  <2>4. 1 \in DOMAIN ((m \o out[s]) \o h) /\ ((m \o out[s]) \o h)[1] = shown[s].event
    BY <1>2, <1>8, <2>1, <2>3
  <2> QED
    BY <1>4, <1>5, <1>9, <2>1, <2>4
<1> QED
  BY <1>10, <1>11

\* A subscription gets events in the order they were published, each at
\* most once, and only those its filter lets through.
THEOREM InOrderOnceMatchingAlways == Spec => []InOrderOnceMatching
<1>1. BusInv => InOrderOnceMatching
  <2> SUFFICES ASSUME BusInv, NEW s \in Subs
               PROVE  /\ Ascending(UnderWay(s))
                      /\ \A i \in DOMAIN out[s] : Matches(s, out[s][i].emp)
    BY DEF InOrderOnceMatching, Ascending
  <2>1. \A i \in DOMAIN out[s] : out[s][i] \in Queued(s)
    BY DEF Queued, Elems
  <2> QED
    BY <2>1, UnderWayAscending DEF BusInv, FilterOK
<1> QED
  BY <1>1, BusInvAlways, PTL

\* What was published about an employee was shown to an open subscription,
\* is on its way to it, or was dropped in favour of another's event.
THEOREM PublishedIsSeenOrUnderWayAlways == Spec => []PublishedIsSeenOrUnderWay
<1>1. BusInv => PublishedIsSeenOrUnderWay
  <2> SUFFICES ASSUME BusInv, NEW s \in subscribers \ cancelled, NEW e \in Employees
               PROVE  \/ AtLeast(seen[s][e], due[s][e])
                      \/ \E i \in DOMAIN UnderWay(s) :
                           /\ UnderWay(s)[i].emp = e
                           /\ (i = 1 /\ cpc[s] = "marshalling") =>
                                shown[s].name >= due[s][e].name
                      \/ e \in missed[s]
    BY DEF PublishedIsSeenOrUnderWay
  <2>1. s \in Subs
    BY DEF BusInv, TypeOK
  <2>2. \/ AtLeast(seen[s][e], due[s][e])
        \/ \E m \in Queued(s) \cup Held(s) \cup Waiting(s) : m.emp = e
        \/ /\ cpc[s] = "marshalling" /\ shown[s].event.emp = e
           /\ shown[s].name >= due[s][e].name
        \/ e \in missed[s]
    BY <2>1 DEF BusInv, SeenOK
  <2>3. ASSUME NEW m \in Queued(s) \cup Held(s) \cup Waiting(s), m.emp = e
        PROVE  \E i \in DOMAIN UnderWay(s) :
                 UnderWay(s)[i].emp = e /\ ~(i = 1 /\ cpc[s] = "marshalling")
    <3>1. m \in Elems(UnderWay(s))
      BY <2>1, <2>3, UnderWayAscending DEF Carried
    <3>2. PICK i \in DOMAIN UnderWay(s) : UnderWay(s)[i] = m
      BY <3>1 DEF Elems
    <3>3. cpc[s] = "marshalling" =>
            /\ shown[s].event \in Event /\ m \in Event
            /\ shown[s].event.seq < m.seq
      <4>1. cpc[s] = "marshalling" => shown[s].event \in Marshalled(s)
        BY DEF Marshalled
      <4> QED
        BY <2>1, <2>3, <4>1, CarriedTyped DEF BusInv, OrderOK, Before, Carried
    <3>4. ~(i = 1 /\ cpc[s] = "marshalling")
      BY <2>1, <3>2, <3>3, UnderWayAscending DEF Event
    <3> QED
      BY <2>3, <3>2, <3>4
  <2>4. ASSUME cpc[s] = "marshalling", shown[s].event.emp = e,
               shown[s].name >= due[s][e].name
        PROVE  \E i \in DOMAIN UnderWay(s) :
                 /\ UnderWay(s)[i].emp = e
                 /\ (i = 1 /\ cpc[s] = "marshalling") =>
                      shown[s].name >= due[s][e].name
    BY <2>1, <2>4, UnderWayAscending
  <2> QED
    BY <2>2, <2>3, <2>4
<1> QED
  BY <1>1, BusInvAlways, PTL
=============================================================================
