--------------------------- MODULE EmployeeQueries ---------------------------
(***************************************************************************)
(* graphql-server's queries, its mutation and its entity resolver          *)
(* (schema.resolvers.go, entity.resolvers.go) under its generated code.    *)
(*                                                                         *)
(* A resolver looks an employee up under r.mu and returns the pointer in   *)
(* the map.  The marshal functions read it after the lock was released,    *)
(* while updateEmployee may be writing.  An employee is its three words    *)
(* that change, each with the number of times it was written.              *)
(***************************************************************************)
EXTENDS Federation

CONSTANT Employees   \* ids in NewResolver

VARIABLE employees   \* Resolver.employees

EmployeesInit == employees = [e \in Employees |-> [w \in Words |-> 0]]

\* updateEmployee holds r.mu; the readers hold it for a single step.
Locked == \E r \in Requests : \E i \in Fields(r) : slot[r][i].st = "writing"

\* A name's words are read or written in any order, and before the salary.
NextWords(words) ==
  IF words \cap {"nameData", "nameLen"} # {} THEN words \ {"salary"} ELSE words

\* A faulty variant: queries are answered from a copy made at the start.
ShowCopy(r, i, place, employee, word) ==
  Update(r, i, Settled([slot[r][i] EXCEPT !.shown = @ \cup
    {[at |-> place, of |-> employee, word |-> word,
      version |-> IF IsMutation(r) THEN employees[employee][word] ELSE 0]}]))

\* A faulty variant: updateEmployee only takes r.mu for reading.
Free == TRUE

-----------------------------------------------------------------------------
(* Resolvers *)

Unlocked == ~Locked

Find(id) == IF id \in Employees THEN Live(id) ELSE Nil

EmployeeByID(r, i) ==
  /\ Starts(r, i, "employeeByID")
  /\ ~Locked
  /\ Update(r, i, Returned(slot[r][i], Find(Call(r, i).id)))

\* Go visits a map in any order.
Orders == {s \in [1..Cardinality(Employees) -> Employees] :
             \A e \in Employees : \E k \in DOMAIN s : s[k] = e}

ListEmployees(r, i) ==
  /\ Starts(r, i, "employees")
  /\ ~Locked
  /\ \E order \in Orders :
       Update(r, i, Returned(slot[r][i], List([k \in DOMAIN order |-> Live(order[k])])))

\* FindEmployeeByID
ResolveEmployeeEntity(r, i) ==
  \E task \in slot[r][i].left :
    LET type == task[1]  k == task[2]  rep == Rep(r, i, type, k)
    IN /\ Resolving(r, i, type, k)
       /\ Resolvable(rep) => ~Locked
       /\ EntityReturned(r, i, type, k,
                         IF Resolvable(rep) THEN Find(rep.id) ELSE Failed)

\* The words a call of updateEmployee has arguments for.
Given(call) ==
  (IF "name" \in call.sets THEN {"nameData", "nameLen"} ELSE {})
    \cup (IF "salary" \in call.sets THEN {"salary"} ELSE {})

StartUpdate(r, i) ==
  /\ Starts(r, i, "updateEmployee")
  /\ Unlocked
  /\ IF Call(r, i).id \in Employees
     THEN Update(r, i, [slot[r][i] EXCEPT !.st = "writing"])
     ELSE Update(r, i, Returned(slot[r][i], Failed))

Unwritten(r, i) == Given(Call(r, i)) \ {x.word : x \in slot[r][i].wrote}

WriteWord(r, i) ==
  LET e == Call(r, i).id
  IN /\ slot[r][i].st = "writing"
     /\ \E word \in NextWords(Unwritten(r, i)) :
          /\ employees' = [employees EXCEPT ![e][word] = @ + 1]
          /\ Update(r, i, [slot[r][i] EXCEPT !.wrote = @ \cup
               {[of |-> e, word |-> word, version |-> employees[e][word] + 1]}])

\* Publish, which hands the pointer to the event bus (see EmployeeBus), and
\* the deferred Unlock.
FinishUpdate(r, i) ==
  /\ slot[r][i].st = "writing"
  /\ Unwritten(r, i) = {}
  /\ Update(r, i, Returned(slot[r][i], Live(Call(r, i).id)))

-----------------------------------------------------------------------------
(* _Employee_name and _Employee_salary, on the pointer *)

Show(r, i, place, employee, word) ==
  Update(r, i, Settled([slot[r][i] EXCEPT !.shown = @ \cup
    {[at |-> place, of |-> employee, word |-> word,
      version |-> employees[employee][word]]}]))

Pointer(value, place) ==
  IF value.kind = "live" THEN value.key ELSE value.items[place].key

\* The items of a list are marshalled side by side.
ReadWord(r, i) ==
  LET s == slot[r][i]
  IN /\ s.st = "marshalling"
     /\ \E place \in LivePlaces(s.value) :
          \E word \in NextWords(Unread(s, place)) :
            Show(r, i, place, Pointer(s.value, place), word)

EmployeeStep(r, i) ==
  /\ server = "employee"
  /\ \/ WriteWord(r, i)
     \/ /\ \/ EmployeeByID(r, i)
           \/ ListEmployees(r, i)
           \/ ResolveEmployeeEntity(r, i)
           \/ StartUpdate(r, i)
           \/ FinishUpdate(r, i)
           \/ ReadWord(r, i)
        /\ UNCHANGED employees
=============================================================================
