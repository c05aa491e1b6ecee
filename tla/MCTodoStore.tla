----------------------------- MODULE MCTodoStore -----------------------------
(* TodoStore for TLC: two employees who own one seeded todo each. *)
EXTENDS TodoTurns, TLC

CONSTANTS e1, e2

MCSeedOwner == <<e1, e2>>

RequestSymmetry == Permutations(Requests)
=============================================================================
