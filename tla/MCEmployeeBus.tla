---------------------------- MODULE MCEmployeeBus ----------------------------
(* EmployeeBus for TLC. *)
EXTENDS EmployeeBus, TLC

BusSymmetry ==
  Permutations(Employees) \cup Permutations(Updates) \cup Permutations(Subs)
=============================================================================
