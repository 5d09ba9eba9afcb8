------------------------------ MODULE MCOutboxes ------------------------------
(* One job, two processes on the database and a destination that may change,   *)
(* with two attempts before and after one retry; two editors, one reminder and *)
(* its overdue successor, and two leases.                                      *)
EXTENDS Outboxes, TLC

\* Processes, destinations and operation ids differ only by name.
Symmetry == Permutations(Workers) \union Permutations(Bindings) \union Permutations(Edits)
===============================================================================
