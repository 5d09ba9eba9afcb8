--------------------------- MODULE MCCommandDelivery ---------------------------
(* Transaction ids differ only by name. *)
EXTENDS CommandDelivery, TLC

Symmetry == Permutations(TxIds)
====
