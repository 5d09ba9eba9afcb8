------------------------------- MODULE MCService -------------------------------
(* The parts of the service on small instances, one at a time.                 *)
EXTENDS Service

CONSTANTS x, o, v   \* an execute, an observeCommand and a recoverPending

MCKind == [c \in {x, o, v} |-> CASE c = x -> "execute" [] c = o -> "observe" [] OTHER -> "recover"]

\* Three keys in two slots; batches overlap in key 2 and in key 3's checkpoint.
MCSlotOfKey == [k \in 1..3 |-> IF k = 3 THEN "t" ELSE "s"]
MCBatches == {[at |-> 1, keys |-> {1}], [at |-> 2, keys |-> {1, 2}], [at |-> 3, keys |-> {2, 3}]}
================================================================================
