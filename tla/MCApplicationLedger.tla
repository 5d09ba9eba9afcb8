-------------------------- MODULE MCApplicationLedger --------------------------
(* One command, beside the callers of refresh that the run names. *)
EXTENDS ApplicationLedger

CONSTANTS x, o   \* an execute and an observeCommand

KindOf == [c \in {x, o} |-> IF c = x THEN "execute" ELSE "observe"]

\* Only one of the commands is made; the others count as over.
OneCall ==
    /\ Fresh
    /\ \E c \in Commands : calls =
         [b \in Commands |->
            [pc |-> IF b = c THEN "idle" ELSE "done", refresh |-> None, answer |-> None]]

OneCallSpec == OneCall /\ [][Next]_vars /\ Fairness
================================================================================
