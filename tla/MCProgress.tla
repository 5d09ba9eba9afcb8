------------------------------ MODULE MCProgress ------------------------------
(* Where something must come to an end: a command, a delivery and the          *)
(* shutdown.  They share no state here, so a behaviour plays one of them, the  *)
(* others stay in their initial state.                                         *)
EXTENDS Integers, Sequences, FiniteSets

CONSTANT None

VARIABLES
    part,
    chain, flight, replays, outbox, tracking, projected, handles, queue, worker, reader, answer,
    restarts, abandons,
    jobs, inbox, received, binding, courier, calls, requests, replies, retries, crashes,
    stage, errors, open, socket, http, faults

command == <<chain, flight, replays, outbox, tracking, projected, handles, queue, worker, reader,
             answer, restarts, abandons>>
delivery == <<jobs, inbox, received, binding, courier, calls, requests, replies, retries, crashes>>
shutdown == <<stage, errors, open, socket, http, faults>>
vars == <<part, command, delivery, shutdown>>

Command == INSTANCE CommandDelivery WITH
    TxIds <- {"t1"}, MaxCrashes <- 1, MaxAbandons <- 1, MaxListed <- 128,
    crashes <- restarts

\* One worker at a time, as in a deployment with one process.
Delivery == INSTANCE ReviewDelivery WITH
    Deliveries <- {"d1"}, Workers <- {"w1"}, Bindings <- {"b1"},
    MaxAttempts <- 2, MaxRetries <- 1, MaxCrashes <- 1,
    worker <- courier

Shutdown == INSTANCE Shutdown WITH Requests <- {"r1", "r2"}, MaxFaults <- 2

Init ==
    /\ part \in {"command", "delivery", "shutdown"}
    /\ Command!Init /\ Delivery!Init /\ Shutdown!Init

Next ==
    \/ part = "command" /\ Command!Next /\ UNCHANGED <<part, delivery, shutdown>>
    \/ part = "delivery" /\ Delivery!Next /\ UNCHANGED <<part, command, shutdown>>
    \/ part = "shutdown" /\ Shutdown!Next /\ UNCHANGED <<part, command, delivery>>

\* The fairness of the part that is played.  In its initial state, where a part that
\* is not played stays, none of the others' fair actions is enabled; of those of
\* CommandDelivery the client's question is.
Fairness ==
    /\ WF_command(Command!Execution) /\ WF_command(Command!Recovery)
    /\ WF_command(Command!QueryVerdict) /\ WF_command(Command!QueryFinal)
    /\ SF_command(Command!Preflight) /\ SF_command(Command!QueryObserve)
    /\ SF_command(Command!StartRecovery)
    /\ SF_command(Command!Recovered /\ reader' = Command!NoQuery)
    /\ SF_command(part = "command" /\ Command!QueryBegin("get") /\ Command!CatchUp)
    /\ Delivery!Fairness /\ Shutdown!Fairness

Spec == Init /\ [][Next]_vars /\ Fairness

\* A recorded command is in the end reported as committed (service.ts getCommand).
CommittedIsReported == Command!CommittedIsReported

\* Every delivery comes to an end (runOnce, claim).
EveryJobEnds == Delivery!EveryJobEnds

\* No request is sent once the worker gave its call up (deliver).
NoRequestAfterDeadline == Delivery!NoRequestAfterDeadline

\* Every shutdown ends, and reports what happened (closeApp, waitForServerClose).
ShutdownTold == Shutdown!ShutdownTold
===============================================================================
