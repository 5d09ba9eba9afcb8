------------------------------- MODULE Shutdown -------------------------------
(***************************************************************************)
(* The end of an application: close() of apps/api/server.ts, which takes   *)
(* the parts down one stage after the other, and closeHttpServer of        *)
(* packages/http/graceful-close.ts, which lets requests finish until a     *)
(* deadline, then releases their connections by force, and gives up on a   *)
(* close callback that does not come.  createApp, when it fails half way,  *)
(* takes down what it had opened.                                          *)
(*                                                                         *)
(* Node's server, its sockets and the resources of other modules are       *)
(* external: a socket may escape the server's list, a callback may be lost *)
(* or carry an error, any step may throw.  Timers fire some time after     *)
(* they are due; the two of the wait may fire in either order.             *)
(***************************************************************************)
EXTENDS Integers, Sequences, FiniteSets, SequencesExt

CONSTANTS
    Requests,   \* connections, each with a request in flight or idle
    MaxFaults,  \* bound: throwing steps, lost sockets, lost or failing callbacks
    None

VARIABLES
    stage,     \* -1: starting; 0: serving; n: the n-th stage of close(); beyond: done
    errors,    \* stages that failed, in order
    open,      \* resources that are open
    socket,    \* connection -> "active", "idle", "untracked", "cut" or "gone"
    http,      \* the wait for the server to close
    faults

vars == <<stage, errors, open, socket, http, faults>>

Resources == {"vectorIndex", "ledger", "vault", "authentication"}

\* The stages of close(), in the order of the code.
Stages == <<"readiness", "review-delivery", "review-reminders", "slack-notifications",
            "confluence-sync", "embeddings", "http",
            "vectorIndex", "ledger", "vault", "authentication">>

Order == Stages
At(name) == stage \in 1..Len(Order) /\ Order[stage] = name
Done == stage > Len(Order)

\* Connections a client may still get an answer on.
Connected == {r \in Requests : socket[r] \in {"active", "idle", "untracked"}}

Trouble == faults < MaxFaults /\ faults' = faults + 1
Calm == UNCHANGED faults

------------------------------------------------------------------------------
(* Starting: createApp is handed the vector index and the authentication,  *)
(* opens the ledger and the vault, and initialises the service.            *)

OpenNext ==
    /\ stage = -1
    /\ IF "ledger" \notin open THEN open' = open \union {"ledger"} /\ UNCHANGED stage
       ELSE IF "vault" \notin open THEN open' = open \union {"vault"} /\ UNCHANGED stage
       ELSE stage' = 0 /\ UNCHANGED open
    /\ Calm /\ UNCHANGED <<errors, socket, http>>

\* The nested finally blocks: every resource is closed whatever another throws.
BootFails ==
    /\ stage = -1 /\ Trouble
    /\ stage' = Len(Order) + 1 /\ open' = {}
    /\ UNCHANGED <<errors, socket, http>>

------------------------------------------------------------------------------
(* Clients. *)

\* While the server listens, the first stages included; on a kept connection
\* also while it is closing.
Request(r) ==
    /\ IF stage \in 0..Len(Order) /\ ~http.asked THEN socket[r] \in {"gone", "idle"} ELSE socket[r] = "idle"
    /\ socket' = [socket EXCEPT ![r] = "active"] /\ Calm
    /\ UNCHANGED <<stage, errors, open, http>>

\* The answer is sent: the connection is kept, or closed by the client.
Answer(r) ==
    /\ socket[r] \in {"active", "untracked"}
    /\ \E after \in {"idle", "gone"} :
         /\ socket[r] = "untracked" => after = "gone"
         /\ socket' = [socket EXCEPT ![r] = after]
    /\ Calm /\ UNCHANGED <<stage, errors, open, http>>

\* The server loses track of a socket: it can neither close nor destroy it.
Untracked(r) ==
    /\ socket[r] = "active" /\ Trouble
    /\ socket' = [socket EXCEPT ![r] = "untracked"]
    /\ UNCHANGED <<stage, errors, open, http>>

------------------------------------------------------------------------------
(* waitForServerClose. *)

\* finish: the first to settle wins and clears both timers.
Finish(h, outcome, told) ==
    IF h.outcome # None THEN h
    ELSE [h EXCEPT !.outcome = outcome, !.force = FALSE, !.abandon = FALSE,
                   !.told = h.told + (IF told THEN 1 ELSE 0)]

\* Fault: the forced release takes the place of the last timer too.
ReleaseSettlesAll(h) == [h EXCEPT !.released = h.released + 1, !.force = FALSE, !.abandon = FALSE]

\* closeAllConnections, at the deadline or as the fallback of the last timer.
Release(h) == [h EXCEPT !.released = h.released + 1, !.force = FALSE]
Cut == [r \in Requests |-> IF socket[r] \in {"active", "idle"} THEN "cut" ELSE socket[r]]

\* The http stage begins: both timers are armed, close is asked for and idle
\* connections are closed; close itself may throw.
CloseServer ==
    /\ At("http") /\ http.outcome = None /\ ~http.asked
    /\ \/ /\ http' = [http EXCEPT !.asked = TRUE, !.force = TRUE, !.abandon = TRUE]
          /\ socket' = [r \in Requests |-> IF socket[r] = "idle" THEN "gone" ELSE socket[r]]
          /\ Calm
       \/ Trouble /\ http' = Finish([http EXCEPT !.asked = TRUE], "rejected", FALSE)
                  /\ UNCHANGED socket
    /\ UNCHANGED <<stage, errors, open>>

Waiting == http.asked /\ http.outcome = None

\* The sweep, every SWEEP_INTERVAL_MS until the wait is over.
Sweep ==
    /\ Waiting /\ \E r \in Requests : socket[r] = "idle"
    /\ socket' = [r \in Requests |-> IF socket[r] = "idle" THEN "gone" ELSE socket[r]]
    /\ Calm /\ UNCHANGED <<stage, errors, open, http>>

ForceTimer ==
    /\ http.force
    /\ \/ http' = Release(http) /\ socket' = Cut /\ Calm
       \/ Trouble /\ http' = Finish([http EXCEPT !.released = @ + 1], "rejected", FALSE)
                  /\ UNCHANGED socket
    /\ UNCHANGED <<stage, errors, open>>

\* The last timer: releases if the other had not fired, and looks at how many
\* connections are left before it settles (AbandonEnds).
AbandonTimer ==
    /\ http.abandon
    /\ LET h == [http EXCEPT !.abandon = FALSE, !.force = FALSE, !.abandoning = TRUE] IN
       IF http.released > 0 THEN http' = h /\ UNCHANGED socket /\ Calm
       ELSE \/ http' = Release(h) /\ socket' = Cut /\ Calm
            \/ Trouble /\ http' = Finish([h EXCEPT !.released = 1], "rejected", FALSE)
                       /\ UNCHANGED socket
    /\ UNCHANGED <<stage, errors, open>>

\* The callback of server.close: at once when nothing has to be counted.  One
\* that comes after the last timer fired no longer decides.
Callback(error) ==
    /\ http.asked /\ http.callback = "pending"
    /\ IF error THEN Trouble ELSE Connected = {} /\ Calm
    /\ LET h == [http EXCEPT !.callback = IF error THEN "failed" ELSE "closed"] IN
       http' = IF h.outcome # None THEN h
               ELSE IF h.abandoning THEN [h EXCEPT !.late = ~error]
               ELSE IF h.released > 0 THEN [h EXCEPT !.arrived = TRUE, !.counting = TRUE]
               ELSE Finish([h EXCEPT !.arrived = TRUE],
                           IF error THEN "rejected" ELSE "closed", FALSE)
    /\ UNCHANGED <<stage, errors, open, socket>>

LoseCallback ==
    /\ http.asked /\ http.callback = "pending" /\ Trouble
    /\ http' = [http EXCEPT !.callback = "lost"]
    /\ UNCHANGED <<stage, errors, open, socket>>

\* settleClose, after the connections were counted or the count's time was up.
SettleClose(h) ==
    Finish(h, IF h.callback = "failed" THEN "rejected" ELSE "forced", TRUE)

CountEnds ==
    /\ http.counting
    /\ http' = SettleClose([http EXCEPT !.counting = FALSE])
    /\ Calm /\ UNCHANGED <<stage, errors, open, socket>>

\* An error goes before everything, a callback that came in time before the
\* timer that overtook its settlement.
Verdict(h) ==
    IF h.callback = "failed" THEN "rejected"
    ELSE IF h.arrived THEN "forced" ELSE "abandoned"

AbandonEnds ==
    /\ http.abandoning /\ http.outcome = None
    /\ http' = Finish(http, Verdict(http), TRUE)
    /\ Calm /\ UNCHANGED <<stage, errors, open, socket>>

------------------------------------------------------------------------------
(* close(): the stages, one by one. *)

BeginClose ==
    /\ stage = 0 /\ stage' = 1 /\ Calm
    /\ UNCHANGED <<errors, open, socket, http>>

\* attempt: the next stage follows whether this one returned or threw.
Passed(failed) ==
    /\ stage' = stage + 1
    /\ errors' = IF failed THEN Append(errors, Order[stage]) ELSE errors

HttpStage ==
    /\ At("http") /\ http.outcome # None
    /\ Passed(http.outcome = "rejected") /\ Calm
    /\ UNCHANGED <<open, socket, http>>

\* A part that fails to close is not in use afterwards either.
OtherStage ==
    /\ stage \in 1..Len(Order) /\ ~At("http")
    /\ \E failed \in BOOLEAN :
         /\ IF failed THEN Trouble ELSE Calm
         /\ Passed(failed)
    /\ open' = open \ {Order[stage]}
    /\ UNCHANGED <<socket, http>>

Init ==
    /\ stage = -1 /\ errors = <<>> /\ open = {"vectorIndex", "authentication"}
    /\ socket = [r \in Requests |-> "gone"]
    /\ http = [asked |-> FALSE, outcome |-> None, force |-> FALSE, abandon |-> FALSE,
               released |-> 0, callback |-> "pending", arrived |-> FALSE, late |-> FALSE,
               counting |-> FALSE, abandoning |-> FALSE, told |-> 0]
    /\ faults = 0

Next ==
    \/ OpenNext \/ BootFails \/ BeginClose \/ HttpStage \/ OtherStage
    \/ CloseServer \/ Sweep \/ ForceTimer \/ AbandonTimer
    \/ LoseCallback \/ CountEnds \/ AbandonEnds
    \/ \E error \in BOOLEAN : Callback(error)
    \/ \E r \in Requests : Request(r) \/ Answer(r) \/ Untracked(r)

\* Timers fire, awaits of stages return, and the code after them runs; clients
\* and the server's callback owe nothing.
Fairness ==
    /\ WF_vars(OtherStage) /\ WF_vars(HttpStage) /\ WF_vars(CloseServer)
    /\ WF_vars(ForceTimer) /\ WF_vars(AbandonTimer)
    /\ WF_vars(CountEnds) /\ WF_vars(AbandonEnds)

Spec == Init /\ [][Next]_vars /\ Fairness

------------------------------------------------------------------------------
(* Properties. *)

\* What the shutdown reports is what happened, whatever order the two timers, the
\* close callback and the delayed count settle in (waitForServerClose).  A client
\* still connected when the ledger or the vault is gone shows as an abandoned wait
\* or a failed http stage; connections cut by force are reported exactly once; an
\* error that came before the end is never passed off as success; a callback that
\* came in time is never called missing.
EndIsTold ==
    /\ ~({"ledger", "vault"} \subseteq open) /\ Connected # {} =>
         http.outcome = "abandoned" \/ "http" \in ToSet(errors)
    /\ http.outcome \in {"forced", "abandoned"} => http.told = 1
    /\ http.released <= 1 /\ http.told <= http.released
    /\ (\E r \in Requests : socket[r] = "cut") /\ http.outcome # None => http.told = 1
    /\ http.outcome = "abandoned" => ~http.arrived
    /\ http.outcome = "closed" => http.released = 0

\* close() ends: every stage has its turn even when clients never finish, the
\* callback never comes or any stage fails, and then nothing is left open.
ShutdownEnds == (stage > 0) ~> (Done /\ open = {})

\* Every shutdown ends, and reports what happened (closeApp, waitForServerClose).
ShutdownTold == []EndIsTold /\ ShutdownEnds
===============================================================================
