---------------------------- MODULE ReviewDelivery -----------------------------
(***************************************************************************)
(* Delivery of review comments to another organization: the durable outbox *)
(* and the inbox (packages/storage/review-delivery-store.ts), the worker    *)
(* that claims a job under a lease, sends it and settles it                 *)
(* (packages/review/delivery-worker.ts), and the checks around a send       *)
(* (apps/api/review-delivery.ts).  A worker gives up on a call at its       *)
(* deadline, but the call goes on until it notices; requests and replies    *)
(* are lost or arrive late; a process crashes while it holds a lease and    *)
(* may come back with other destinations; several processes may work on one *)
(* database.                                                                *)
(*                                                                          *)
(* Times are events: a job waiting for its next attempt becomes due, a      *)
(* lease expires.  A lease token, a random UUID in the code, is the job's   *)
(* total_attempts, which every claim raises.                                *)
(***************************************************************************)
EXTENDS Integers, FiniteSets

CONSTANTS
    Deliveries,    \* delivery ids, one for each operation a person confirmed
    Workers,       \* processes that run a delivery worker on the database
    Bindings,      \* what a destination id may be bound to: recipient, endpoint
    MaxAttempts,   \* claims of a job before it has failed
    MaxRetries,    \* times a person asks for a failed job again
    MaxCrashes,
    None

VARIABLES
    jobs,       \* the outbox: Deliveries -> a job, or None
    inbox,      \* the receivers' inboxes: Bindings -> Deliveries -> receipt, or None
    received,   \* packets stored by receivers so far; receipts are numbered
    binding,    \* what each process has configured: Workers -> Bindings
    worker,     \* each worker's claim and the jobs of its current batch
    calls,      \* deliver calls under way, also those nobody waits for any more
    requests,   \* packets on their way to a receiver
    replies,    \* receipts on their way back
    retries, crashes

vars == <<jobs, inbox, received, binding, worker, calls, requests, replies, retries, crashes>>

receiver == <<inbox, received>>
network == <<requests, replies>>
bounds == <<retries, crashes>>

Statuses == {"pending", "sending", "delivered", "blocked", "failed"}

Resting == [job |-> None, token |-> 0, attempted |-> {}]

Jobs == {d \in Deliveries : jobs[d] # None}

------------------------------------------------------------------------------
(* The outbox. *)

\* A person confirms that a comment is shared with the destination on display.
Enqueue(d, w) ==
    /\ jobs[d] = None
    /\ jobs' = [jobs EXCEPT ![d] =
         [status |-> "pending", attempts |-> 0, total |-> 0, due |-> TRUE,
          leased |-> FALSE, binding |-> binding[w], receipt |-> None]]
    /\ UNCHANGED <<receiver, binding, worker, calls, network, bounds>>

Expired(j) == j.status = "sending" /\ ~j.leased

\* A crash on the last attempt leaves nobody to say that the job has failed.
Exhausted(j) == (j.status = "pending" \/ Expired(j)) /\ j.attempts >= MaxAttempts

\* The first statement of claim.
Swept == [d \in Deliveries |-> IF d \in Jobs /\ Exhausted(jobs[d])
                               THEN [jobs[d] EXCEPT !.status = "failed"] ELSE jobs[d]]

\* Fault: a job whose worker died is not taken up again.
Waiting(j) == j.status = "pending" /\ j.due

Claimable(j) == (j.status = "pending" /\ j.due) \/ Expired(j)

Open(w) == {d \in Jobs : Claimable(Swept[d])} \ worker[w].attempted

Leased(j) == [j EXCEPT !.status = "sending", !.leased = TRUE,
                       !.attempts = j.attempts + 1, !.total = j.total + 1]

\* claim, and the call it starts.  Which of the open jobs comes first is a
\* matter of times.
Claim(w) ==
    /\ worker[w].job = None
    /\ \E d \in Open(w) :
         /\ jobs' = [Swept EXCEPT ![d] = Leased(Swept[d])]
         /\ worker' = [worker EXCEPT ![w] = [job |-> d, token |-> jobs'[d].total,
                                             attempted |-> @.attempted \union {d}]]
         /\ calls' = calls \union {[worker |-> w, job |-> d, token |-> jobs'[d].total,
                                    phase |-> "checking"]}
    /\ UNCHANGED <<receiver, binding, network, bounds>>

\* Nothing to claim: the batch ends, the next tick starts another.
Rest(w) ==
    /\ worker[w].job = None
    /\ Open(w) = {}
    /\ jobs' = Swept
    /\ worker' = [worker EXCEPT ![w] = Resting]
    /\ UNCHANGED <<receiver, binding, calls, network, bounds>>

\* Fault: the row is written whoever holds its lease.
Anyone(d, token) == TRUE

\* Only the claim that holds the lease may settle the job.
Holds(d, token) == jobs[d].status = "sending" /\ jobs[d].total = token

Settle(d, token, status, receipt) ==
    jobs' = IF Holds(d, token)
            THEN [jobs EXCEPT ![d] = [@ EXCEPT !.status = status, !.receipt = receipt,
                                               !.due = FALSE, !.leased = FALSE]]
            ELSE jobs

\* attempts as the worker saw them when it claimed the job.
AfterFailure(d) == IF jobs[d].attempts >= MaxAttempts THEN "failed" ELSE "pending"

Due(d) ==
    /\ jobs[d] # None /\ jobs[d].status = "pending" /\ ~jobs[d].due
    /\ jobs' = [jobs EXCEPT ![d].due = TRUE]
    /\ UNCHANGED <<receiver, binding, worker, calls, network, bounds>>

Expire(d) ==
    /\ jobs[d] # None /\ jobs[d].leased
    /\ jobs' = [jobs EXCEPT ![d].leased = FALSE]
    /\ UNCHANGED <<receiver, binding, worker, calls, network, bounds>>

\* A person asks again for a job that ended without a receipt.
Retry(d, w) ==
    /\ retries < MaxRetries
    /\ jobs[d] # None /\ jobs[d].status \in {"failed", "blocked"}
    /\ binding[w] = jobs[d].binding
    /\ jobs' = [jobs EXCEPT ![d] = [@ EXCEPT !.status = "pending", !.attempts = 0, !.due = TRUE]]
    /\ retries' = retries + 1
    /\ UNCHANGED <<receiver, binding, worker, calls, network, crashes>>

------------------------------------------------------------------------------
(* A deliver call.  What it returns counts while its worker still waits. *)

Awaited(c) == worker[c.worker].job = c.job /\ worker[c.worker].token = c.token

\* The call ends; the worker goes on to the next job.
Return(c, status, receipt) ==
    /\ calls' = calls \ {c}
    /\ Settle(c.job, c.token, status, receipt)
    /\ worker' = [worker EXCEPT ![c.worker].job = None]

\* The outbox cannot be written: the batch ends, the lease is left to expire.
Unwritten(w) == worker' = [worker EXCEPT ![w] = Resting] /\ UNCHANGED jobs

Fails(c) == \/ Return(c, AfterFailure(c.job), None)
            \/ Return(c, "blocked", None)
            \/ calls' = calls \ {c} /\ Unwritten(c.worker)

\* Fault: a destination is known by its id alone.
AnyBinding(c) == TRUE

SameDestination(c) == binding[c.worker] = jobs[c.job].binding

\* authorize, the message, the comment, then the binding of the destination.
Check(c) ==
    /\ c.phase = "checking"
    /\ UNCHANGED <<receiver, binding, network, bounds>>
    /\ IF ~Awaited(c) THEN calls' = calls \ {c} /\ UNCHANGED <<jobs, worker>>
       ELSE \/ Fails(c)
            \/ /\ SameDestination(c)
               /\ calls' = (calls \ {c}) \union {[c EXCEPT !.phase = "allowed"]}
               /\ UNCHANGED <<jobs, worker>>

\* Fault: the deadline is not looked at after the policy was asked.
LateGoesOn(c) == TRUE

\* signal.throwIfAborted: the deadline has not passed.
InTime(c) == Awaited(c)

\* The policy hook has answered, authorize again, and the request goes out.
Send(c) ==
    /\ c.phase = "allowed"
    /\ UNCHANGED <<receiver, binding, replies, bounds>>
    /\ IF ~InTime(c) THEN calls' = calls \ {c} /\ UNCHANGED <<jobs, worker, requests>>
       ELSE \/ Awaited(c) /\ Fails(c) /\ UNCHANGED requests
            \/ /\ requests' = requests \union
                    {[job |-> c.job, token |-> c.token, to |-> binding[c.worker]]}
               /\ calls' = (calls \ {c}) \union {[c EXCEPT !.phase = "sent"]}
               /\ UNCHANGED <<jobs, worker>>

\* The receipt of this call.
Confirm(c) ==
    /\ c.phase = "sent"
    /\ \E r \in replies :
         /\ r.job = c.job /\ r.token = c.token
         /\ replies' = replies \ {r}
         /\ IF Awaited(c)
            THEN \/ Return(c, "delivered", r.receipt)
                 \/ Fails(c)
            ELSE calls' = calls \ {c} /\ UNCHANGED <<jobs, worker>>
    /\ UNCHANGED <<receiver, binding, requests, bounds>>

\* The connection breaks, or the receiver refuses.
Refused(c) ==
    /\ c.phase = "sent"
    /\ IF Awaited(c) THEN Fails(c) ELSE calls' = calls \ {c} /\ UNCHANGED <<jobs, worker>>
    /\ UNCHANGED <<receiver, binding, network, bounds>>

\* The deadline of the attempt: the worker no longer waits for its call.
Timeout(w) ==
    /\ worker[w].job # None
    /\ \/ /\ Settle(worker[w].job, worker[w].token, AfterFailure(worker[w].job), None)
          /\ worker' = [worker EXCEPT ![w].job = None]
       \/ Unwritten(w)
    /\ UNCHANGED <<receiver, binding, calls, network, bounds>>

------------------------------------------------------------------------------
(* The receiver, and the network in between. *)

\* Fault: every arrival is stored and confirmed anew.
FirstTime(p) == TRUE

Unknown(p) == inbox[p.to][p.job] = None

\* The inbox keeps the first packet of a job and the receipt given for it.
Store(p) ==
    IF Unknown(p)
    THEN /\ received' = received + 1
         /\ inbox' = [inbox EXCEPT ![p.to][p.job] = received']
    ELSE UNCHANGED receiver

\* A receiver that is busy, closed or too slow stores nothing: its caller sees
\* what it sees of a lost packet (Lose).
Receive(p) ==
    /\ requests' = requests \ {p}
    /\ Store(p)
    /\ replies' = replies \union {[job |-> p.job, token |-> p.token, receipt |-> inbox'[p.to][p.job]]}
    /\ UNCHANGED <<jobs, binding, worker, calls, bounds>>

Lose ==
    /\ \/ \E p \in requests : requests' = requests \ {p} /\ UNCHANGED replies
       \/ \E r \in replies : replies' = replies \ {r} /\ UNCHANGED requests
    /\ UNCHANGED <<jobs, receiver, binding, worker, calls, bounds>>

------------------------------------------------------------------------------
\* A process dies and comes back, perhaps with another configuration.
Crash(w) ==
    /\ crashes < MaxCrashes
    /\ crashes' = crashes + 1
    /\ worker' = [worker EXCEPT ![w] = Resting]
    /\ calls' = {c \in calls : c.worker # w}
    /\ \E b \in Bindings : binding' = [binding EXCEPT ![w] = b]
    /\ UNCHANGED <<jobs, receiver, network, retries>>

Init ==
    /\ jobs = [d \in Deliveries |-> None]
    /\ inbox = [b \in Bindings |-> [d \in Deliveries |-> None]]
    /\ received = 0
    /\ \E b \in Bindings : binding = [w \in Workers |-> b]
    /\ worker = [w \in Workers |-> Resting]
    /\ calls = {} /\ requests = {} /\ replies = {}
    /\ retries = 0 /\ crashes = 0

Call(c) == Check(c) \/ Send(c) \/ Confirm(c) \/ Refused(c)

Next ==
    \/ \E d \in Deliveries, w \in Workers : Enqueue(d, w) \/ Retry(d, w)
    \/ \E w \in Workers : Claim(w) \/ Rest(w) \/ Timeout(w) \/ Crash(w)
    \/ \E c \in calls : Call(c)
    \/ \E d \in Deliveries : Due(d) \/ Expire(d)
    \/ \E p \in requests : Receive(p)
    \/ Lose

\* Time passes and the worker's timer keeps ticking.
Fairness ==
    /\ \A d \in Deliveries : WF_vars(Due(d)) /\ WF_vars(Expire(d))
    /\ \A w \in Workers : WF_vars(Claim(w)) /\ WF_vars(Rest(w)) /\ WF_vars(Timeout(w))

Spec == Init /\ [][Next]_vars /\ Fairness

------------------------------------------------------------------------------
(* Properties. *)

Ended == {"delivered", "blocked", "failed"}

\* The shape of every variable; a lease belongs to a job being sent, and a
\* receipt to a delivered one (the checks of job(), review-delivery-store.ts).
TypeOK ==
    /\ \A d \in Jobs :
         /\ jobs[d] \in [status : Statuses, attempts : 0..MaxAttempts, total : Nat, due : BOOLEAN,
                         leased : BOOLEAN, binding : Bindings, receipt : 1..received \union {None}]
         /\ jobs[d].attempts <= jobs[d].total
         /\ jobs[d].leased => jobs[d].status = "sending"
         /\ (jobs[d].status = "delivered") = (jobs[d].receipt # None)
    /\ inbox \in [Bindings -> [Deliveries -> 1..received \union {None}]]
    /\ binding \in [Workers -> Bindings]
    /\ worker \in [Workers -> [job : Deliveries \union {None}, token : Nat, attempted : SUBSET Deliveries]]
    /\ calls \subseteq [worker : Workers, job : Jobs, token : Nat, phase : {"checking", "allowed", "sent"}]
    /\ retries \in 0..MaxRetries /\ crashes \in 0..MaxCrashes

\* The receipt shown to the author is the one the receiver keeps, the first it
\* gave (docs/33-REVIEW-DELIVERY.md:97), however often the packet arrived.
ReceiptIsTheReceivers ==
    \A d \in Jobs : jobs[d].status = "delivered" => jobs[d].receipt = inbox[jobs[d].binding][d]

\* A comment only reaches the destination its author confirmed, also when the
\* configuration changes while the job waits, is retried, or its call is under
\* way in a process with the old configuration
\* (docs/33-REVIEW-DELIVERY.md:129).
OnlyConfirmedDestination ==
    \A d \in Deliveries, b \in Bindings : inbox[b][d] # None => jobs[d].binding = b

\* Crashes do not give a job more attempts: between two explicit retries it is
\* claimed at most MaxAttempts times (claim, review-delivery-store.ts:80-81).
AttemptsBounded ==
    \A d \in Jobs : jobs[d].total <= MaxAttempts * (1 + retries)

\* A settled job is only reopened by a person's retry, and a delivered one
\* never: late answers of a claim whose lease passed to another change nothing.
LateAnswersChangeNothing ==
    [][\A d \in Jobs : jobs[d].status \in Ended /\ jobs'[d] # jobs[d] =>
           jobs[d].status # "delivered" /\ retries' = retries + 1]_vars

\* No request is sent once the worker gave its call up: a policy hook that
\* answers after the deadline does not send the comment while the job is taken
\* for failed or already under a new attempt (apps/api/review-delivery.ts,
\* deliver).
NoRequestAfterDeadline ==
    [][\A p \in requests' \ requests : Holds(p.job, p.token)]_vars

\* Every job comes to an end, whatever is lost and whoever crashes.
EveryJobEnds ==
    \A d \in Deliveries : jobs[d] # None ~> jobs[d] # None /\ jobs[d].status \in Ended

\* A job is what its packets and its claims made of it: its receipt is the one
\* the receiver keeps, and neither crashes nor other workers give it more
\* attempts (settle and claim, review-delivery-store.ts).
JobsSound == TypeOK /\ ReceiptIsTheReceivers /\ AttemptsBounded
====
