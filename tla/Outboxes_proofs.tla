---------------------------- MODULE Outboxes_proofs ----------------------------
(***************************************************************************)
(* What holds of the two outboxes whatever the number of deliveries,       *)
(* processes, destinations, attempts, retries, crashes, editors, versions  *)
(* and leases.                                                             *)
(***************************************************************************)
EXTENDS Outboxes, TLAPS

------------------------------------------------------------------------------
(* The inductive invariant of the delivery of review packets. *)

\* A row agrees with itself: only a job being sent is leased, exactly the
\* delivered one has a receipt, and its claims are those of the retries before
\* and of the current round.
RowSound(j) ==
    /\ j.attempts <= MaxAttempts
    /\ j.attempts <= j.total
    /\ j.total <= MaxAttempts * retries + j.attempts
    /\ j.leased => j.status = "sending"
    /\ (j.status = "delivered") = (j.receipt # None)

Rows ==
    /\ jobs \in [Deliveries -> Row \union {None}]
    /\ \A d \in Deliveries : jobs[d] # None => RowSound(jobs[d])

\* The row of a delivery with this id is there.
Known(d) == d \in Deliveries /\ jobs[d] # None

WorkerRecord == [job : Deliveries \union {None}, token : Nat, attempted : SUBSET Deliveries]

Shapes ==
    /\ received \in Nat
    /\ inbox \in [Bindings -> [Deliveries -> 1..received \union {None}]]
    /\ binding \in [Workers -> Bindings]
    /\ worker \in [Workers -> WorkerRecord]
    /\ calls \subseteq [worker : Workers, job : Deliveries, token : Nat,
                        phase : {"checking", "allowed", "sent"}]
    /\ requests \subseteq [job : Deliveries, token : Nat, to : Bindings]
    /\ replies \subseteq [job : Deliveries, token : Nat, receipt : Nat]
    /\ retries \in 0..MaxRetries /\ crashes \in 0..MaxCrashes

\* A worker works for a job of the outbox; past the check of its destination, it
\* has the configuration the job was made for.
WorkersSound ==
    /\ \A w \in Workers : worker[w].job # None => Known(worker[w].job)
    /\ \A c \in calls : Known(c.job)
    /\ \A c \in calls : c.phase = "allowed" => binding[c.worker] = jobs[c.job].binding

\* Packets go to the destination of their job, and come back with what the
\* receiver there keeps; nobody else ever got one.
PacketsSound ==
    /\ \A p \in requests : Known(p.job) /\ p.to = jobs[p.job].binding
    /\ \A r \in replies : Known(r.job) /\ inbox[jobs[r.job].binding][r.job] = r.receipt
    /\ \A b \in Bindings, d \in Deliveries :
         inbox[b][d] # None => Known(d) /\ jobs[d].binding = b

ReceiptsTrue ==
    \A d \in Deliveries :
        jobs[d] # None /\ jobs[d].receipt # None => jobs[d].receipt = inbox[jobs[d].binding][d]

DeliveryInv == Rows /\ Shapes /\ WorkersSound /\ PacketsSound /\ ReceiptsTrue

------------------------------------------------------------------------------
(* The inductive invariant of schedules, reminders and notices. *)

ScheduleRecord == [version : Nat, deadline : {"none", "later", "due", "overdue"},
                   assigned : BOOLEAN, completed : BOOLEAN]

SendRecord == [reminder : Notices!Reminders, token : Nat,
               at : {"claimed", "opened", "vetted", "posted"},
               reply : {"ok", "limited", "denied", "internal_error", None},
               cancelled : BOOLEAN]

NoticeShapes ==
    /\ schedule \in ScheduleRecord
    /\ configured \in Nat
    /\ notices \in [Notices!Reminders -> Notice \union {None}]
    /\ claims \in Nat
    /\ sends \subseteq SendRecord
    /\ shown \in [Notices!Reminders -> Nat]
    /\ confirmed \in [Notices!Reminders -> Nat]

\* Every version of the schedule has exactly the one operation that wrote it.
EventsSound ==
    /\ events \in [Edits -> 1..schedule.version \union {None}]
    /\ \A v \in 1..schedule.version : \E op \in Edits : {o \in Edits : events[o] = v} = {op}

\* Leases are numbered; a send has its own, and its notice is there.
TokensSound ==
    /\ \A j \in sends : j.token \in 1..claims /\ notices[j.reminder] # None
    /\ \A i, j \in sends : i.token = j.token => i = j

\* The send that holds the lease of its notice may have been shown.
MayBeShown(r) ==
    \A j \in sends : j.reminder = r /\ notices[r].token = j.token
        => j.at = "posted" /\ j.reply \in {"ok", "internal_error"}

\* The message of a reminder was shown at most once for every confirmed retry,
\* and once more; a notice that may be sent again by itself has that one left.
ShownSound ==
    \A r \in Notices!Reminders :
        /\ shown[r] <= 1 + confirmed[r]
        /\ notices[r] = None => shown[r] <= confirmed[r]
        /\ notices[r] # None =>
             /\ notices[r].status = "retry_wait" => shown[r] <= confirmed[r]
             /\ notices[r].status = "sending" => shown[r] <= confirmed[r] \/ MayBeShown(r)
             /\ notices[r].status = "provider_accepted" => shown[r] > 0

\* A posted send with a good answer was shown.
AnswersTrue == \A j \in sends : j.at = "posted" /\ j.reply = "ok" => shown[j.reminder] > 0

NoticesInv == NoticeShapes /\ EventsSound /\ TokensSound /\ ShownSound /\ AnswersTrue

Inv == DeliveryInv /\ NoticesInv


------------------------------------------------------------------------------
(* Rows of the outbox. *)

\* What no step does to a row: it stays with its destination, a job that has ended
\* is only reopened by a retry, and a receipt is the receiver's.
RowsKept ==
    \A d \in Deliveries :
        /\ jobs[d] = None /\ jobs'[d] # None => jobs'[d].receipt = None
        /\ jobs[d] # None =>
             /\ jobs'[d] # None
             /\ jobs'[d].binding = jobs[d].binding
             /\ jobs'[d].receipt \in {None, jobs[d].receipt, inbox[jobs[d].binding][d]}
             /\ jobs[d].status \in Delivery!Ended /\ jobs'[d] # jobs[d]
                  => jobs[d].status # "delivered" /\ retries' = retries + 1

\* Attempts multiply: one more round of them is MaxAttempts more.
LEMMA OneMoreRound ==
    ASSUME NEW m \in Nat, NEW r \in Nat
    PROVE  /\ m * r \in Nat
           /\ m * (r + 1) = m * r + m
  OBVIOUS

\* No row is the placeholder (job, review-delivery-store.ts).
LEMMA RowIsNoNone ==
    ASSUME NEW j \in Row
    PROVE  j # None
  BY NoneAssumption

\* One row changes, to one that is sound and keeps the destination; the others
\* stay.
LEMMA OneRow ==
    ASSUME Rows, NEW d \in Deliveries, NEW row, row \in Row, RowSound(row), retries' = retries,
           jobs' = [jobs EXCEPT ![d] = row]
    PROVE  Rows'
  <1>1. jobs' \in [Deliveries -> Row \union {None}]
    BY DEF Rows
  <1>2. \A e \in Deliveries : jobs'[e] # None => RowSound(jobs'[e])
    BY DEF Rows
  <1>3. \A e \in Deliveries : jobs'[e] # None => RowSound(jobs[e])'
    BY <1>2 DEF RowSound
  <1> QED BY <1>1, <1>3 DEF Rows

\* settle writes the row of the claim that still holds the lease, or nothing.
LEMMA SettleRows ==
    ASSUME Rows, NEW d, Known(d), NEW token, NEW status, NEW receipt,
           status \in {"pending", "delivered", "blocked", "failed"},
           receipt \in Nat \union {None},
           (status = "delivered") = (receipt # None),
           receipt # None => receipt = inbox[jobs[d].binding][d],
           retries' = retries,
           Delivery!Settle(d, token, status, receipt)
    PROVE  Rows' /\ RowsKept
  <1>1. jobs[d] \in Row /\ RowSound(jobs[d])
    BY DEF Rows, Known
  <1>2. CASE ~Delivery!Holds(d, token)
    <2>1. jobs' = jobs
      BY <1>2 DEF Delivery!Settle
    <2> QED BY <2>1 DEF Rows, RowSound, RowsKept
  <1>3. CASE Delivery!Holds(d, token)
    <2>1. PICK row : row = [jobs[d] EXCEPT !.status = status, !.receipt = receipt,
                                           !.due = FALSE, !.leased = FALSE]
      OBVIOUS
    <2>2. jobs' = [jobs EXCEPT ![d] = row]
      BY <1>3, <2>1 DEF Delivery!Settle
    <2>3. row \in Row
      BY <1>1, <2>1 DEF Row, Delivery!Statuses
    <2>4. RowSound(row)
      BY <1>1, <2>1 DEF Row, RowSound
    <2>5. Rows'
      BY <2>2, <2>3, <2>4, OneRow DEF Known
    <2>6. jobs[d].status = "sending"
      BY <1>3 DEF Delivery!Holds
    <2>7. row # None /\ row.binding = jobs[d].binding /\ row.receipt = receipt
      BY <1>1, <2>1, <2>3, RowIsNoNone DEF Row
    <2>8. RowsKept
      BY <2>2, <2>6, <2>7 DEF RowsKept, Rows, Known, Delivery!Ended
    <2> QED BY <2>5, <2>8
  <1> QED BY <1>2, <1>3

\* The sweep before a claim: who has used up the attempts has failed.
LEMMA SweptRows ==
    ASSUME Rows, NEW d \in Deliveries, jobs[d] # None
    PROVE  /\ Delivery!Swept[d] \in Row /\ RowSound(Delivery!Swept[d])
           /\ Delivery!Swept[d].binding = jobs[d].binding
           /\ Delivery!Swept[d].receipt = jobs[d].receipt
           /\ jobs[d].status \in Delivery!Ended => Delivery!Swept[d] = jobs[d]
           /\ Delivery!Claimable(Delivery!Swept[d]) => 
                 Delivery!Swept[d] = jobs[d] /\ ~Delivery!Exhausted(jobs[d])
  <1>1. jobs[d] \in Row /\ RowSound(jobs[d]) /\ d \in Delivery!Jobs
    BY DEF Rows, Delivery!Jobs
  <1>2. CASE Delivery!Exhausted(jobs[d])
    <2>1. Delivery!Swept[d] = [jobs[d] EXCEPT !.status = "failed"]
      BY <1>1, <1>2 DEF Delivery!Swept
    <2>2. jobs[d].status \in {"pending", "sending"} /\ ~jobs[d].leased
      BY <1>1, <1>2 DEF Delivery!Exhausted, Delivery!Expired, RowSound
    <2> QED BY <1>1, <2>1, <2>2 DEF Row, RowSound, Delivery!Statuses, Delivery!Ended,
                 Delivery!Claimable, Delivery!Expired
  <1>3. CASE ~Delivery!Exhausted(jobs[d])
    <2>1. Delivery!Swept[d] = jobs[d]
      BY <1>1, <1>3 DEF Delivery!Swept
    <2> QED BY <1>1, <1>3, <2>1
  <1> QED BY <1>2, <1>3

\* The sweep alone, when there is nothing to claim.
LEMMA SweepKeeps ==
    ASSUME Rows, jobs' = Delivery!Swept, retries' = retries
    PROVE  Rows' /\ RowsKept
  <1>1. \A d \in Deliveries : jobs[d] = None => jobs'[d] = None
    BY DEF Delivery!Swept, Delivery!Jobs
  <1>2. \A d \in Deliveries : jobs[d] # None =>
             /\ jobs'[d] \in Row /\ RowSound(jobs'[d])
             /\ jobs'[d].binding = jobs[d].binding
             /\ jobs'[d].receipt = jobs[d].receipt
             /\ jobs[d].status \in Delivery!Ended => jobs'[d] = jobs[d]
    BY SweptRows
  <1>3. jobs' \in [Deliveries -> Row \union {None}]
    BY <1>1, <1>2 DEF Delivery!Swept
  <1>4. \A d \in Deliveries : jobs'[d] # None => RowSound(jobs[d])'
    BY <1>1, <1>2 DEF RowSound
  <1>5. RowsKept
    BY <1>1, <1>2, RowIsNoNone DEF RowsKept
  <1> QED BY <1>3, <1>4, <1>5 DEF Rows


------------------------------------------------------------------------------
(* Each step of the delivery keeps its invariant. *)

\* A worker rests, or is free for the next job of its batch.
LEMMA WorkerFree ==
    ASSUME worker \in [Workers -> WorkerRecord], NEW w \in Workers,
           \/ worker' = worker
           \/ worker' = [worker EXCEPT ![w].job = None]
           \/ worker' = [worker EXCEPT ![w] = Delivery!Resting]
    PROVE  /\ worker' \in [Workers -> WorkerRecord]
           /\ \A v \in Workers : worker'[v].job # None => worker'[v].job = worker[v].job
  <1>1. PICK free : free \in {Delivery!Resting, [worker[w] EXCEPT !.job = None], worker[w]}
                   /\ worker' = [worker EXCEPT ![w] = free]
    OBVIOUS
  <1>2. free \in WorkerRecord /\ (free.job = None \/ free = worker[w])
    BY <1>1 DEF WorkerRecord, Delivery!Resting
  <1> QED BY <1>1, <1>2

\* Nothing but the row of d changed, or nothing at all: calls and packets are of
\* jobs that are still there, with the same destination.
LEMMA CallsEnd ==
    ASSUME DeliveryInv, Rows', RowsKept, NEW C, NEW w \in Workers, calls' = calls \ C,
           \/ worker' = worker
           \/ worker' = [worker EXCEPT ![w].job = None]
           \/ worker' = [worker EXCEPT ![w] = Delivery!Resting],
           UNCHANGED <<inbox, received, binding, retries, crashes>>,
           requests' \subseteq requests, replies' \subseteq replies
    PROVE  DeliveryInv'
  <1>1. worker \in [Workers -> WorkerRecord]
    BY DEF DeliveryInv, Shapes
  <1>2. /\ worker' \in [Workers -> WorkerRecord]
        /\ \A v \in Workers : worker'[v].job # None => worker'[v].job = worker[v].job
    BY <1>1, WorkerFree
  <1>3. Shapes'
    BY <1>2 DEF DeliveryInv, Shapes
  <1>4. WorkersSound'
    BY <1>2 DEF DeliveryInv, WorkersSound, RowsKept, Known
  <1>5. PacketsSound'
    BY DEF DeliveryInv, PacketsSound, RowsKept, Known
  <1>6. ReceiptsTrue'
    BY NoneAssumption DEF DeliveryInv, ReceiptsTrue, RowsKept, PacketsSound, Known
  <1> QED BY <1>3, <1>4, <1>5, <1>6 DEF DeliveryInv


\* A job is unchanged by a step that writes no row.
LEMMA NoRowWritten ==
    ASSUME Rows, jobs' = jobs, retries' = retries
    PROVE  Rows' /\ RowsKept
  BY DEF Rows, RowSound, RowsKept

\* A call ends with a result its worker still waits for.
LEMMA ReturnKeeps ==
    ASSUME DeliveryInv, NEW c \in calls, NEW status, NEW receipt,
           status \in {"pending", "delivered", "blocked", "failed"},
           receipt \in Nat \union {None},
           (status = "delivered") = (receipt # None),
           receipt # None => receipt = inbox[jobs[c.job].binding][c.job],
           Delivery!Return(c, status, receipt),
           UNCHANGED <<inbox, received, binding, retries, crashes>>,
           requests' \subseteq requests, replies' \subseteq replies
    PROVE  DeliveryInv' /\ RowsKept
  <1>1. Known(c.job) /\ c.worker \in Workers
    BY DEF DeliveryInv, Shapes, WorkersSound
  <1>2. Delivery!Settle(c.job, c.token, status, receipt)
    BY DEF Delivery!Return
  <1>3. Rows' /\ RowsKept
    BY <1>1, <1>2, SettleRows DEF DeliveryInv
  <1> QED BY <1>1, <1>3, CallsEnd DEF Delivery!Return

\* A call fails, or its result cannot be written.
LEMMA FailsKeeps ==
    ASSUME DeliveryInv, NEW c \in calls, Delivery!Fails(c),
           UNCHANGED <<inbox, received, binding, retries, crashes>>,
           requests' \subseteq requests, replies' \subseteq replies
    PROVE  DeliveryInv' /\ RowsKept
  <1>1. CASE \/ Delivery!Return(c, Delivery!AfterFailure(c.job), None)
             \/ Delivery!Return(c, "blocked", None)
    BY <1>1, ReturnKeeps DEF Delivery!AfterFailure
  <1>2. CASE calls' = calls \ {c} /\ Delivery!Unwritten(c.worker)
    <2>1. c.worker \in Workers
      BY DEF DeliveryInv, Shapes
    <2>2. Rows' /\ RowsKept
      BY <1>2, NoRowWritten DEF Delivery!Unwritten, DeliveryInv
    <2> QED BY <1>2, <2>1, <2>2, CallsEnd DEF Delivery!Unwritten
  <1> QED BY <1>1, <1>2 DEF Delivery!Fails

\* The call goes to its next phase; a packet goes where the job says.
LEMMA CallGoesOn ==
    ASSUME DeliveryInv, NEW c \in calls, NEW next,
           next \in [worker : Workers, job : Deliveries, token : Nat,
                     phase : {"checking", "allowed", "sent"}],
           next.job = c.job, next.worker = c.worker,
           next.phase = "allowed" => binding[c.worker] = jobs[c.job].binding,
           calls' = (calls \ {c}) \union {next},
           \/ requests' = requests
           \/ \E p \in [job : Deliveries, token : Nat, to : Bindings] :
                 requests' = requests \union {p} /\ p.job = c.job /\ p.to = jobs[c.job].binding,
           UNCHANGED <<jobs, worker, inbox, received, binding, replies, retries, crashes>>
    PROVE  DeliveryInv' /\ RowsKept
  <1>1. Rows' /\ RowsKept
    BY NoRowWritten DEF DeliveryInv
  <1>2. Shapes'
    BY DEF DeliveryInv, Shapes
  <1>3. WorkersSound'
    BY DEF DeliveryInv, WorkersSound, Known
  <1>4. PacketsSound'
    BY DEF DeliveryInv, PacketsSound, WorkersSound, Known
  <1>5. ReceiptsTrue'
    BY DEF DeliveryInv, ReceiptsTrue
  <1> QED BY <1>1, <1>2, <1>3, <1>4, <1>5 DEF DeliveryInv

\* A call that is no longer awaited ends without a trace.
LEMMA CallDropped ==
    ASSUME DeliveryInv, NEW c \in calls, calls' = calls \ {c}, UNCHANGED <<jobs, worker>>,
           UNCHANGED <<inbox, received, binding, retries, crashes>>,
           requests' \subseteq requests, replies' \subseteq replies
    PROVE  DeliveryInv' /\ RowsKept
  <1>1. c.worker \in Workers
    BY DEF DeliveryInv, Shapes
  <1>2. Rows' /\ RowsKept
    BY NoRowWritten DEF DeliveryInv
  <1> QED BY <1>1, <1>2, CallsEnd


\* Only the outbox was written, by a person or as time passed.
LEMMA OutboxWritten ==
    ASSUME DeliveryInv, Rows', RowsKept, retries' \in 0..MaxRetries,
           UNCHANGED <<inbox, received, binding, worker, calls, requests, replies, crashes>>
    PROVE  DeliveryInv'
  <1>1. Shapes'
    BY DEF DeliveryInv, Shapes
  <1>2. WorkersSound'
    BY DEF DeliveryInv, WorkersSound, RowsKept, Known
  <1>3. PacketsSound'
    BY DEF DeliveryInv, PacketsSound, RowsKept, Known
  <1>4. ReceiptsTrue'
    BY NoneAssumption DEF DeliveryInv, ReceiptsTrue, RowsKept, PacketsSound, Known
  <1> QED BY <1>1, <1>2, <1>3, <1>4 DEF DeliveryInv

\* A person shares a comment: the first row of this delivery.
LEMMA EnqueueKeeps ==
    ASSUME DeliveryInv, NEW d \in Deliveries, NEW w \in Workers, Delivery!Enqueue(d, w)
    PROVE  DeliveryInv' /\ RowsKept
  <1>1. PICK row : row = [status |-> "pending", attempts |-> 0, total |-> 0, due |-> TRUE,
                          leased |-> FALSE, binding |-> binding[w], receipt |-> None]
    OBVIOUS
  <1>2. row \in Row
    BY <1>1 DEF Row, Delivery!Statuses, DeliveryInv, Shapes
  <1>3. MaxAttempts * retries \in Nat
    BY OneMoreRound, BoundsAssumption DEF DeliveryInv, Shapes
  <1>4. RowSound(row)
    BY <1>1, <1>3, BoundsAssumption DEF RowSound
  <1>5. jobs[d] = None /\ jobs' = [jobs EXCEPT ![d] = row] /\ retries' = retries
    BY <1>1 DEF Delivery!Enqueue, Delivery!bounds
  <1>6. Rows'
    BY <1>2, <1>4, <1>5, OneRow DEF DeliveryInv
  <1>7. RowsKept
    BY <1>1, <1>5, NoneAssumption DEF RowsKept, DeliveryInv, Rows
  <1> QED BY <1>5, <1>6, <1>7, OutboxWritten
       DEF Delivery!Enqueue, Delivery!receiver, Delivery!network, Delivery!bounds, DeliveryInv, Shapes

\* A person asks again: a new round of attempts.
LEMMA RetryKeeps ==
    ASSUME DeliveryInv, NEW d \in Deliveries, NEW w \in Workers, Delivery!Retry(d, w)
    PROVE  DeliveryInv' /\ RowsKept
  <1>1. /\ Rows /\ retries \in Nat /\ MaxRetries \in Nat /\ retries < MaxRetries
        /\ retries' = retries + 1 /\ MaxAttempts \in Nat
    BY BoundsAssumption DEF DeliveryInv, Shapes, Delivery!Retry
  <1>2. /\ MaxAttempts * retries \in Nat
        /\ MaxAttempts * retries' = MaxAttempts * retries + MaxAttempts
    BY <1>1, OneMoreRound
  <1>3. jobs[d] \in Row /\ RowSound(jobs[d]) /\ jobs[d].status \in {"failed", "blocked"}
    BY DEF Delivery!Retry, DeliveryInv, Rows
  <1>4. PICK row : row = [jobs[d] EXCEPT !.status = "pending", !.attempts = 0, !.due = TRUE]
    OBVIOUS
  <1>5. jobs' = [jobs EXCEPT ![d] = row]
    BY <1>4 DEF Delivery!Retry
  <1>6. row \in Row /\ row.binding = jobs[d].binding /\ row.receipt = jobs[d].receipt
    BY <1>3, <1>4 DEF Row, Delivery!Statuses
  <1>7. /\ row.attempts = 0 /\ row.total = jobs[d].total /\ row.total \in Nat
        /\ row.status = "pending" /\ row.leased = jobs[d].leased
    BY <1>3, <1>4 DEF Row
  <1>8. row.total <= MaxAttempts * retries' + row.attempts
    <2>1. jobs[d].total <= MaxAttempts * retries + jobs[d].attempts /\ jobs[d].attempts <= MaxAttempts
          /\ jobs[d].attempts \in Nat
      BY <1>3 DEF RowSound, Row
    <2> QED BY <1>1, <1>2, <1>7, <2>1
  <1>9. /\ row.attempts <= MaxAttempts /\ row.attempts <= row.total
        /\ row.leased => row.status = "sending"
        /\ (row.status = "delivered") = (row.receipt # None)
    BY <1>1, <1>3, <1>6, <1>7 DEF RowSound
  <1>10. Rows'
    <2>1. jobs' \in [Deliveries -> Row \union {None}]
      BY <1>1, <1>5, <1>6 DEF Rows
    <2>2. \A e \in Deliveries : e # d /\ jobs[e] # None => RowSound(jobs[e])'
      <3> SUFFICES ASSUME NEW e \in Deliveries, e # d, jobs[e] # None
                   PROVE  RowSound(jobs[e])'
        OBVIOUS
      <3>1. jobs[e] \in Row /\ RowSound(jobs[e]) /\ jobs'[e] = jobs[e]
        BY <1>1, <1>5 DEF Rows
      <3>2. jobs[e].total <= MaxAttempts * retries' + jobs[e].attempts
        BY <1>1, <1>2, <3>1 DEF RowSound, Row
      <3> QED BY <3>1, <3>2 DEF RowSound
    <2>3. RowSound(jobs[d])'
      <3>1. jobs'[d] = row
        BY <1>1, <1>5 DEF Rows
      <3> QED BY <1>8, <1>9, <3>1 DEF RowSound
    <2>4. \A e \in Deliveries : e # d => jobs'[e] = jobs[e]
      BY <1>1, <1>5 DEF Rows
    <2> QED BY <2>1, <2>2, <2>3, <2>4 DEF Rows
  <1>11. RowsKept
    BY <1>1, <1>3, <1>5, <1>6, RowIsNoNone DEF RowsKept, Rows
  <1>12. retries' \in 0..MaxRetries
    BY <1>1
  <1> QED BY <1>10, <1>11, <1>12, OutboxWritten DEF Delivery!Retry, Delivery!receiver, Delivery!network

\* A job becomes due, or its lease runs out.
LEMMA TimePasses ==
    ASSUME DeliveryInv, NEW d \in Deliveries, Delivery!Due(d) \/ Delivery!Expire(d)
    PROVE  DeliveryInv' /\ RowsKept
  <1>1. jobs[d] # None /\ jobs[d].status \in {"pending", "sending"} /\ jobs[d] \in Row /\ RowSound(jobs[d])
    BY DEF Delivery!Due, Delivery!Expire, DeliveryInv, Rows, RowSound
  <1>2. PICK row : /\ row \in {[jobs[d] EXCEPT !.due = TRUE], [jobs[d] EXCEPT !.leased = FALSE]}
                   /\ jobs' = [jobs EXCEPT ![d] = row]
    <2>1. jobs' = [jobs EXCEPT ![d] = [jobs[d] EXCEPT !.due = TRUE]]
          \/ jobs' = [jobs EXCEPT ![d] = [jobs[d] EXCEPT !.leased = FALSE]]
      BY DEF Delivery!Due, Delivery!Expire
    <2> QED BY <2>1
  <1>3. /\ row \in Row /\ RowSound(row)
        /\ row.binding = jobs[d].binding /\ row.receipt = jobs[d].receipt
    BY <1>1, <1>2 DEF Row, RowSound
  <1>4. /\ retries' = retries
        /\ UNCHANGED <<inbox, received, binding, worker, calls, requests, replies, crashes>>
    BY DEF Delivery!Due, Delivery!Expire, Delivery!receiver, Delivery!network, Delivery!bounds
  <1>5. Rows'
    BY <1>2, <1>3, <1>4, OneRow DEF DeliveryInv
  <1>6. RowsKept
    BY <1>1, <1>2, <1>3, RowIsNoNone DEF RowsKept, DeliveryInv, Rows, Delivery!Ended
  <1> QED BY <1>4, <1>5, <1>6, OutboxWritten DEF DeliveryInv, Shapes


\* A lease changes nothing else of a row.
LEMMA LeasedRow ==
    ASSUME NEW j \in Row
    PROVE  /\ Delivery!Leased(j) \in Row
           /\ Delivery!Leased(j).binding = j.binding
           /\ Delivery!Leased(j).receipt = j.receipt
           /\ Delivery!Leased(j).total \in Nat
  <1>1. PICK a, t \in Nat : a = j.attempts + 1 /\ t = j.total + 1
    BY DEF Row
  <1>2. Delivery!Leased(j) = [j EXCEPT !.status = "sending", !.leased = TRUE,
                                       !.attempts = a, !.total = t]
    BY <1>1 DEF Delivery!Leased
  <1> QED BY <1>2 DEF Row, Delivery!Statuses

\* A claim: the sweep, the lease of one job, and the call it starts.
LEMMA ClaimKeeps ==
    ASSUME DeliveryInv, NEW w \in Workers, Delivery!Claim(w)
    PROVE  DeliveryInv' /\ RowsKept
  <1>1. PICK d \in Delivery!Open(w) :
          /\ jobs' = [Delivery!Swept EXCEPT ![d] = Delivery!Leased(Delivery!Swept[d])]
          /\ worker' = [worker EXCEPT ![w] = [job |-> d, token |-> jobs'[d].total,
                                             attempted |-> @.attempted \union {d}]]
          /\ calls' = calls \union {[worker |-> w, job |-> d, token |-> jobs'[d].total,
                                     phase |-> "checking"]}
    BY DEF Delivery!Claim
  <1>2. Known(d) /\ Delivery!Claimable(Delivery!Swept[d])
    BY <1>1 DEF Delivery!Open, Delivery!Jobs, Known
  <1>3. Rows /\ retries' = retries
    BY DEF Delivery!Claim, Delivery!bounds, DeliveryInv
  <1>4. /\ Delivery!Swept[d] = jobs[d] /\ ~Delivery!Exhausted(jobs[d])
        /\ jobs[d] \in Row /\ RowSound(jobs[d])
        /\ Delivery!Claimable(jobs[d])
    BY <1>2, <1>3, SweptRows DEF Known
  <1>5. /\ jobs[d].attempts < MaxAttempts /\ jobs[d].status \in {"pending", "sending"}
        /\ jobs[d].receipt = None /\ MaxAttempts * retries \in Nat
    <2>1. jobs[d].status \in {"pending", "sending"} /\ jobs[d].receipt = None
      BY <1>4 DEF Delivery!Claimable, Delivery!Expired, RowSound
    <2>2. jobs[d].attempts < MaxAttempts
      BY <1>4, BoundsAssumption DEF Delivery!Claimable, Delivery!Exhausted, Delivery!Expired, Row
    <2>3. MaxAttempts * retries \in Nat
      BY OneMoreRound, BoundsAssumption DEF DeliveryInv, Shapes
    <2> QED BY <2>1, <2>2, <2>3
  <1>6. PICK row : row = Delivery!Leased(jobs[d])
    OBVIOUS
  <1>7. jobs' = [Delivery!Swept EXCEPT ![d] = row]
    BY <1>1, <1>4, <1>6
  <1>8. row \in Row /\ row.binding = jobs[d].binding /\ row.receipt = None /\ row.total \in Nat
    BY <1>4, <1>5, <1>6, LeasedRow
  <1>9. RowSound(row)
    BY <1>4, <1>5, <1>6, BoundsAssumption DEF Row, RowSound, Delivery!Leased
  <1>10. \A e \in Deliveries : e # d => jobs'[e] = Delivery!Swept[e]
    BY <1>2, <1>7 DEF Delivery!Swept, Known
  <1>11. jobs'[d] = row
    BY <1>2, <1>7 DEF Delivery!Swept, Known
  <1>12. \A e \in Deliveries : jobs[e] # None =>
             /\ Delivery!Swept[e] \in Row /\ RowSound(Delivery!Swept[e])
             /\ Delivery!Swept[e].binding = jobs[e].binding
             /\ Delivery!Swept[e].receipt = jobs[e].receipt
             /\ jobs[e].status \in Delivery!Ended => Delivery!Swept[e] = jobs[e]
    BY <1>3, SweptRows
  <1>13. \A e \in Deliveries : jobs[e] = None => Delivery!Swept[e] = None
    BY DEF Delivery!Swept, Delivery!Jobs
  <1>14. Rows'
    <2>1. jobs' \in [Deliveries -> Row \union {None}]
      BY <1>7, <1>8, <1>12, <1>13 DEF Delivery!Swept
    <2>2. \A e \in Deliveries : jobs'[e] # None => RowSound(jobs'[e])
      BY <1>9, <1>10, <1>11, <1>12, <1>13
    <2>3. \A e \in Deliveries : jobs'[e] # None => RowSound(jobs[e])'
      BY <1>3, <2>2 DEF RowSound
    <2> QED BY <2>1, <2>3 DEF Rows
  <1>15. RowsKept
    <2> SUFFICES ASSUME NEW e \in Deliveries
        PROVE  /\ jobs[e] = None /\ jobs'[e] # None => jobs'[e].receipt = None
               /\ jobs[e] # None =>
                    /\ jobs'[e] # None
                    /\ jobs'[e].binding = jobs[e].binding
                    /\ jobs'[e].receipt \in {None, jobs[e].receipt, inbox[jobs[e].binding][e]}
                    /\ jobs[e].status \in Delivery!Ended /\ jobs'[e] # jobs[e]
                         => jobs[e].status # "delivered" /\ retries' = retries + 1
      BY DEF RowsKept
    <2>1. CASE e = d
      BY <1>2, <1>5, <1>8, <1>11, <2>1, RowIsNoNone DEF Known, Delivery!Ended
    <2>2. CASE e # d
      BY <1>10, <1>12, <1>13, <2>2, RowIsNoNone
    <2> QED BY <2>1, <2>2
  <1>16. /\ UNCHANGED <<inbox, received, binding, requests, replies, retries, crashes>>
         /\ Known(d)' /\ row.total = jobs'[d].total
    BY <1>2, <1>11, <1>15 DEF Delivery!Claim, Delivery!receiver, Delivery!network, Delivery!bounds,
         RowsKept, Known
  <1>17. PICK claim : /\ claim = [job |-> d, token |-> jobs'[d].total,
                                  attempted |-> worker[w].attempted \union {d}]
                      /\ worker' = [worker EXCEPT ![w] = claim]
    BY <1>1
  <1>18. claim \in WorkerRecord /\ claim.job = d
    BY <1>2, <1>8, <1>16, <1>17 DEF WorkerRecord, DeliveryInv, Shapes, Known
  <1>19. PICK call : /\ call = [worker |-> w, job |-> d, token |-> jobs'[d].total,
                                phase |-> "checking"]
                     /\ calls' = calls \union {call}
    BY <1>1
  <1>20. /\ call \in [worker : Workers, job : Deliveries, token : Nat,
                      phase : {"checking", "allowed", "sent"}]
         /\ call.job = d /\ call.phase = "checking"
    BY <1>2, <1>8, <1>16, <1>19 DEF Known
  <1>21. Shapes'
    BY <1>16, <1>17, <1>18, <1>19, <1>20 DEF DeliveryInv, Shapes
  <1>22. WorkersSound'
    <2>1. \A v \in Workers : worker'[v].job # None => Known(worker[v].job)'
      BY <1>15, <1>16, <1>17, <1>18 DEF DeliveryInv, Shapes, WorkersSound, RowsKept, Known
    <2>2. \A c \in calls' : /\ Known(c.job)'
                            /\ c.phase = "allowed" => binding'[c.worker] = jobs'[c.job].binding
      BY <1>15, <1>16, <1>19, <1>20 DEF DeliveryInv, WorkersSound, RowsKept, Known
    <2> QED BY <2>1, <2>2 DEF WorkersSound
  <1>23. PacketsSound'
    BY <1>15, <1>16 DEF DeliveryInv, PacketsSound, RowsKept, Known
  <1>24. ReceiptsTrue'
    BY <1>15, <1>16, NoneAssumption DEF DeliveryInv, ReceiptsTrue, RowsKept, PacketsSound, Known
  <1> QED BY <1>14, <1>15, <1>21, <1>22, <1>23, <1>24 DEF DeliveryInv


\* Nothing to claim: the sweep, and the worker rests.
LEMMA RestKeeps ==
    ASSUME DeliveryInv, NEW w \in Workers, Delivery!Rest(w)
    PROVE  DeliveryInv' /\ RowsKept
  <1>1. /\ jobs' = Delivery!Swept /\ worker' = [worker EXCEPT ![w] = Delivery!Resting]
        /\ UNCHANGED <<calls, inbox, received, binding, requests, replies, retries, crashes>>
    BY DEF Delivery!Rest, Delivery!receiver, Delivery!network, Delivery!bounds
  <1>2. Rows' /\ RowsKept
    BY <1>1, SweepKeeps DEF DeliveryInv
  <1>3. calls' = calls \ {}
    BY <1>1
  <1> QED BY <1>1, <1>2, <1>3, CallsEnd

\* The deadline: the worker settles the job as failed, or cannot.
LEMMA TimeoutKeeps ==
    ASSUME DeliveryInv, NEW w \in Workers, Delivery!Timeout(w)
    PROVE  DeliveryInv' /\ RowsKept
  <1>1. /\ worker[w].job # None /\ calls' = calls \ {}
        /\ UNCHANGED <<inbox, received, binding, requests, replies, retries, crashes>>
    BY DEF Delivery!Timeout, Delivery!receiver, Delivery!network, Delivery!bounds
  <1>2. Known(worker[w].job)
    BY <1>1 DEF DeliveryInv, WorkersSound
  <1>3. CASE /\ Delivery!Settle(worker[w].job, worker[w].token,
                                Delivery!AfterFailure(worker[w].job), None)
             /\ worker' = [worker EXCEPT ![w].job = None]
    <2>1. Delivery!AfterFailure(worker[w].job) \in {"failed", "pending"}
      BY DEF Delivery!AfterFailure
    <2>2. Rows' /\ RowsKept
      BY <1>1, <1>2, <1>3, <2>1, SettleRows DEF DeliveryInv
    <2> QED BY <1>1, <1>3, <2>2, CallsEnd
  <1>4. CASE Delivery!Unwritten(w)
    <2>1. Rows' /\ RowsKept
      BY <1>1, <1>4, NoRowWritten DEF Delivery!Unwritten, DeliveryInv
    <2> QED BY <1>1, <1>4, <2>1, CallsEnd DEF Delivery!Unwritten
  <1> QED BY <1>3, <1>4 DEF Delivery!Timeout

\* A process dies, with its claim and its calls, and has another configuration.
LEMMA CrashKeeps ==
    ASSUME DeliveryInv, NEW w \in Workers, Delivery!Crash(w)
    PROVE  DeliveryInv' /\ RowsKept
  <1>1. PICK b \in Bindings : binding' = [binding EXCEPT ![w] = b]
    BY DEF Delivery!Crash
  <1>2. /\ worker' = [worker EXCEPT ![w] = Delivery!Resting]
        /\ calls' = {c \in calls : c.worker # w}
        /\ crashes < MaxCrashes /\ crashes' = crashes + 1
        /\ UNCHANGED <<jobs, inbox, received, requests, replies, retries>>
    BY DEF Delivery!Crash, Delivery!receiver, Delivery!network
  <1>3. /\ worker' \in [Workers -> WorkerRecord]
        /\ \A v \in Workers : worker'[v].job # None => worker'[v].job = worker[v].job
    BY <1>2, WorkerFree DEF DeliveryInv, Shapes
  <1>4. Rows' /\ RowsKept
    BY <1>2, NoRowWritten DEF DeliveryInv
  <1>5. crashes' \in 0..MaxCrashes
    BY <1>2, BoundsAssumption DEF DeliveryInv, Shapes
  <1>6. Shapes'
    BY <1>1, <1>2, <1>3, <1>5 DEF DeliveryInv, Shapes
  <1>7. WorkersSound'
    <2>1. \A c \in calls' : c \in calls /\ c.worker \in Workers /\ binding'[c.worker] = binding[c.worker]
      BY <1>1, <1>2 DEF DeliveryInv, Shapes
    <2> QED BY <1>2, <1>3, <2>1 DEF DeliveryInv, WorkersSound, Known
  <1>8. PacketsSound' /\ ReceiptsTrue'
    BY <1>2 DEF DeliveryInv, PacketsSound, ReceiptsTrue, Known
  <1> QED BY <1>4, <1>6, <1>7, <1>8 DEF DeliveryInv

\* The checks before a send.
LEMMA CheckKeeps ==
    ASSUME DeliveryInv, NEW c \in calls, Delivery!Check(c)
    PROVE  DeliveryInv' /\ RowsKept
  <1>1. UNCHANGED <<inbox, received, binding, requests, replies, retries, crashes>>
    BY DEF Delivery!Check, Delivery!receiver, Delivery!network, Delivery!bounds
  <1>2. CASE calls' = calls \ {c} /\ UNCHANGED <<jobs, worker>>
    BY <1>1, <1>2, CallDropped
  <1>3. CASE Delivery!Fails(c)
    BY <1>1, <1>3, FailsKeeps
  <1>4. CASE /\ Delivery!SameDestination(c)
             /\ calls' = (calls \ {c}) \union {[c EXCEPT !.phase = "allowed"]}
             /\ UNCHANGED <<jobs, worker>>
    <2>1. PICK next : next = [c EXCEPT !.phase = "allowed"]
      OBVIOUS
    <2>2. /\ next \in [worker : Workers, job : Deliveries, token : Nat,
                       phase : {"checking", "allowed", "sent"}]
          /\ next.job = c.job /\ next.worker = c.worker
      BY <2>1 DEF DeliveryInv, Shapes
    <2> QED BY <1>1, <1>4, <2>1, <2>2, CallGoesOn DEF Delivery!SameDestination
  <1> QED BY <1>2, <1>3, <1>4 DEF Delivery!Check

\* The request goes out, to the destination the call has checked.
LEMMA SendKeeps ==
    ASSUME DeliveryInv, NEW c \in calls, Delivery!Send(c)
    PROVE  DeliveryInv' /\ RowsKept
  <1>1. /\ c.phase = "allowed"
        /\ UNCHANGED <<inbox, received, binding, replies, retries, crashes>>
    BY DEF Delivery!Send, Delivery!receiver, Delivery!bounds
  <1>2. CASE calls' = calls \ {c} /\ UNCHANGED <<jobs, worker, requests>>
    BY <1>1, <1>2, CallDropped
  <1>3. CASE Delivery!Fails(c) /\ UNCHANGED requests
    BY <1>1, <1>3, FailsKeeps
  <1>4. CASE /\ requests' = requests \union
                   {[job |-> c.job, token |-> c.token, to |-> binding[c.worker]]}
             /\ calls' = (calls \ {c}) \union {[c EXCEPT !.phase = "sent"]}
             /\ UNCHANGED <<jobs, worker>>
    <2>1. PICK next : next = [c EXCEPT !.phase = "sent"]
      OBVIOUS
    <2>2. /\ next \in [worker : Workers, job : Deliveries, token : Nat,
                       phase : {"checking", "allowed", "sent"}]
          /\ next.job = c.job /\ next.worker = c.worker /\ next.phase = "sent"
      BY <2>1 DEF DeliveryInv, Shapes
    <2>3. binding[c.worker] \in Bindings /\ binding[c.worker] = jobs[c.job].binding
      BY <1>1 DEF DeliveryInv, Shapes, WorkersSound
    <2>4. PICK p : p = [job |-> c.job, token |-> c.token, to |-> binding[c.worker]]
      OBVIOUS
    <2>5. /\ p \in [job : Deliveries, token : Nat, to : Bindings]
          /\ p.job = c.job /\ p.to = jobs[c.job].binding /\ requests' = requests \union {p}
      BY <1>4, <2>3, <2>4 DEF DeliveryInv, Shapes
    <2> QED BY <1>1, <1>4, <2>1, <2>2, <2>5, CallGoesOn
  <1> QED BY <1>2, <1>3, <1>4 DEF Delivery!Send

\* A connection that breaks or a receiver that refuses.
LEMMA RefusedKeeps ==
    ASSUME DeliveryInv, NEW c \in calls, Delivery!Refused(c)
    PROVE  DeliveryInv' /\ RowsKept
  <1>1. UNCHANGED <<inbox, received, binding, requests, replies, retries, crashes>>
    BY DEF Delivery!Refused, Delivery!receiver, Delivery!network, Delivery!bounds
  <1>2. CASE calls' = calls \ {c} /\ UNCHANGED <<jobs, worker>>
    BY <1>1, <1>2, CallDropped
  <1>3. CASE Delivery!Fails(c)
    BY <1>1, <1>3, FailsKeeps
  <1> QED BY <1>2, <1>3 DEF Delivery!Refused


\* The receipt of a call: its worker still waits, or nobody does.
LEMMA ConfirmKeeps ==
    ASSUME DeliveryInv, NEW c \in calls, Delivery!Confirm(c)
    PROVE  DeliveryInv' /\ RowsKept
  <1>1. PICK r \in replies :
          /\ r.job = c.job /\ replies' = replies \ {r}
          /\ \/ Delivery!Return(c, "delivered", r.receipt)
             \/ Delivery!Fails(c)
             \/ calls' = calls \ {c} /\ UNCHANGED <<jobs, worker>>
    BY DEF Delivery!Confirm
  <1>2. /\ UNCHANGED <<inbox, received, binding, retries, crashes>>
        /\ requests' \subseteq requests /\ replies' \subseteq replies
    BY <1>1 DEF Delivery!Confirm, Delivery!receiver, Delivery!bounds
  <1>3. /\ r.receipt \in Nat /\ r.receipt # None
        /\ r.receipt = inbox[jobs[c.job].binding][c.job]
    BY <1>1, NoneAssumption DEF DeliveryInv, Shapes, PacketsSound
  <1>4. CASE Delivery!Return(c, "delivered", r.receipt)
    BY <1>2, <1>3, <1>4, ReturnKeeps
  <1>5. CASE Delivery!Fails(c)
    BY <1>2, <1>5, FailsKeeps
  <1>6. CASE calls' = calls \ {c} /\ UNCHANGED <<jobs, worker>>
    BY <1>2, <1>6, CallDropped
  <1> QED BY <1>1, <1>4, <1>5, <1>6

\* Nobody gets a packet or a receipt that is lost.
LEMMA LoseKeeps ==
    ASSUME DeliveryInv, Delivery!Lose
    PROVE  DeliveryInv' /\ RowsKept
  <1>1. /\ UNCHANGED <<jobs, inbox, received, binding, worker, calls, retries, crashes>>
        /\ requests' \subseteq requests /\ replies' \subseteq replies
    BY DEF Delivery!Lose, Delivery!receiver, Delivery!bounds
  <1>2. Rows' /\ RowsKept
    BY <1>1, NoRowWritten DEF DeliveryInv
  <1>3. Shapes' /\ WorkersSound' /\ ReceiptsTrue'
    BY <1>1 DEF DeliveryInv, Shapes, WorkersSound, ReceiptsTrue, Known
  <1>4. PacketsSound'
    BY <1>1 DEF DeliveryInv, PacketsSound, Known
  <1> QED BY <1>2, <1>3, <1>4 DEF DeliveryInv

\* The receiver keeps the first packet, and gives the receipt it keeps.
LEMMA ReceiveKeeps ==
    ASSUME DeliveryInv, NEW p \in requests, Delivery!Receive(p)
    PROVE  DeliveryInv' /\ RowsKept
  <1>1. /\ Known(p.job) /\ p.to \in Bindings /\ p.to = jobs[p.job].binding /\ p.token \in Nat
        /\ received \in Nat /\ inbox \in [Bindings -> [Deliveries -> 1..received \union {None}]]
    BY DEF DeliveryInv, Shapes, PacketsSound
  <1>2. /\ requests' = requests \ {p}
        /\ replies' = replies \union
             {[job |-> p.job, token |-> p.token, receipt |-> inbox'[p.to][p.job]]}
        /\ UNCHANGED <<jobs, binding, worker, calls, retries, crashes>>
    BY DEF Delivery!Receive, Delivery!bounds
  <1>3. /\ received' \in Nat
        /\ inbox' \in [Bindings -> [Deliveries -> 1..received' \union {None}]]
        /\ inbox'[p.to][p.job] \in Nat
        /\ \A b \in Bindings, d \in Deliveries :
              inbox'[b][d] # inbox[b][d] => b = p.to /\ d = p.job /\ inbox[b][d] = None
    <2>1. CASE Delivery!Unknown(p)
      <3>1. received' = received + 1 /\ inbox[p.to][p.job] = None
        BY <2>1 DEF Delivery!Receive, Delivery!Store, Delivery!Unknown
      <3>2. PICK n \in Nat : n = received + 1 /\ received' = n
        BY <1>1, <3>1
      <3>3. PICK row : row = [inbox[p.to] EXCEPT ![p.job] = n]
        OBVIOUS
      <3>4. inbox' = [inbox EXCEPT ![p.to] = row]
        BY <2>1, <3>2, <3>3 DEF Delivery!Receive, Delivery!Store, Delivery!Unknown
      <3>5. 1..received \subseteq 1..n /\ n \in 1..n
        BY <1>1, <3>2
      <3>6. /\ row \in [Deliveries -> 1..n \union {None}] /\ row[p.job] = n
            /\ \A d \in Deliveries : d # p.job => row[d] = inbox[p.to][d]
        BY <1>1, <3>3, <3>5 DEF Known
      <3>7. inbox' \in [Bindings -> [Deliveries -> 1..n \union {None}]]
        <4>1. \A b \in Bindings : inbox[b] \in [Deliveries -> 1..n \union {None}]
          BY <1>1, <3>5
        <4> QED BY <1>1, <3>4, <3>6, <4>1
      <3> QED BY <1>1, <3>1, <3>2, <3>4, <3>6, <3>7
    <2>2. CASE ~Delivery!Unknown(p)
      <3>1. received' = received /\ inbox' = inbox /\ inbox[p.to][p.job] # None
        BY <2>2 DEF Delivery!Receive, Delivery!Store, Delivery!Unknown, Delivery!receiver
      <3> QED BY <1>1, <3>1 DEF Known
    <2> QED BY <2>1, <2>2
  <1>4. PICK r : r = [job |-> p.job, token |-> p.token, receipt |-> inbox'[p.to][p.job]]
    OBVIOUS
  <1>5. /\ r \in [job : Deliveries, token : Nat, receipt : Nat]
        /\ r.job = p.job /\ r.receipt = inbox'[p.to][p.job] /\ replies' = replies \union {r}
    BY <1>1, <1>2, <1>3, <1>4 DEF Known
  <1>6. Rows' /\ RowsKept
    BY <1>2, NoRowWritten DEF DeliveryInv
  <1>7. Shapes'
    BY <1>2, <1>3, <1>5 DEF DeliveryInv, Shapes
  <1>8. WorkersSound'
    BY <1>2 DEF DeliveryInv, WorkersSound, Known
  <1>9. PacketsSound'
    <2>1. \A q \in requests' : Known(q.job)' /\ q.to = jobs'[q.job].binding
      BY <1>2 DEF DeliveryInv, PacketsSound, Known
    <2>2. \A q \in replies : q.receipt \in Nat /\ Known(q.job)
             /\ inbox[jobs[q.job].binding][q.job] = q.receipt /\ jobs[q.job].binding \in Bindings
      BY RowIsNoNone DEF DeliveryInv, PacketsSound, Shapes, Rows, Row, Known
    <2>3. \A q \in replies' : Known(q.job)' /\ inbox'[jobs'[q.job].binding][q.job] = q.receipt
      BY <1>1, <1>2, <1>3, <1>5, <2>2, NoneAssumption DEF Known
    <2>4. \A b \in Bindings, d \in Deliveries :
             inbox'[b][d] # None => Known(d)' /\ jobs'[d].binding = b
      BY <1>1, <1>2, <1>3 DEF DeliveryInv, PacketsSound, Known
    <2> QED BY <2>1, <2>3, <2>4 DEF PacketsSound
  <1>10. ReceiptsTrue'
    <2>1. \A d \in Deliveries : jobs[d] # None => jobs[d].binding \in Bindings
      BY DEF DeliveryInv, Rows, Row
    <2> QED BY <1>2, <1>3, <2>1 DEF DeliveryInv, ReceiptsTrue
  <1> QED BY <1>6, <1>7, <1>8, <1>9, <1>10 DEF DeliveryInv


------------------------------------------------------------------------------
(* The delivery as a whole. *)

\* The outbox and the inboxes begin empty, and every process with one configuration.
LEMMA DeliveryInit ==
    ASSUME Delivery!Init
    PROVE  DeliveryInv
  <1>1. PICK b \in Bindings : binding = [w \in Workers |-> b]
    BY DEF Delivery!Init
  <1>2. Rows /\ ReceiptsTrue
    BY DEF Delivery!Init, Rows, ReceiptsTrue
  <1>3. worker \in [Workers -> WorkerRecord]
    BY DEF Delivery!Init, Delivery!Resting, WorkerRecord
  <1>4. Shapes
    BY <1>1, <1>3, BoundsAssumption DEF Delivery!Init, Shapes
  <1>5. WorkersSound /\ PacketsSound
    BY DEF Delivery!Init, Delivery!Resting, WorkersSound, PacketsSound
  <1> QED BY <1>2, <1>4, <1>5 DEF DeliveryInv

\* Every step of the delivery keeps its invariant, and the rows it must keep.
LEMMA DeliveryStep ==
    ASSUME DeliveryInv, Delivery!Next
    PROVE  DeliveryInv' /\ RowsKept
  <1>1. CASE \E d \in Deliveries, w \in Workers : Delivery!Enqueue(d, w) \/ Delivery!Retry(d, w)
    BY <1>1, EnqueueKeeps, RetryKeeps
  <1>2. CASE \E w \in Workers : \/ Delivery!Claim(w) \/ Delivery!Rest(w)
                                \/ Delivery!Timeout(w) \/ Delivery!Crash(w)
    BY <1>2, ClaimKeeps, RestKeeps, TimeoutKeeps, CrashKeeps
  <1>3. CASE \E c \in calls : Delivery!Call(c)
    BY <1>3, CheckKeeps, SendKeeps, ConfirmKeeps, RefusedKeeps DEF Delivery!Call
  <1>4. CASE \E d \in Deliveries : Delivery!Due(d) \/ Delivery!Expire(d)
    BY <1>4, TimePasses
  <1>5. CASE \E p \in requests : Delivery!Receive(p)
    BY <1>5, ReceiveKeeps
  <1>6. CASE Delivery!Lose
    BY <1>6, LoseKeeps
  <1> QED BY <1>1, <1>2, <1>3, <1>4, <1>5, <1>6 DEF Delivery!Next

\* So does a step of something else.
LEMMA DeliveryStays ==
    ASSUME DeliveryInv, UNCHANGED Delivery!vars
    PROVE  DeliveryInv' /\ RowsKept
  <1>1. UNCHANGED <<jobs, inbox, received, binding, worker, calls, requests, replies, retries, crashes>>
    BY DEF Delivery!vars
  <1>2. Rows' /\ RowsKept
    BY <1>1, NoRowWritten DEF DeliveryInv
  <1>3. Shapes' /\ WorkersSound' /\ PacketsSound' /\ ReceiptsTrue'
    BY <1>1 DEF DeliveryInv, Shapes, WorkersSound, PacketsSound, ReceiptsTrue, Known
  <1> QED BY <1>2, <1>3 DEF DeliveryInv

\* What the invariant of the delivery says of jobs, receipts and destinations.
LEMMA DeliverySound ==
    ASSUME DeliveryInv
    PROVE  Delivery!JobsSound /\ Delivery!OnlyConfirmedDestination
  <1>1. Delivery!ReceiptIsTheReceivers
    BY DEF DeliveryInv, ReceiptsTrue, Rows, RowSound, Delivery!ReceiptIsTheReceivers, Delivery!Jobs
  <1>2. Delivery!AttemptsBounded
    <2> SUFFICES ASSUME NEW d \in Delivery!Jobs
                 PROVE  jobs[d].total <= MaxAttempts * (1 + retries)
      BY DEF Delivery!AttemptsBounded
    <2>1. jobs[d] \in Row /\ RowSound(jobs[d])
      BY DEF DeliveryInv, Rows, Delivery!Jobs
    <2>2. MaxAttempts \in Nat /\ retries \in Nat /\ 1 + retries = retries + 1
      BY BoundsAssumption DEF DeliveryInv, Shapes
    <2>3. /\ MaxAttempts * retries \in Nat
          /\ MaxAttempts * (1 + retries) = MaxAttempts * retries + MaxAttempts
      BY <2>2, OneMoreRound
    <2> QED BY <2>1, <2>2, <2>3 DEF RowSound, Row
  <1>3. Delivery!TypeOK
    <2>1. \A d \in Delivery!Jobs :
             /\ jobs[d] \in [status : Delivery!Statuses, attempts : 0..MaxAttempts, total : Nat,
                             due : BOOLEAN, leased : BOOLEAN, binding : Bindings,
                             receipt : 1..received \union {None}]
             /\ jobs[d].attempts <= jobs[d].total
             /\ jobs[d].leased => jobs[d].status = "sending"
             /\ (jobs[d].status = "delivered") = (jobs[d].receipt # None)
      <3> SUFFICES ASSUME NEW d \in Delivery!Jobs
                   PROVE  /\ jobs[d] \in [status : Delivery!Statuses, attempts : 0..MaxAttempts,
                                          total : Nat, due : BOOLEAN, leased : BOOLEAN,
                                          binding : Bindings, receipt : 1..received \union {None}]
                          /\ RowSound(jobs[d])
        BY DEF RowSound
      <3>1. d \in Deliveries /\ jobs[d] \in Row /\ RowSound(jobs[d])
        BY DEF DeliveryInv, Rows, Delivery!Jobs
      <3>2. jobs[d].attempts \in 0..MaxAttempts
        BY <3>1, BoundsAssumption DEF RowSound, Row
      <3>3. jobs[d].receipt \in 1..received \union {None}
        BY <3>1, RowIsNoNone DEF DeliveryInv, ReceiptsTrue, Shapes, Row
      <3> QED BY <3>1, <3>2, <3>3 DEF Row
    <2>2. calls \subseteq [worker : Workers, job : Delivery!Jobs, token : Nat,
                           phase : {"checking", "allowed", "sent"}]
      BY DEF DeliveryInv, Shapes, WorkersSound, Known, Delivery!Jobs
    <2> QED BY <2>1, <2>2 DEF DeliveryInv, Shapes, WorkerRecord, Delivery!TypeOK
  <1>4. Delivery!OnlyConfirmedDestination
    BY DEF DeliveryInv, PacketsSound, Known, Delivery!OnlyConfirmedDestination
  <1> QED BY <1>1, <1>2, <1>3, <1>4 DEF Delivery!JobsSound


------------------------------------------------------------------------------
(* Notices. *)

\* What no step does to a notice: a final status stays, and a message leaves
\* only while it is wanted.
FinalStays ==
    \A r \in Notices!Reminders :
        notices[r] # None /\ notices[r].status \in Notices!Final
            => notices'[r].status = notices[r].status

PostedWanted ==
    \A j \in sends' :
        j.at = "posted" /\ (~ \E i \in sends : i.token = j.token /\ i.at = "posted")
            => access /\ Notices!Outbound(j.reminder) /\ Notices!Owns(j)

\* No notice is the placeholder (slack_notices).
LEMMA NoticeIsNoNone ==
    ASSUME NEW n \in Notice
    PROVE  n # None
  BY NoneAssumption

\* A notice that exists is a row of slack_notices.
LEMMA NoticeShape ==
    ASSUME NoticesInv, NEW r \in Notices!Reminders, notices[r] # None
    PROVE  notices[r] \in Notice
  BY DEF NoticesInv, NoticeShapes

\* Of the sends, some go on and none is posted anew.
LEMMA NothingPosted ==
    ASSUME \A j \in sends' : j.at = "posted" => \E i \in sends : i.token = j.token /\ i.at = "posted"
    PROVE  PostedWanted
  BY DEF PostedWanted

\* Nothing changed but schedules, reminders and who may be told.
LEMMA NoticesUntouched ==
    ASSUME NoticesInv, EventsSound', schedule' \in ScheduleRecord,
           configured' \in Nat, sends' \subseteq sends,
           UNCHANGED <<notices, claims, shown, confirmed>>
    PROVE  NoticesInv' /\ FinalStays /\ PostedWanted
  <1>1. NoticeShapes' /\ TokensSound' /\ AnswersTrue'
    BY DEF NoticesInv, NoticeShapes, TokensSound, AnswersTrue
  <1>2. ShownSound'
    BY DEF NoticesInv, ShownSound, MayBeShown
  <1>3. FinalStays /\ PostedWanted
    BY NothingPosted DEF FinalStays
  <1> QED BY <1>1, <1>2, <1>3 DEF NoticesInv

\* One notice changes and no message is shown; sends may end.
LEMMA OneNotice ==
    ASSUME NoticesInv, NEW r \in Notices!Reminders, NEW row \in Notice,
           notices' = [notices EXCEPT ![r] = row],
           row.status = "retry_wait" => shown[r] <= confirmed[r],
           row.status = "provider_accepted" => shown[r] > 0,
           row.status = "sending" =>
             /\ notices[r] # None
             /\ notices[r].status = "sending"
             /\ row.token = notices[r].token,
           notices[r] # None /\ notices[r].status \in Notices!Final => row.status = notices[r].status,
           sends' \subseteq sends,
           UNCHANGED <<schedule, events, configured, claims, shown, confirmed>>
    PROVE  NoticesInv' /\ FinalStays /\ PostedWanted
  <1>1. /\ notices \in [Notices!Reminders -> Notice \union {None}]
        /\ notices'[r] = row /\ row # None
        /\ \A q \in Notices!Reminders : q # r => notices'[q] = notices[q]
    BY NoticeIsNoNone DEF NoticesInv, NoticeShapes
  <1>2. NoticeShapes' /\ EventsSound'
    BY <1>1 DEF NoticesInv, NoticeShapes, EventsSound
  <1>3. TokensSound' /\ AnswersTrue'
    BY <1>1 DEF NoticesInv, NoticeShapes, TokensSound, AnswersTrue, SendRecord
  <1>4. ShownSound'
    <2> SUFFICES ASSUME NEW q \in Notices!Reminders
        PROVE  /\ shown[q] <= 1 + confirmed[q]
               /\ notices'[q] = None => shown[q] <= confirmed[q]
               /\ notices'[q] # None =>
                    /\ notices'[q].status = "retry_wait" => shown[q] <= confirmed[q]
                    /\ notices'[q].status = "sending" => shown[q] <= confirmed[q] \/ MayBeShown(q)'
                    /\ notices'[q].status = "provider_accepted" => shown[q] > 0
      BY DEF ShownSound
    <2>1. CASE q = r
      BY <1>1, <2>1 DEF NoticesInv, ShownSound, MayBeShown
    <2>2. CASE q # r
      BY <1>1, <2>2 DEF NoticesInv, ShownSound, MayBeShown
    <2> QED BY <2>1, <2>2
  <1>5. FinalStays
    BY <1>1 DEF FinalStays
  <1>6. PostedWanted
    BY NothingPosted
  <1> QED BY <1>2, <1>3, <1>4, <1>5, <1>6 DEF NoticesInv


\* Of a notice being sent by a send that was not accepted nor left in doubt, the
\* message may go again.
LEMMA NotShownYet ==
    ASSUME NoticesInv, NEW j \in sends, notices[j.reminder].status = "sending",
           notices[j.reminder].token = j.token,
           j.at # "posted" \/ j.reply \notin {"ok", "internal_error"}
    PROVE  shown[j.reminder] <= confirmed[j.reminder]
  <1>1. j.reminder \in Notices!Reminders /\ notices[j.reminder] # None
    BY DEF NoticesInv, NoticeShapes, TokensSound, SendRecord
  <1> QED BY <1>1 DEF NoticesInv, ShownSound, MayBeShown

\* A send ends; its notice is settled if it still holds the lease.
LEMMA SettleKeeps ==
    ASSUME NoticesInv, NEW j \in sends, NEW status, NEW limited,
           status \in {"retry_wait", "unknown", "blocked", "provider_accepted"},
           status = "retry_wait" => j.at # "posted" \/ j.reply \notin {"ok", "internal_error"},
           status = "provider_accepted" => j.at = "posted" /\ j.reply = "ok",
           Notices!Settle(j, status, limited),
           UNCHANGED <<schedule, events, configured, claims, shown, confirmed>>
    PROVE  NoticesInv' /\ FinalStays /\ PostedWanted
  <1>1. /\ j.reminder \in Notices!Reminders /\ notices[j.reminder] # None
        /\ notices[j.reminder] \in Notice
    BY NoticeShape DEF NoticesInv, NoticeShapes, TokensSound, SendRecord
  <1>2. sends' = sends \ {j}
    BY DEF Notices!Settle
  <1>3. CASE ~(notices[j.reminder].status = "sending" /\ notices[j.reminder].token = j.token)
    <2>1. UNCHANGED notices
      BY <1>3 DEF Notices!Settle
    <2> QED BY <1>2, <2>1, NoticesUntouched DEF NoticesInv, NoticeShapes, EventsSound
  <1>4. CASE notices[j.reminder].status = "sending" /\ notices[j.reminder].token = j.token
    <2>1. PICK final \in {"failed", status} :
            notices' = [notices EXCEPT ![j.reminder].token = None, ![j.reminder].status = final]
      BY <1>4 DEF Notices!Settle
    <2>2. PICK row : row = [notices[j.reminder] EXCEPT !.token = None, !.status = final]
      OBVIOUS
    <2>3. notices' = [notices EXCEPT ![j.reminder] = row]
      BY <1>1, <2>1, <2>2 DEF NoticesInv, NoticeShapes
    <2>4. row \in Notice /\ row.status = final
      BY <1>1, <2>1, <2>2 DEF Notice, NoticeStatuses
    <2>5. row.status = "retry_wait" => shown[j.reminder] <= confirmed[j.reminder]
      BY <1>4, <2>1, <2>4, NotShownYet
    <2>6. row.status = "provider_accepted" => shown[j.reminder] > 0
      BY <2>1, <2>4 DEF NoticesInv, AnswersTrue
    <2>7. row.status # "sending" /\ notices[j.reminder].status \notin Notices!Final
      BY <1>4, <2>1, <2>4 DEF Notices!Final
    <2> QED BY <1>1, <1>2, <2>3, <2>4, <2>5, <2>6, <2>7, OneNotice
  <1> QED BY <1>3, <1>4

\* A send goes on; only its place, not its lease or its answer, changes.
LEMMA SendGoesOn ==
    ASSUME NoticesInv, NEW j \in sends, NEW next \in SendRecord,
           next.token = j.token, next.reminder = j.reminder,
           next.at = "posted" => j.at = "posted" /\ next.reply = j.reply,
           j.at = "posted" => next.at = "posted",
           sends' = (sends \ {j}) \union {next},
           UNCHANGED <<schedule, events, configured, notices, claims, shown, confirmed>>
    PROVE  NoticesInv' /\ FinalStays /\ PostedWanted
  <1>1. NoticeShapes' /\ EventsSound'
    BY DEF NoticesInv, NoticeShapes, EventsSound
  <1>2. TokensSound' /\ AnswersTrue'
    BY DEF NoticesInv, TokensSound, AnswersTrue
  <1>3. ShownSound'
    <2>1. \A r \in Notices!Reminders : MayBeShown(r) => MayBeShown(r)'
      BY DEF MayBeShown
    <2> QED BY <2>1 DEF NoticesInv, ShownSound
  <1>4. FinalStays /\ PostedWanted
    BY NothingPosted DEF FinalStays
  <1> QED BY <1>1, <1>2, <1>3, <1>4 DEF NoticesInv


------------------------------------------------------------------------------
(* Each step of schedules, reminders and notices. *)

\* A schedule is written: one more version, by this operation alone.
LEMMA WriteKeeps ==
    ASSUME NoticesInv, NEW op \in Edits, NEW expected, NEW next \in ScheduleRecord,
           Notices!Write(op, expected, next)
    PROVE  NoticesInv' /\ FinalStays /\ PostedWanted
  <1>1. /\ events[op] = None /\ schedule.version = expected
        /\ schedule' = [next EXCEPT !.version = expected + 1]
        /\ events' = [events EXCEPT ![op] = expected + 1]
        /\ UNCHANGED <<configured, notices, claims, sends, shown, confirmed>>
    BY DEF Notices!Write, Notices!Current, Notices!outside, Notices!told
  <1>2. PICK v \in Nat : v = schedule.version + 1
    BY DEF NoticesInv, NoticeShapes, ScheduleRecord
  <1>3. schedule' = [next EXCEPT !.version = v] /\ events' = [events EXCEPT ![op] = v]
    BY <1>1, <1>2
  <1>4. schedule' \in ScheduleRecord /\ schedule'.version = v
    BY <1>3 DEF ScheduleRecord
  <1>5. EventsSound'
    <2>1. /\ schedule.version \in Nat /\ 1..schedule.version \subseteq 1..v /\ v \in 1..v
          /\ \A u \in 1..v : u = v \/ u \in 1..schedule.version
          /\ v \notin 1..schedule.version
          /\ \A u \in 1..v : u # None
      BY <1>2, NoneAssumption DEF NoticesInv, NoticeShapes, ScheduleRecord
    <2>2. events \in [Edits -> 1..schedule.version \union {None}]
      BY DEF NoticesInv, EventsSound
    <2>3. events' \in [Edits -> 1..v \union {None}]
      BY <1>3, <2>1, <2>2
    <2>4. {o \in Edits : events'[o] = v} = {op}
      BY <1>3, <2>1, <2>2
    <2>5. ASSUME NEW u \in 1..schedule.version
          PROVE  \E o \in Edits : {e \in Edits : events'[e] = u} = {o}
      <3>1. PICK o \in Edits : {e \in Edits : events[e] = u} = {o}
        BY DEF NoticesInv, EventsSound
      <3>2. {e \in Edits : events'[e] = u} = {e \in Edits : events[e] = u}
        BY <1>1, <1>3, <2>1, <2>2
      <3> QED BY <3>1, <3>2
    <2> QED BY <1>4, <2>1, <2>3, <2>4, <2>5 DEF EventsSound
  <1> QED BY <1>1, <1>4, <1>5, NoticesUntouched DEF NoticesInv, NoticeShapes

\* Editors and reviewers write the schedule.
LEMMA EditsKeep ==
    ASSUME NoticesInv, NEW op \in Edits, NEW v, NEW deadline \in {"none", "later"},
           \/ \E assigned \in BOOLEAN : Notices!ScheduleReview(op, v, deadline, assigned)
           \/ Notices!CompleteReview(op, v, deadline)
    PROVE  NoticesInv' /\ FinalStays /\ PostedWanted
  <1>1. schedule \in ScheduleRecord
    BY DEF NoticesInv, NoticeShapes
  <1>2. CASE \E assigned \in BOOLEAN : Notices!ScheduleReview(op, v, deadline, assigned)
    <2>1. PICK assigned \in BOOLEAN : Notices!ScheduleReview(op, v, deadline, assigned)
      BY <1>2
    <2>2. PICK next : next = [schedule EXCEPT !.deadline = deadline, !.assigned = assigned,
                                              !.completed = FALSE]
      OBVIOUS
    <2>3. next \in ScheduleRecord
      BY <1>1, <2>2 DEF ScheduleRecord
    <2> QED BY <2>1, <2>2, <2>3, WriteKeeps DEF Notices!ScheduleReview
  <1>3. CASE Notices!CompleteReview(op, v, deadline)
    <2>1. PICK next : next = [schedule EXCEPT !.completed = TRUE, !.deadline = deadline]
      OBVIOUS
    <2>2. next \in ScheduleRecord
      BY <1>1, <2>1 DEF ScheduleRecord
    <2> QED BY <1>3, <2>1, <2>2, WriteKeeps DEF Notices!CompleteReview
  <1> QED BY <1>2, <1>3

\* Deadlines pass and reminders are made and read; people come and go; the
\* process restarts.
LEMMA OutsideKeeps ==
    ASSUME NoticesInv,
           \/ Notices!DeadlinePasses \/ Notices!FindCandidate \/ Notices!RecordReminder
           \/ \E r \in Notices!Reminders : Notices!ReadReminder(r)
           \/ Notices!LimitPasses \/ Notices!AccessChanges \/ Notices!Restart
    PROVE  NoticesInv' /\ FinalStays /\ PostedWanted
  <1>1. schedule' \in ScheduleRecord /\ schedule'.version = schedule.version /\ UNCHANGED events
    <2>1. CASE Notices!DeadlinePasses
      <3>1. PICK next \in {"due", "overdue"} : schedule' = [schedule EXCEPT !.deadline = next]
        BY <2>1 DEF Notices!DeadlinePasses
      <3> QED BY <2>1, <3>1
           DEF Notices!DeadlinePasses, NoticesInv, NoticeShapes, ScheduleRecord
    <2>2. CASE ~Notices!DeadlinePasses
      BY <2>2 DEF Notices!FindCandidate, Notices!RecordReminder, Notices!ReadReminder,
           Notices!LimitPasses, Notices!AccessChanges, Notices!Restart, Notices!reviews,
           NoticesInv, NoticeShapes
    <2> QED BY <2>1, <2>2
  <1>2. /\ configured' \in Nat /\ sends' \subseteq sends
        /\ UNCHANGED <<notices, claims, shown, confirmed>>
    BY DEF Notices!DeadlinePasses, Notices!FindCandidate, Notices!RecordReminder,
         Notices!ReadReminder, Notices!LimitPasses, Notices!AccessChanges, Notices!Restart,
         Notices!outside, Notices!told, NoticesInv, NoticeShapes
  <1>3. EventsSound'
    BY <1>1 DEF NoticesInv, EventsSound
  <1> QED BY <1>1, <1>2, <1>3, NoticesUntouched DEF NoticesInv, NoticeShapes


\* A lease runs out.
LEMMA LeaseExpiresKeeps ==
    ASSUME NoticesInv, NEW r \in Notices!Reminders, Notices!LeaseExpires(r)
    PROVE  NoticesInv' /\ FinalStays /\ PostedWanted
  <1>1. /\ notices[r] # None /\ notices[r].status = "sending"
        /\ notices' = [notices EXCEPT ![r].lapsed = TRUE]
        /\ UNCHANGED <<schedule, events, configured, claims, sends, shown, confirmed>>
    BY DEF Notices!LeaseExpires, Notices!reviews, Notices!told
  <1>2. notices[r] \in Notice
    BY <1>1, NoticeShape
  <1>3. PICK row : row = [notices[r] EXCEPT !.lapsed = TRUE]
    OBVIOUS
  <1>4. notices' = [notices EXCEPT ![r] = row]
    BY <1>1, <1>3
  <1>5. row \in Notice /\ row.status = "sending" /\ row.token = notices[r].token
    BY <1>1, <1>2, <1>3 DEF Notice
  <1> QED BY <1>1, <1>4, <1>5, OneNotice DEF Notices!Final

\* An expired lease is given up, or a new one is taken.
LEMMA NoticeClaimKeeps ==
    ASSUME NoticesInv, NEW r \in Notices!Reminders, Notices!Claim(r)
    PROVE  NoticesInv' /\ FinalStays /\ PostedWanted
  <1>1. UNCHANGED <<schedule, events, configured, shown, confirmed>>
    BY DEF Notices!Claim, Notices!reviews, Notices!told
  <1>2. CASE /\ Notices!Expired(r)
             /\ notices' = [notices EXCEPT ![r].status = "unknown", ![r].token = None]
             /\ UNCHANGED <<limit, claims, sends>>
    <2>1. notices[r] # None /\ notices[r].status = "sending" /\ notices[r] \in Notice
      BY <1>2, NoticeShape DEF Notices!Expired
    <2>2. PICK row : row = [notices[r] EXCEPT !.status = "unknown", !.token = None]
      OBVIOUS
    <2>3. notices' = [notices EXCEPT ![r] = row]
      BY <1>2, <2>2 DEF NoticesInv, NoticeShapes
    <2>4. row \in Notice /\ row.status = "unknown"
      BY <2>1, <2>2 DEF Notice, NoticeStatuses
    <2> QED BY <1>1, <1>2, <2>1, <2>3, <2>4, OneNotice DEF Notices!Final
  <1>3. CASE /\ Notices!Claimable(r) /\ claims' = claims + 1
             /\ notices' = [notices EXCEPT ![r] =
                  [status |-> "sending", token |-> claims', lapsed |-> FALSE, binding |-> configured,
                   attempts |-> IF notices[r] = None THEN 1 ELSE notices[r].attempts + 1]]
             /\ sends' = sends \union {[reminder |-> r, token |-> claims', at |-> "claimed",
                                        reply |-> None, cancelled |-> FALSE]}
    <2>1. PICK token \in Nat : token = claims + 1 /\ claims' = token
      BY <1>3 DEF NoticesInv, NoticeShapes
    <2>2. PICK n \in Nat : n = IF notices[r] = None THEN 1 ELSE notices[r].attempts + 1
      BY NoticeShape DEF Notice
    <2>3. PICK row : row = [status |-> "sending", token |-> token, lapsed |-> FALSE,
                            binding |-> configured, attempts |-> n]
      OBVIOUS
    <2>4. PICK send : send = [reminder |-> r, token |-> token, at |-> "claimed", reply |-> None,
                              cancelled |-> FALSE]
      OBVIOUS
    <2>5. notices' = [notices EXCEPT ![r] = row] /\ sends' = sends \union {send}
      BY <1>3, <2>1, <2>2, <2>3, <2>4
    <2>6. row \in Notice /\ row # None /\ row.status = "sending"
      BY <2>3, NoticeIsNoNone DEF Notice, NoticeStatuses, NoticesInv, NoticeShapes
    <2>7. /\ send \in SendRecord /\ send.reminder = r /\ send.token = token
          /\ send.at = "claimed"
      BY <2>4 DEF SendRecord
    <2>8. /\ notices'[r] = row
          /\ \A q \in Notices!Reminders : q # r => notices'[q] = notices[q]
      BY <2>5 DEF NoticesInv, NoticeShapes
    <2>9. /\ \A j \in sends : j.token \in 1..claims /\ j.token # token
          /\ 1..claims \subseteq 1..token /\ token \in 1..token
      BY <2>1 DEF NoticesInv, NoticeShapes, TokensSound
    <2>10. /\ shown[r] <= confirmed[r]
           /\ notices[r] # None => notices[r].status = "retry_wait"
      BY <1>3 DEF Notices!Claimable, NoticesInv, ShownSound
    <2>11. NoticeShapes' /\ EventsSound'
      BY <1>1, <2>1, <2>5, <2>6, <2>7 DEF NoticesInv, NoticeShapes, EventsSound
    <2>12. TokensSound'
      <3>1. \A j \in sends' : j.token \in 1..claims' /\ notices'[j.reminder] # None
        BY <2>1, <2>5, <2>6, <2>7, <2>8, <2>9
             DEF NoticesInv, NoticeShapes, TokensSound, SendRecord
      <3>2. \A i, j \in sends' : i.token = j.token => i = j
        BY <2>5, <2>7, <2>9 DEF NoticesInv, TokensSound
      <3> QED BY <3>1, <3>2 DEF TokensSound
    <2>13. ShownSound'
      <3> SUFFICES ASSUME NEW q \in Notices!Reminders
          PROVE  /\ shown[q] <= 1 + confirmed[q]
                 /\ notices'[q] = None => shown[q] <= confirmed[q]
                 /\ notices'[q] # None =>
                      /\ notices'[q].status = "retry_wait" => shown[q] <= confirmed[q]
                      /\ notices'[q].status = "sending" => shown[q] <= confirmed[q] \/ MayBeShown(q)'
                      /\ notices'[q].status = "provider_accepted" => shown[q] > 0
        BY <1>1 DEF ShownSound
      <3>1. CASE q = r
        BY <2>6, <2>8, <2>10, <3>1 DEF NoticesInv, ShownSound
      <3>2. CASE q # r
        <4>1. MayBeShown(q) => MayBeShown(q)'
          BY <2>5, <2>7, <2>8, <3>2 DEF MayBeShown
        <4> QED BY <2>8, <3>2, <4>1 DEF NoticesInv, ShownSound
      <3> QED BY <3>1, <3>2
    <2>14. AnswersTrue' /\ PostedWanted
      BY <1>1, <2>5, <2>7, NothingPosted DEF NoticesInv, AnswersTrue
    <2>15. FinalStays
      BY <2>8, <2>10 DEF FinalStays, Notices!Final
    <2> QED BY <2>11, <2>12, <2>13, <2>14, <2>15 DEF NoticesInv
  <1> QED BY <1>2, <1>3 DEF Notices!Claim

\* A person decides what becomes of a notice.
LEMMA ResolveKeeps ==
    ASSUME NoticesInv, NEW r \in Notices!Reminders,
           NEW outcome \in {"retry", "user_confirmed", "dismissed"}, Notices!Resolve(r, outcome)
    PROVE  NoticesInv' /\ FinalStays /\ PostedWanted
  <1>1. /\ notices[r] # None /\ notices[r] \in Notice
        /\ notices[r].status \notin Notices!Final
    <2>1. notices[r] # None /\ Notices!Effective(r) \in Notices!NeedsPerson
      BY DEF Notices!Resolve
    <2>2. CASE Notices!Expired(r)
      BY <2>1, <2>2, NoticeShape DEF Notices!Expired, Notices!Final
    <2>3. CASE ~Notices!Expired(r)
      BY <2>1, <2>3, NoticeShape DEF Notices!Effective, Notices!NeedsPerson, Notices!Final
    <2> QED BY <2>2, <2>3
  <1>2. UNCHANGED <<schedule, events, configured, claims, sends, shown>>
    BY DEF Notices!Resolve, Notices!reviews
  <1>3. CASE /\ outcome \in {"user_confirmed", "dismissed"}
             /\ notices' = [notices EXCEPT ![r].status = outcome, ![r].token = None]
             /\ UNCHANGED <<confirmed, faults>>
    <2>1. PICK row : row = [notices[r] EXCEPT !.status = outcome, !.token = None]
      OBVIOUS
    <2>2. notices' = [notices EXCEPT ![r] = row]
      BY <1>3, <2>1 DEF NoticesInv, NoticeShapes
    <2>3. row \in Notice /\ row.status = outcome
      BY <1>1, <1>3, <2>1 DEF Notice, NoticeStatuses
    <2> QED BY <1>1, <1>2, <1>3, <2>2, <2>3, OneNotice
  <1>4. CASE /\ confirmed' = [confirmed EXCEPT ![r] = @ + 1]
             /\ notices' = [notices EXCEPT ![r].status = "retry_wait", ![r].attempts = 0,
                                           ![r].token = None]
    <2>1. PICK row : row = [notices[r] EXCEPT !.status = "retry_wait", !.attempts = 0, !.token = None]
      OBVIOUS
    <2>2. notices' = [notices EXCEPT ![r] = row]
      BY <1>4, <2>1 DEF NoticesInv, NoticeShapes
    <2>3. row \in Notice /\ row.status = "retry_wait" /\ row # None
      BY <1>1, <2>1, NoticeIsNoNone DEF Notice, NoticeStatuses
    <2>4. /\ notices'[r] = row
          /\ \A q \in Notices!Reminders : q # r => notices'[q] = notices[q]
      BY <2>2 DEF NoticesInv, NoticeShapes
    <2>5. /\ confirmed' \in [Notices!Reminders -> Nat]
          /\ confirmed'[r] = confirmed[r] + 1
          /\ \A q \in Notices!Reminders : q # r => confirmed'[q] = confirmed[q]
      BY <1>4 DEF NoticesInv, NoticeShapes
    <2>6. NoticeShapes' /\ EventsSound'
      <3>1. notices' \in [Notices!Reminders -> Notice \union {None}]
        BY <2>2, <2>3 DEF NoticesInv, NoticeShapes
      <3> QED BY <1>2, <2>5, <3>1 DEF NoticesInv, NoticeShapes, EventsSound
    <2>7. TokensSound' /\ AnswersTrue'
      BY <1>2, <2>3, <2>4 DEF NoticesInv, NoticeShapes, TokensSound, AnswersTrue, SendRecord
    <2>8. ShownSound'
      <3> SUFFICES ASSUME NEW q \in Notices!Reminders
          PROVE  /\ shown[q] <= 1 + confirmed'[q]
                 /\ notices'[q] = None => shown[q] <= confirmed'[q]
                 /\ notices'[q] # None =>
                      /\ notices'[q].status = "retry_wait" => shown[q] <= confirmed'[q]
                      /\ notices'[q].status = "sending" => shown[q] <= confirmed'[q] \/ MayBeShown(q)'
                      /\ notices'[q].status = "provider_accepted" => shown[q] > 0
        BY <1>2 DEF ShownSound
      <3>1. CASE q = r
        <4>1. shown[r] \in Nat /\ confirmed[r] \in Nat /\ shown[r] <= 1 + confirmed[r]
          BY DEF NoticesInv, NoticeShapes, ShownSound
        <4> QED BY <2>3, <2>4, <2>5, <3>1, <4>1
      <3>2. CASE q # r
        <4>1. MayBeShown(q) => MayBeShown(q)'
          BY <1>2, <2>4, <3>2 DEF MayBeShown
        <4> QED BY <2>4, <2>5, <3>2, <4>1 DEF NoticesInv, ShownSound
      <3> QED BY <3>1, <3>2
    <2>9. FinalStays /\ PostedWanted
      BY <1>1, <1>2, <2>4, NothingPosted DEF FinalStays
    <2> QED BY <2>6, <2>7, <2>8, <2>9 DEF NoticesInv
  <1> QED BY <1>3, <1>4 DEF Notices!Resolve


\* The calls that only ask, and the first half of the checks before a post.
LEMMA AskVetKeep ==
    ASSUME NoticesInv, NEW j \in sends, Notices!Ask(j) \/ Notices!Vet(j)
    PROVE  NoticesInv' /\ FinalStays /\ PostedWanted
  <1>1. /\ j.at # "posted" /\ j \in SendRecord
        /\ UNCHANGED <<schedule, events, configured, claims, shown, confirmed>>
    BY DEF Notices!Ask, Notices!Vet, Notices!reviews, Notices!told, NoticesInv, NoticeShapes
  <1>2. CASE \E at \in {"opened", "vetted"} : Notices!Moved(j, at) /\ UNCHANGED <<notices, limit>>
    <2>1. PICK at \in {"opened", "vetted"} : Notices!Moved(j, at) /\ UNCHANGED notices
      BY <1>2
    <2>2. PICK next : next = [j EXCEPT !.at = at]
      OBVIOUS
    <2>3. /\ next \in SendRecord /\ next.token = j.token /\ next.reminder = j.reminder
          /\ next.at # "posted" /\ sends' = (sends \ {j}) \union {next}
      BY <1>1, <2>1, <2>2 DEF SendRecord, Notices!Moved
    <2> QED BY <1>1, <2>1, <2>3, SendGoesOn
  <1>3. CASE \E status \in {"retry_wait", "blocked"}, limited \in BOOLEAN :
                Notices!Settle(j, status, limited)
    BY <1>1, <1>3, SettleKeeps
  <1>4. Notices!Uncertain(j) = "retry_wait"
    BY <1>1 DEF Notices!Uncertain
  <1> QED BY <1>2, <1>3, <1>4 DEF Notices!Ask, Notices!Vet

\* What Slack answered, or that nothing did.
LEMMA FinishKeeps ==
    ASSUME NoticesInv, NEW j \in sends, Notices!Finish(j) \/ Notices!SettleCancelled(j)
    PROVE  NoticesInv' /\ FinalStays /\ PostedWanted
  <1>1. UNCHANGED <<schedule, events, configured, claims, shown, confirmed>>
    BY DEF Notices!Finish, Notices!SettleCancelled, Notices!reviews, Notices!told
  <1>2. CASE /\ j.at = "posted" /\ j.reply = "ok"
             /\ \E limited \in BOOLEAN : Notices!Settle(j, "provider_accepted", limited)
    BY <1>1, <1>2, SettleKeeps
  <1>3. CASE /\ j.reply = "limited"
             /\ \E limited \in BOOLEAN : Notices!Settle(j, "retry_wait", limited)
    BY <1>1, <1>3, SettleKeeps
  <1>4. CASE \E limited \in BOOLEAN : Notices!Settle(j, "blocked", limited)
    BY <1>1, <1>4, SettleKeeps
  <1>5. CASE \E limited \in BOOLEAN : Notices!Settle(j, Notices!Uncertain(j), limited)
    BY <1>1, <1>5, SettleKeeps DEF Notices!Uncertain
  <1> QED BY <1>2, <1>3, <1>4, <1>5 DEF Notices!Finish, Notices!SettleCancelled

\* The run ends; its send keeps its place.
LEMMA CancelKeeps ==
    ASSUME NoticesInv, NEW j \in sends, Notices!CancelRun(j)
    PROVE  NoticesInv' /\ FinalStays /\ PostedWanted
  <1>1. /\ sends' = (sends \ {j}) \union {[j EXCEPT !.cancelled = TRUE]}
        /\ j \in SendRecord
        /\ UNCHANGED <<schedule, events, configured, notices, claims, shown, confirmed>>
    BY DEF Notices!CancelRun, Notices!reviews, Notices!told, NoticesInv, NoticeShapes
  <1>2. PICK next : next = [j EXCEPT !.cancelled = TRUE]
    OBVIOUS
  <1>3. /\ next \in SendRecord /\ next.token = j.token /\ next.reminder = j.reminder
        /\ next.at = j.at /\ next.reply = j.reply
    BY <1>1, <1>2 DEF SendRecord
  <1> QED BY <1>1, <1>2, <1>3, SendGoesOn

\* The message leaves while it is wanted, and is shown at most once.
LEMMA PostKeeps ==
    ASSUME NoticesInv, NEW j \in sends, Notices!Post(j)
    PROVE  NoticesInv' /\ FinalStays /\ PostedWanted
  <1>1. /\ j.at = "vetted" /\ j \in SendRecord
        /\ UNCHANGED <<schedule, events, configured, claims, confirmed>>
    BY DEF Notices!Post, Notices!reviews, NoticesInv, NoticeShapes
  <1>2. CASE ~Notices!StillWanted(j)
    <2>1. (\E limited \in BOOLEAN : Notices!Settle(j, "blocked", limited)) /\ UNCHANGED shown
      BY <1>2 DEF Notices!Post
    <2> QED BY <1>1, <2>1, SettleKeeps
  <1>3. CASE Notices!StillWanted(j)
    <2>1. PICK isShown \in BOOLEAN : \E reply \in Notices!Replies(isShown) :
             /\ sends' = (sends \ {j}) \union {[j EXCEPT !.at = "posted", !.reply = reply]}
             /\ shown' = [shown EXCEPT ![j.reminder] = IF isShown THEN @ + 1 ELSE @]
      BY <1>3 DEF Notices!Post
    <2>2. PICK reply \in Notices!Replies(isShown) :
             /\ sends' = (sends \ {j}) \union {[j EXCEPT !.at = "posted", !.reply = reply]}
             /\ shown' = [shown EXCEPT ![j.reminder] = IF isShown THEN @ + 1 ELSE @]
      BY <2>1
    <2>3. /\ reply \in {"ok", "limited", "denied", "internal_error"}
          /\ isShown => reply \in {"ok", "internal_error"}
          /\ reply = "ok" => isShown
      BY DEF Notices!Replies
    <2>4. PICK next : next = [j EXCEPT !.at = "posted", !.reply = reply]
      OBVIOUS
    <2>5. /\ next \in SendRecord /\ next.token = j.token /\ next.reminder = j.reminder
          /\ next.at = "posted" /\ next.reply = reply
          /\ sends' = (sends \ {j}) \union {next}
      BY <1>1, <2>2, <2>3, <2>4 DEF SendRecord
    <2>6. PICK r \in Notices!Reminders : r = j.reminder
      BY <1>1 DEF SendRecord
    <2>7. /\ notices[r] # None /\ notices[r].status = "sending" /\ notices[r].token = j.token
          /\ UNCHANGED notices
      BY <1>3, <2>6 DEF Notices!Post, Notices!StillWanted, Notices!Owns, NoticesInv, TokensSound
    <2>8. shown[r] <= confirmed[r]
      BY <1>1, <2>6, <2>7, NotShownYet
    <2>9. /\ shown' \in [Notices!Reminders -> Nat]
          /\ shown[r] \in Nat /\ confirmed[r] \in Nat
          /\ shown'[r] = IF isShown THEN shown[r] + 1 ELSE shown[r]
          /\ \A q \in Notices!Reminders : q # r => shown'[q] = shown[q]
      BY <2>2, <2>6 DEF NoticesInv, NoticeShapes
    <2>10. NoticeShapes' /\ EventsSound'
      BY <1>1, <2>5, <2>7, <2>9 DEF NoticesInv, NoticeShapes, EventsSound
    <2>11. TokensSound'
      BY <1>1, <2>5, <2>7 DEF NoticesInv, TokensSound
    <2>12. isShown => MayBeShown(r)'
      BY <2>3, <2>5, <2>6, <2>7 DEF NoticesInv, TokensSound, MayBeShown
    <2>13. ShownSound'
      <3> SUFFICES ASSUME NEW q \in Notices!Reminders
          PROVE  /\ shown'[q] <= 1 + confirmed[q]
                 /\ notices[q] = None => shown'[q] <= confirmed[q]
                 /\ notices[q] # None =>
                      /\ notices[q].status = "retry_wait" => shown'[q] <= confirmed[q]
                      /\ notices[q].status = "sending" => shown'[q] <= confirmed[q] \/ MayBeShown(q)'
                      /\ notices[q].status = "provider_accepted" => shown'[q] > 0
        BY <1>1, <2>7 DEF ShownSound
      <3>1. CASE q = r
        BY <2>7, <2>8, <2>9, <2>12, <3>1
      <3>2. CASE q # r
        <4>1. MayBeShown(q) => MayBeShown(q)'
          BY <2>5, <2>6, <2>7, <3>2 DEF MayBeShown
        <4> QED BY <2>9, <3>2, <4>1 DEF NoticesInv, ShownSound
      <3> QED BY <3>1, <3>2
    <2>14. AnswersTrue'
      <3>1. \A q \in Notices!Reminders : shown[q] > 0 => shown'[q] > 0
        BY <2>9
      <3>2. \A i \in sends : i.reminder \in Notices!Reminders
        BY DEF NoticesInv, NoticeShapes, SendRecord
      <3> QED BY <2>3, <2>5, <2>6, <2>9, <3>1, <3>2 DEF NoticesInv, AnswersTrue
    <2>15. FinalStays
      BY <2>7 DEF FinalStays
    <2>16. PostedWanted
      <3>1. access /\ Notices!Outbound(j.reminder) /\ Notices!Owns(j)
        BY <1>3 DEF Notices!StillWanted
      <3>2. Notices!Outbound(next.reminder) /\ Notices!Owns(next)
        BY <2>5, <3>1 DEF Notices!Owns
      <3> QED BY <2>5, <3>1, <3>2 DEF PostedWanted
    <2> QED BY <2>10, <2>11, <2>13, <2>14, <2>15, <2>16 DEF NoticesInv
  <1> QED BY <1>2, <1>3


------------------------------------------------------------------------------
(* Schedules, reminders and notices as a whole. *)

\* No version, no notice and no message yet.
LEMMA NoticesInit ==
    ASSUME Notices!Init
    PROVE  NoticesInv
  <1>1. schedule \in ScheduleRecord
    BY DEF Notices!Init, ScheduleRecord
  <1>2. NoticeShapes /\ EventsSound
    BY <1>1 DEF Notices!Init, NoticeShapes, EventsSound
  <1>3. TokensSound /\ ShownSound /\ AnswersTrue
    BY DEF Notices!Init, TokensSound, ShownSound, AnswersTrue
  <1> QED BY <1>2, <1>3 DEF NoticesInv

\* Every step of them keeps their invariant, what was settled and what may leave.
LEMMA NoticesStep ==
    ASSUME NoticesInv, Notices!Next
    PROVE  NoticesInv' /\ FinalStays /\ PostedWanted
  <1>1. CASE \E op \in Edits, v \in 0..MaxVersion, deadline \in {"none", "later"} :
               \/ \E assigned \in BOOLEAN : Notices!ScheduleReview(op, v, deadline, assigned)
               \/ Notices!CompleteReview(op, v, deadline)
    BY <1>1, EditsKeep
  <1>2. CASE \/ Notices!DeadlinePasses \/ Notices!FindCandidate \/ Notices!RecordReminder
             \/ \E r \in Notices!Reminders : Notices!ReadReminder(r)
             \/ Notices!LimitPasses \/ Notices!AccessChanges \/ Notices!Restart
    BY <1>2, OutsideKeeps
  <1>3. CASE \E r \in Notices!Reminders : Notices!Claim(r) \/ Notices!LeaseExpires(r)
    BY <1>3, NoticeClaimKeeps, LeaseExpiresKeeps
  <1>4. CASE \E j \in sends : \/ Notices!Ask(j) \/ Notices!Vet(j) \/ Notices!Post(j)
                              \/ Notices!Finish(j) \/ Notices!CancelRun(j)
                              \/ Notices!SettleCancelled(j)
    BY <1>4, AskVetKeep, PostKeeps, FinishKeeps, CancelKeeps
  <1>5. CASE \E r \in Notices!Reminders, outcome \in {"retry", "user_confirmed", "dismissed"} :
               Notices!Resolve(r, outcome)
    BY <1>5, ResolveKeeps
  <1> QED BY <1>1, <1>2, <1>3, <1>4, <1>5 DEF Notices!Next

\* So does a step of something else.
LEMMA NoticesStay ==
    ASSUME NoticesInv, UNCHANGED Notices!vars
    PROVE  NoticesInv' /\ FinalStays /\ PostedWanted
  <1>1. UNCHANGED <<schedule, events, configured, notices, claims, sends, shown, confirmed>>
    BY DEF Notices!vars, Notices!reviews, Notices!told
  <1>2. EventsSound' /\ schedule' \in ScheduleRecord /\ configured' \in Nat
    BY <1>1 DEF NoticesInv, NoticeShapes, EventsSound
  <1> QED BY <1>1, <1>2, NoticesUntouched

\* What the invariant says of messages, versions and acceptances.
LEMMA NoticesSound ==
    ASSUME NoticesInv
    PROVE  /\ Notices!NothingTwice
           /\ \A r \in Notices!Reminders :
                notices[r] # None /\ notices[r].status = "provider_accepted" => shown[r] > 0
  BY DEF NoticesInv, ShownSound, EventsSound, Notices!NothingTwice, Notices!NoSilentDuplicate,
       Notices!EachVersionOneEvent

------------------------------------------------------------------------------
(* A worker that waits. *)

\* Whoever waits for a call holds the lease of its job, and is the only one to
\* wait for it.
Waits ==
    /\ \A v \in Workers : worker[v].job # None => Delivery!Holds(worker[v].job, worker[v].token)
    /\ \A u, v \in Workers : worker[v].job # None /\ worker[u].job = worker[v].job => u = v

\* No worker takes a job whose worker still waits.
NobodyTakesOver ==
    \A u, v \in Workers :
        worker[v].job # None /\ (Delivery!Claim(u) \/ Delivery!Rest(u))
            => ~Delivery!Expired(jobs[worker[v].job])

\* The lease of a claim is longer than the deadline of its call (runOnce,
\* delivery-worker.ts:45): it does not run out while the worker waits.
LeaseOutlivesDeadline ==
    \A v \in Workers : worker[v].job # None => ~Delivery!Expired(jobs[worker[v].job])

\* Workers stop waiting or go on, and leave the rows of those who wait to them.
LEMMA OthersWait ==
    ASSUME Waits,
           \A v \in Workers : worker'[v].job # None =>
               /\ worker'[v].job = worker[v].job /\ worker'[v].token = worker[v].token
               /\ jobs'[worker[v].job].status = jobs[worker[v].job].status
               /\ jobs'[worker[v].job].total = jobs[worker[v].job].total
    PROVE  Waits'
  BY DEF Waits, Delivery!Holds

\* A worker whose job is settled under its own claim no longer waits for it.
LEMMA SettledWaits ==
    ASSUME DeliveryInv, Waits, NEW w \in Workers, worker[w].job # None, NEW status, NEW receipt,
           Delivery!Settle(worker[w].job, worker[w].token, status, receipt),
           worker' = [worker EXCEPT ![w].job = None]
    PROVE  Waits'
  <1>1. worker \in [Workers -> WorkerRecord] /\ jobs \in [Deliveries -> Row \union {None}]
    BY DEF DeliveryInv, Shapes, Rows
  <1>2. worker'[w].job = None /\ \A v \in Workers : v # w => worker'[v] = worker[v]
    BY <1>1 DEF WorkerRecord
  <1>3. \A e \in Deliveries : e # worker[w].job => jobs'[e] = jobs[e]
    BY <1>1 DEF Delivery!Settle
  <1>4. \A v \in Workers : worker[v].job # None /\ v # w =>
            worker[v].job \in Deliveries /\ worker[v].job # worker[w].job
    BY <1>1 DEF Waits, WorkerRecord
  <1> QED BY <1>2, <1>3, <1>4, OthersWait

\* A worker that rests waits for nothing.
LEMMA RestedWaits ==
    ASSUME DeliveryInv, Waits, NEW w \in Workers, Delivery!Unwritten(w)
    PROVE  Waits'
  <1>1. worker \in [Workers -> WorkerRecord] /\ jobs' = jobs
        /\ worker' = [worker EXCEPT ![w] = Delivery!Resting]
    BY DEF DeliveryInv, Shapes, Delivery!Unwritten
  <1>2. \A v \in Workers : worker'[v].job # None => worker'[v] = worker[v]
    BY <1>1 DEF Delivery!Resting
  <1> QED BY <1>1, <1>2, OthersWait

\* A call fails while its worker waits.
LEMMA FailsWaits ==
    ASSUME DeliveryInv, Waits, NEW c \in calls, Delivery!Awaited(c), NEW status, NEW receipt,
           Delivery!Fails(c) \/ Delivery!Return(c, status, receipt)
    PROVE  Waits'
  <1>1. /\ c.worker \in Workers /\ c.job # None
        /\ worker[c.worker].job = c.job /\ worker[c.worker].token = c.token
    BY NoneAssumption DEF DeliveryInv, Shapes, Delivery!Awaited
  <1>2. ASSUME NEW s, NEW r, Delivery!Return(c, s, r)
        PROVE  Waits'
    BY <1>1, <1>2, SettledWaits DEF Delivery!Return
  <1> QED BY <1>1, <1>2, RestedWaits DEF Delivery!Fails

\* A call goes on or ends without a trace, the network loses or delivers, and time
\* passes.
LEMMA CallWaits ==
    ASSUME DeliveryInv, Waits, NEW c \in calls, Delivery!Call(c)
    PROVE  Waits'
  <1>1. CASE UNCHANGED <<jobs, worker>>
    BY <1>1, OthersWait
  <1>2. CASE Delivery!Awaited(c) /\ \E s, r : Delivery!Fails(c) \/ Delivery!Return(c, s, r)
    BY <1>2, FailsWaits
  <1>3. \/ UNCHANGED <<jobs, worker>>
        \/ Delivery!Awaited(c) /\ \E s, r : Delivery!Fails(c) \/ Delivery!Return(c, s, r)
    <2>1. CASE Delivery!Check(c)
      BY <2>1 DEF Delivery!Check
    <2>2. CASE Delivery!Send(c)
      BY <2>2 DEF Delivery!Send
    <2>3. CASE Delivery!Confirm(c)
      BY <2>3 DEF Delivery!Confirm
    <2>4. CASE Delivery!Refused(c)
      BY <2>4 DEF Delivery!Refused
    <2> QED BY <2>1, <2>2, <2>3, <2>4 DEF Delivery!Call
  <1> QED BY <1>1, <1>2, <1>3

\* A claim: its job was nobody's, and the sweep spares those that are somebody's.
LEMMA ClaimWaits ==
    ASSUME DeliveryInv, Waits, NEW w \in Workers, Delivery!Claim(w) \/ Delivery!Rest(w), NobodyTakesOver
    PROVE  Waits'
  <1>1. /\ worker \in [Workers -> WorkerRecord] /\ jobs \in [Deliveries -> Row \union {None}]
        /\ worker[w].job = None
    BY DEF DeliveryInv, Shapes, Rows, Delivery!Claim, Delivery!Rest
  <1>2. \A v \in Workers : worker[v].job # None =>
          /\ Known(worker[v].job) /\ jobs[worker[v].job].status = "sending"
          /\ ~Delivery!Expired(jobs[worker[v].job])
    BY DEF DeliveryInv, WorkersSound, Waits, Delivery!Holds, NobodyTakesOver
  <1>3. \A v \in Workers : worker[v].job # None =>
          /\ Delivery!Swept[worker[v].job] = jobs[worker[v].job]
          /\ ~Delivery!Claimable(jobs[worker[v].job])
    BY <1>2 DEF Delivery!Swept, Delivery!Exhausted, Delivery!Claimable, Known
  <1>4. CASE Delivery!Rest(w)
    <2>1. jobs' = Delivery!Swept /\ worker' = [worker EXCEPT ![w] = Delivery!Resting]
      BY <1>4 DEF Delivery!Rest
    <2>2. \A v \in Workers : worker'[v].job # None => worker'[v] = worker[v]
      BY <1>1, <2>1 DEF Delivery!Resting
    <2> QED BY <1>3, <2>1, <2>2, OthersWait
  <1>5. CASE Delivery!Claim(w)
    <2>1. PICK d \in Delivery!Open(w) :
          /\ jobs' = [Delivery!Swept EXCEPT ![d] = Delivery!Leased(Delivery!Swept[d])]
          /\ worker' = [worker EXCEPT ![w] = [job |-> d, token |-> jobs'[d].total,
                                              attempted |-> @.attempted \union {d}]]
      BY <1>5 DEF Delivery!Claim
    <2>2. Known(d) /\ Delivery!Claimable(Delivery!Swept[d]) /\ d # None
      BY <2>1, NoneAssumption DEF Delivery!Open, Delivery!Jobs, Known
    <2>3. \A v \in Workers : worker[v].job # None => worker[v].job # d
      BY <1>3, <2>2
    <2>4. \A e \in Deliveries : e # d => jobs'[e] = Delivery!Swept[e]
      BY <2>1 DEF Delivery!Swept
    <2>5. jobs'[d] = Delivery!Leased(Delivery!Swept[d])
      BY <2>1, <2>2 DEF Delivery!Swept, Known
    <2>6. jobs'[d].status = "sending"
      <3>1. Delivery!Swept[d] \in Row
        BY <2>2, SweptRows DEF DeliveryInv, Known
      <3> QED BY <2>5, <3>1 DEF Delivery!Leased, Row
    <2>7. /\ worker'[w].job = d /\ worker'[w].token = jobs'[d].total
          /\ \A v \in Workers : v # w => worker'[v] = worker[v]
      BY <1>1, <2>1
    <2>8. \A v \in Workers : v # w /\ worker[v].job # None =>
            jobs'[worker[v].job] = jobs[worker[v].job]
      BY <1>2, <1>3, <2>3, <2>4 DEF Known
    <2> QED BY <2>3, <2>6, <2>7, <2>8 DEF Waits, Delivery!Holds
  <1> QED BY <1>4, <1>5

\* Every step, as long as nobody takes a job over from one who waits.
LEMMA WaitsStep ==
    ASSUME DeliveryInv, Waits, Delivery!Next, NobodyTakesOver
    PROVE  Waits'
  <1>1. /\ worker \in [Workers -> WorkerRecord] /\ jobs \in [Deliveries -> Row \union {None}]
        /\ \A v \in Workers : worker[v].job # None =>
             Known(worker[v].job) /\ jobs[worker[v].job].status = "sending"
    BY DEF DeliveryInv, Shapes, Rows, WorkersSound, Waits, Delivery!Holds
  <1>2. ASSUME NEW d \in Deliveries, NEW w \in Workers, Delivery!Enqueue(d, w) \/ Delivery!Retry(d, w)
        PROVE  Waits'
    <2>1. /\ worker' = worker /\ \A e \in Deliveries : e # d => jobs'[e] = jobs[e]
          /\ jobs[d] = None \/ jobs[d].status \in {"failed", "blocked"}
      BY <1>1, <1>2 DEF Delivery!Enqueue, Delivery!Retry
    <2> QED BY <1>1, <2>1, OthersWait DEF Known
  <1>3. ASSUME NEW w \in Workers, Delivery!Claim(w) \/ Delivery!Rest(w)
        PROVE  Waits'
    BY <1>3, ClaimWaits
  <1>4. ASSUME NEW w \in Workers, Delivery!Timeout(w)
        PROVE  Waits'
    BY <1>4, SettledWaits, RestedWaits DEF Delivery!Timeout
  <1>5. ASSUME NEW w \in Workers, Delivery!Crash(w)
        PROVE  Waits'
    <2>1. jobs' = jobs /\ worker' = [worker EXCEPT ![w] = Delivery!Resting]
      BY <1>5 DEF Delivery!Crash
    <2> QED BY <2>1, RestedWaits DEF Delivery!Unwritten
  <1>6. ASSUME NEW c \in calls, Delivery!Call(c)
        PROVE  Waits'
    BY <1>6, CallWaits
  <1>7. ASSUME NEW d \in Deliveries, Delivery!Due(d) \/ Delivery!Expire(d)
        PROVE  Waits'
    <2>1. PICK row : /\ row \in {[jobs[d] EXCEPT !.due = TRUE], [jobs[d] EXCEPT !.leased = FALSE]}
                     /\ jobs' = [jobs EXCEPT ![d] = row] /\ worker' = worker /\ jobs[d] # None
      <3>1. \/ jobs' = [jobs EXCEPT ![d] = [jobs[d] EXCEPT !.due = TRUE]]
            \/ jobs' = [jobs EXCEPT ![d] = [jobs[d] EXCEPT !.leased = FALSE]]
        BY <1>7 DEF Delivery!Due, Delivery!Expire
      <3> QED BY <1>7, <3>1 DEF Delivery!Due, Delivery!Expire
    <2>2. row.status = jobs[d].status /\ row.total = jobs[d].total
      BY <1>1, <2>1 DEF Row
    <2>3. \A e \in Deliveries : jobs'[e].status = jobs[e].status /\ jobs'[e].total = jobs[e].total
      BY <1>1, <2>1, <2>2
    <2> QED BY <1>1, <2>1, <2>3, OthersWait DEF Known
  <1>8. CASE (\E p \in requests : Delivery!Receive(p)) \/ Delivery!Lose
    BY <1>8, OthersWait DEF Delivery!Receive, Delivery!Lose
  <1> QED BY <1>2, <1>3, <1>4, <1>5, <1>6, <1>7, <1>8 DEF Delivery!Next

\* Only a call whose worker waits sends a packet.
LEMMA SentInTime ==
    ASSUME DeliveryInv, Waits, Delivery!Next
    PROVE  \A p \in requests' \ requests : Delivery!Holds(p.job, p.token)
  <1>1. ASSUME NEW c \in calls, Delivery!Send(c)
        PROVE  \A p \in requests' \ requests : Delivery!Holds(p.job, p.token)
    <2>1. CASE requests' = requests
      BY <2>1
    <2>2. CASE /\ Delivery!InTime(c)
               /\ requests' = requests \union
                    {[job |-> c.job, token |-> c.token, to |-> binding[c.worker]]}
      <3>1. /\ c.worker \in Workers /\ c.job # None
            /\ worker[c.worker].job = c.job /\ worker[c.worker].token = c.token
        BY <2>2, NoneAssumption DEF DeliveryInv, Shapes, Delivery!InTime, Delivery!Awaited
      <3>2. Delivery!Holds(c.job, c.token)
        BY <3>1 DEF Waits
      <3> QED BY <2>2, <3>2
    <2> QED BY <1>1, <2>1, <2>2 DEF Delivery!Send
  <1>2. CASE requests' \subseteq requests
    BY <1>2
  <1>3. requests' \subseteq requests \/ \E c \in calls : Delivery!Send(c)
    <2>1. ASSUME NEW d \in Deliveries, NEW w \in Workers,
                 Delivery!Enqueue(d, w) \/ Delivery!Retry(d, w)
          PROVE  requests' \subseteq requests
      BY <2>1 DEF Delivery!Enqueue, Delivery!Retry, Delivery!network
    <2>2. ASSUME NEW w \in Workers,
                 Delivery!Claim(w) \/ Delivery!Rest(w) \/ Delivery!Timeout(w) \/ Delivery!Crash(w)
          PROVE  requests' \subseteq requests
      BY <2>2 DEF Delivery!Claim, Delivery!Rest, Delivery!Timeout, Delivery!Crash, Delivery!network
    <2>3. ASSUME NEW c \in calls, Delivery!Call(c)
          PROVE  requests' \subseteq requests \/ Delivery!Send(c)
      BY <2>3 DEF Delivery!Call, Delivery!Check, Delivery!Confirm, Delivery!Refused, Delivery!network
    <2>4. CASE (\E p \in requests : Delivery!Receive(p)) \/ Delivery!Lose
      BY <2>4 DEF Delivery!Receive, Delivery!Lose
    <2>5. ASSUME NEW d \in Deliveries, Delivery!Due(d) \/ Delivery!Expire(d)
          PROVE  requests' \subseteq requests
      BY <2>5 DEF Delivery!Due, Delivery!Expire, Delivery!network
    <2> QED BY <2>1, <2>2, <2>3, <2>4, <2>5 DEF Delivery!Next
  <1> QED BY <1>1, <1>2, <1>3

------------------------------------------------------------------------------
(* Theorems. *)

\* The invariant of both outboxes is inductive, and every step of either one
\* respects what a step may never do.
LEMMA Inductive ==
    /\ Init => Inv
    /\ Inv /\ [Next]_vars => Inv' /\ RowsKept /\ FinalStays /\ PostedWanted
  <1>1. Init => Inv
    BY DeliveryInit, NoticesInit DEF Init, Inv
  <1>2. ASSUME Inv, [Next]_vars
        PROVE  Inv' /\ RowsKept /\ FinalStays /\ PostedWanted
    <2>1. CASE part = "delivery" /\ Delivery!Next /\ UNCHANGED <<part, slack>>
      <3>1. UNCHANGED Notices!vars
        BY <2>1 DEF slack, Notices!vars, Notices!reviews, Notices!told
      <3> QED BY <1>2, <2>1, <3>1, DeliveryStep, NoticesStay DEF Inv
    <2>2. CASE part = "notices" /\ Notices!Next /\ UNCHANGED <<part, delivery>>
      <3>1. UNCHANGED Delivery!vars
        BY <2>2 DEF delivery, Delivery!vars
      <3> QED BY <1>2, <2>2, <3>1, NoticesStep, DeliveryStays DEF Inv
    <2>3. CASE UNCHANGED vars
      <3>1. UNCHANGED Delivery!vars /\ UNCHANGED Notices!vars
        BY <2>3 DEF vars, delivery, slack, Delivery!vars, Notices!vars, Notices!reviews, Notices!told
      <3> QED BY <1>2, <3>1, DeliveryStays, NoticesStay DEF Inv
    <2> QED BY <1>2, <2>1, <2>2, <2>3 DEF Next
  <1> QED BY <1>1, <1>2

\* The inductive invariant holds throughout.
LEMMA Holding == Spec => []Inv
  BY Inductive, PTL DEF Spec

\* Rows, leases, attempts and receipts agree with what receivers keep, whoever
\* crashes and whatever is lost (settle and claim, review-delivery-store.ts).
THEOREM DeliveriesSound == Spec => []JobsSound
  <1>1. Inv => JobsSound
    BY DeliverySound DEF Inv, JobsSound
  <1> QED BY <1>1, Holding, PTL

\* A receiver other than the one on display never gets the comment (deliver,
\* apps/api/review-delivery.ts).
THEOREM DestinationKept == Spec => []OnlyConfirmedDestination
  <1>1. Inv => OnlyConfirmedDestination
    BY DeliverySound DEF Inv, OnlyConfirmedDestination
  <1> QED BY <1>1, Holding, PTL

\* What is settled stays, but for a person's retry of a failed or blocked job
\* (settle, review-delivery-store.ts).
THEOREM SettledJobsStay == Spec => LateAnswersChangeNothing
  <1>1. Inv /\ [Next]_vars =>
          [\A d \in Delivery!Jobs : jobs[d].status \in Delivery!Ended /\ jobs'[d] # jobs[d] =>
               jobs[d].status # "delivered" /\ retries' = retries + 1]_Delivery!vars
    BY Inductive DEF RowsKept, Delivery!Jobs
  <1> QED BY <1>1, Holding, PTL DEF Spec, LateAnswersChangeNothing, Delivery!LateAnswersChangeNothing

\* No message more often than once and once per confirmed retry; every version of
\* a schedule has its one operation (claim in slack-notice-store.ts, write in
\* review-store.ts).
THEOREM CountedOnce == Spec => []NothingTwice
  <1>1. Inv => NothingTwice
    BY NoticesSound DEF Inv, NothingTwice
  <1> QED BY <1>1, Holding, PTL

\* A message is posted by the holder of the lease while it is wanted; acceptance
\* means that it was shown, and what was settled for good stays (send in slack.ts,
\* settle and resolve in slack-notice-store.ts).
THEOREM NoticesHonest == Spec => NoticesTrue
  <1>1. Inv /\ [Next]_vars =>
          [\A j \in sends' :
               (j.at = "posted" /\ ~ \E i \in sends : i.token = j.token /\ i.at = "posted")
                 => access /\ Notices!Outbound(j.reminder) /\ Notices!Owns(j)]_Notices!vars
    BY Inductive DEF PostedWanted
  <1>2. Inv /\ [Next]_vars =>
          [\A r \in Notices!Reminders :
               (notices[r] # None /\ notices[r].status \in Notices!Final)
                 => notices'[r].status = notices[r].status]_Notices!vars
    BY Inductive DEF FinalStays
  <1>3. Inv => \A r \in Notices!Reminders :
                 (notices[r] # None /\ notices[r].status = "provider_accepted") => shown[r] > 0
    BY NoticesSound DEF Inv
  <1> QED BY <1>1, <1>2, <1>3, Holding, PTL
       DEF Spec, NoticesTrue, Notices!NoticesTrue, Notices!PostedWhileCurrent, Notices!ResolutionsStand

\* Whoever waits for a call goes on holding its lease, and what is sent is sent for
\* those who wait.
LEMMA WaitsInductive ==
    /\ Init => Waits
    /\ Inv /\ Waits /\ [Next]_vars /\ NobodyTakesOver =>
         /\ Waits'
         /\ [\A p \in requests' \ requests : Delivery!Holds(p.job, p.token)]_Delivery!vars
  <1>1. Init => Waits
    BY DEF Init, Delivery!Init, Delivery!Resting, Waits
  <1>2. ASSUME Inv, Waits, [Next]_vars, NobodyTakesOver
        PROVE  /\ Waits'
               /\ [\A p \in requests' \ requests : Delivery!Holds(p.job, p.token)]_Delivery!vars
    <2>1. CASE Delivery!Next
      BY <1>2, <2>1, WaitsStep, SentInTime DEF Inv
    <2>2. CASE UNCHANGED Delivery!vars
      <3>1. UNCHANGED <<jobs, worker>>
        BY <2>2 DEF Delivery!vars
      <3> QED BY <1>2, <2>2, <3>1, OthersWait
    <2>3. Delivery!Next \/ UNCHANGED Delivery!vars
      BY <1>2 DEF Next, vars, delivery, Delivery!vars
    <2> QED BY <2>1, <2>2, <2>3
  <1> QED BY <1>1, <1>2

\* A call that its worker gave up sends nothing, in any number of processes: the
\* lease of a claim is longer than the deadline of its call (deliver,
\* apps/api/review-delivery.ts; runOnce, delivery-worker.ts:45).
THEOREM NothingSentLate == Spec /\ []LeaseOutlivesDeadline => NoRequestAfterDeadline
  <1>1. LeaseOutlivesDeadline => NobodyTakesOver
    BY DEF LeaseOutlivesDeadline, NobodyTakesOver
  <1> QED BY <1>1, WaitsInductive, Holding, PTL
       DEF Spec, NoRequestAfterDeadline, Delivery!NoRequestAfterDeadline

\* With one process nothing is sent late either, whenever its leases run out:
\* while it waits nobody else takes its job over (deliver).
THEOREM NothingSentLateAlone ==
    ASSUME NEW w, Workers = {w}
    PROVE  Spec => NoRequestAfterDeadline
  <1>1. NobodyTakesOver
    BY DEF NobodyTakesOver, Delivery!Claim, Delivery!Rest
  <1> QED BY <1>1, WaitsInductive, Holding, PTL
       DEF Spec, NoRequestAfterDeadline, Delivery!NoRequestAfterDeadline
===============================================================================
