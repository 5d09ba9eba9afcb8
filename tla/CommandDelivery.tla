---------------------------- MODULE CommandDelivery ----------------------------
(***************************************************************************)
(* What becomes of one client command on its way to the channel: the API   *)
(* service keeps it with a tracking hint (apps/api/service.ts), the ledger *)
(* adapter serializes it and checks it against the projection              *)
(* (packages/fabric/application-ledger.ts), the gateway sends it in one or *)
(* more transaction attempts (packages/fabric/gateway.ts) and records each *)
(* one durably before it can take effect (packages/fabric/                 *)
(* sqlite-outbox.ts).  Submissions time out, authorization is revoked in   *)
(* between, commit handles are lost, the process crashes and restarts, the *)
(* client retries; a status query may run against all of it.               *)
(*                                                                         *)
(* The channel is reduced to what FabricChannel.tla shows of one command:  *)
(* the first VALID transaction records it, every later transaction that    *)
(* was simulated before that record is INVALID, one simulated after it     *)
(* replays the recorded answer.  Any transaction may be INVALID because of *)
(* other commands.                                                         *)
(***************************************************************************)
EXTENDS Integers, Sequences, FiniteSets

CONSTANTS
    TxIds,         \* transaction ids the client SDK may draw
    MaxCrashes,    \* restarts of the process
    MaxAbandons,   \* refreshes that time out and reset the ledger's queues
    MaxListed,     \* attempts of one command a query looks at (128 in the code)
    None

ASSUME BoundsAssumption == MaxCrashes \in Nat /\ MaxAbandons \in Nat /\ MaxListed \in Nat

VARIABLES
    chain,         \* committed transactions in order: [tx, valid]
    flight,        \* transactions handed to the ordering service
    replays,       \* transactions simulated after the command was recorded
    outbox,        \* TxIds -> [status, bytes], or None         (durable)
    tracking,      \* the service's hint: None, "pending", "rejected" (durable)
    projected,     \* blocks applied to the projection          (durable)
    handles,       \* attempts whose SDK commit object is in memory
    queue,         \* who is inside the ledger's command queue
    worker,        \* the execution of the command: [pc, tx, status]
    reader,        \* a status query, or the recovery at startup:
                   \* [kind, pc, tx, status, todo, hint, verdict]
    answer,        \* the last status a query reported
    crashes, abandons

vars == <<chain, flight, replays, outbox, tracking, projected, handles, queue,
          worker, reader, answer, crashes, abandons>>

channel == <<chain, flight, replays>>
durable == <<outbox, tracking, projected>>
bounds == <<crashes, abandons>>

------------------------------------------------------------------------------
(* The channel. *)

ValidIn(n, t) == \E i \in 1..n : chain[i] = [tx |-> t, valid |-> TRUE]
Invalid(t) == \E i \in DOMAIN chain : chain[i] = [tx |-> t, valid |-> FALSE]
Valid(t) == ValidIn(Len(chain), t)

\* The idempotency record of the command, in the first n blocks.
RecordedIn(n) == \E t \in TxIds \ replays : ValidIn(n, t)
Recorded == RecordedIn(Len(chain))

\* A transaction is committed in a block.  Two transactions that read the
\* absence of the same idempotency record cannot both be VALID.
Commit(t) ==
    /\ t \in flight
    /\ \E v \in BOOLEAN :
         /\ v => Recorded = (t \in replays)
         /\ chain' = Append(chain, [tx |-> t, valid |-> v])
    /\ flight' = flight \ {t}
    /\ UNCHANGED <<replays, durable, handles, queue, worker, reader, answer, bounds>>

------------------------------------------------------------------------------
(* The outbox. *)

Unsettled == {"pending", "endorsed", "acknowledged", "unknown"}
Settled == {"valid", "invalid", "reconciled", "cancelled"}

\* The placeholder is no row and no word.
ASSUME NoneAssumption ==
    /\ None \notin [status : Unsettled \union Settled, bytes : BOOLEAN]
    /\ None \notin Unsettled \union Settled \union {"rejected", "committed", "INVALID", "UNKNOWN",
                                                "get", "list", "startup"}

Attempts == {t \in TxIds : outbox[t] # None}
Recoverable == {t \in Attempts : outbox[t].status \in Unsettled}

RecordAttempt(t) ==
    outbox' = [outbox EXCEPT ![t] = [status |-> "pending", bytes |-> FALSE]]

\* updateAttempt keeps the commit bytes it is not given.
Update(t, status, acknowledged) ==
    outbox' = [outbox EXCEPT ![t] = [status |-> status, bytes |-> @.bytes \/ acknowledged]]

------------------------------------------------------------------------------
(* The command queue of the ledger adapter, and its refresh. *)

\* Fault: calls are not serialized.
NotSerialized == TRUE

Free == queue = {}
Enter(who) == Free /\ queue' = queue \union {who}
Leave(who) == queue' = queue \ {who}

\* A refresh that hangs is abandoned and resets the queues: what is inside
\* them goes on, but no longer keeps others out.
Abandon ==
    /\ abandons < MaxAbandons
    /\ queue # {}
    /\ queue' = {}
    /\ abandons' = abandons + 1
    /\ UNCHANGED <<channel, durable, handles, worker, reader, answer, crashes>>

\* catchUp, begun after the call: the projection reaches the peer's tip.
CatchUp == projected' = Len(chain)

\* refresh may join a refresh in flight, whose tip was read before the call.
JoinRefresh == \E n \in projected..Len(chain) : projected' = n

------------------------------------------------------------------------------
(* Executing the command: command and retryCommand of the service, execute *)
(* of the ledger adapter, execute of the gateway.                          *)

Idle == [pc |-> "idle", tx |-> None, status |-> None]

\* executeStoredCommand ends: the hint says what the client is left with.
Done(hint) ==
    /\ worker' = Idle
    /\ Leave("worker")
    /\ tracking' = hint

\* The client sends the command, or sends it again.
Send ==
    /\ worker.pc = "idle" /\ reader.kind # "startup"
    /\ worker' = [worker EXCEPT !.pc = "queued"]
    /\ tracking' = IF tracking = None THEN "pending" ELSE tracking
    /\ JoinRefresh
    /\ UNCHANGED <<channel, outbox, handles, queue, reader, answer, bounds>>

\* The preflight on a fresh projection: the recorded answer, a refusal by the
\* engine, an unreachable peer, or on to the gateway.
Preflight ==
    /\ worker.pc = "queued"
    /\ Free
    /\ UNCHANGED <<channel, outbox, handles, reader, bounds>>
    /\ \/ /\ CatchUp /\ Recorded
          /\ worker' = Idle /\ tracking' \in {tracking, "pending"}
          /\ UNCHANGED <<queue, answer>>
       \/ /\ CatchUp /\ ~Recorded
          /\ worker' = Idle /\ tracking' = "rejected"
          /\ UNCHANGED <<queue, answer>>
       \/ /\ worker' = Idle /\ tracking' = "pending"
          /\ UNCHANGED <<projected, queue, answer>>
       \/ /\ CatchUp /\ ~Recorded
          /\ Enter("worker")
          /\ worker' = [worker EXCEPT !.pc = "proposing"]
          /\ answer' = None
          /\ UNCHANGED tracking

\* Authorization is asked for again before each phase.  When it is gone the
\* call fails with its cause, a final refusal or a transient one.
Unauthorized == \E hint \in {"pending", "rejected"} : Done(hint)

\* newProposal draws a transaction id, and its attempt is recorded before
\* anything can be sent.
NewProposal ==
    /\ worker.pc = "proposing"
    /\ UNCHANGED <<channel, projected, handles, reader, answer, bounds>>
    /\ \/ \E t \in TxIds \ Attempts :
            /\ RecordAttempt(t)
            /\ worker' = [worker EXCEPT !.pc = "endorsing", !.tx = t]
            /\ UNCHANGED <<tracking, queue>>
       \/ /\ worker' = [worker EXCEPT !.pc = "refreshing"]
          /\ UNCHANGED <<outbox, tracking, queue>>
       \/ Unauthorized /\ UNCHANGED outbox

\* The peer simulates the transaction, refuses or cannot be reached.
Endorse ==
    /\ worker.pc = "endorsing"
    /\ UNCHANGED <<chain, flight, projected, handles, reader, answer, bounds>>
    /\ \/ /\ replays' = replays \union IF Recorded THEN {worker.tx} ELSE {}
          /\ Update(worker.tx, "endorsed", FALSE)
          /\ worker' = [worker EXCEPT !.pc = "submitting"]
          /\ UNCHANGED <<tracking, queue>>
       \/ /\ Update(worker.tx, "unknown", FALSE)
          /\ worker' = [worker EXCEPT !.pc = "refreshing"]
          /\ UNCHANGED <<replays, tracking, queue>>
       \/ Update(worker.tx, "cancelled", FALSE) /\ Unauthorized /\ UNCHANGED replays

\* A submission that timed out may have been sent.
SubmittedStatus(ack) == IF ack THEN "acknowledged" ELSE "unknown"

Submit ==
    /\ worker.pc = "submitting"
    /\ UNCHANGED <<chain, replays, projected, reader, answer, bounds>>
    /\ \/ \E sent, ack \in BOOLEAN :
            /\ ack => sent
            /\ flight' = flight \union IF sent THEN {worker.tx} ELSE {}
            /\ handles' = handles \union IF ack THEN {worker.tx} ELSE {}
            /\ worker' = [worker EXCEPT !.pc = "submitted", !.status = SubmittedStatus(ack)]
            /\ UNCHANGED <<outbox, tracking, queue>>
       \/ Update(worker.tx, "cancelled", FALSE) /\ Unauthorized /\ UNCHANGED <<flight, handles>>

RecordSubmitted ==
    /\ worker.pc = "submitted"
    /\ Update(worker.tx, worker.status, worker.status = "acknowledged")
    /\ worker' = [worker EXCEPT !.pc = "status", !.status = None]
    /\ UNCHANGED <<channel, tracking, projected, handles, queue, reader, answer, bounds>>

\* getStatus: VALID or INVALID from a commit handle, in memory or rebuilt
\* from the bytes of the row; UNKNOWN without one or without an answer in time.
Statuses(t, bytes) ==
    {"UNKNOWN"} \union (IF t \in handles \/ bytes
                        THEN {v \in {"VALID", "INVALID"} : IF v = "VALID" THEN Valid(t) ELSE Invalid(t)}
                        ELSE {})

\* A handle that has answered is dropped.
Asked(t, status) == handles' = IF status = "UNKNOWN" THEN handles ELSE handles \ {t}

\* reconcileInvalid and what follows: the status to write once the peer was
\* asked for the idempotency record, None when nothing is known or the peer
\* does not answer.
Outcomes(status) ==
    {None} \union (IF Recorded THEN {"reconciled"}
                   ELSE IF status = "INVALID" THEN {"invalid"} ELSE {})

AwaitStatus ==
    /\ worker.pc = "status"
    /\ \E s \in Statuses(worker.tx, FALSE) :
         /\ Asked(worker.tx, s)
         /\ worker' = IF s = "VALID" THEN [worker EXCEPT !.pc = "settling", !.status = "valid"]
                                     ELSE [worker EXCEPT !.pc = "reconciling", !.status = s]
    /\ UNCHANGED <<channel, durable, queue, reader, answer, bounds>>

Reconcile ==
    /\ worker.pc = "reconciling"
    /\ \E o \in Outcomes(worker.status) :
         worker' = [worker EXCEPT !.pc = IF o = None THEN "refreshing" ELSE "settling", !.status = o]
    /\ UNCHANGED <<channel, durable, handles, queue, reader, answer, bounds>>

\* An INVALID transaction is a conflict the client may retry.
Settle ==
    /\ worker.pc = "settling"
    /\ Update(worker.tx, worker.status, FALSE)
    /\ IF worker.status = "invalid"
       THEN Done("pending")
       ELSE worker' = [worker EXCEPT !.pc = "refreshing"] /\ UNCHANGED <<tracking, queue>>
    /\ UNCHANGED <<channel, projected, handles, reader, answer, bounds>>

\* The refresh that ends every execution; without it the client is told to wait.
RefreshWorker ==
    /\ worker.pc = "refreshing"
    /\ \/ CatchUp /\ Done(IF Recorded THEN tracking ELSE "pending")
       \/ UNCHANGED projected /\ Done("pending")
    /\ UNCHANGED <<channel, outbox, handles, reader, answer, bounds>>

------------------------------------------------------------------------------
(* A status query ("get" asks the peer about one attempt, "list" does not) *)
(* and the recovery at startup.                                            *)

NoQuery == [kind |-> None, pc |-> "idle", tx |-> None, status |-> None,
            todo |-> {}, hint |-> None, verdict |-> None]

Startup == [NoQuery EXCEPT !.kind = "startup", !.pc = "queued"]

Rows(ts) == {outbox[t].status : t \in ts}

\* A query loads one row more than it concludes from.
Listings ==
    LET n == Cardinality(Attempts)
    IN {ts \in SUBSET Attempts : Cardinality(ts) = IF n > MaxListed THEN MaxListed + 1 ELSE n}

\* Fault: the query concludes from the rows it got.
NeverTooMany == FALSE

TooMany == Cardinality(Attempts) > MaxListed

\* Fault: one failed attempt ends the command.
VerdictOfAnyFailure(statuses) ==
    IF statuses \intersect {"invalid", "cancelled"} = {} THEN "pending" ELSE "rejected"

\* What the rows say: only attempts that all failed end the command.
VerdictOf(statuses) ==
    IF ~statuses \subseteq {"invalid", "cancelled"} THEN "pending"
    ELSE IF statuses = {"cancelled"} THEN "cancelled" ELSE "rejected"

QueryBegin(kind) ==
    /\ reader = NoQuery
    /\ tracking # None
    /\ JoinRefresh
    /\ IF RecordedIn(projected')
       THEN answer' = "committed" /\ UNCHANGED reader
       ELSE /\ reader' = [NoQuery EXCEPT !.kind = kind, !.pc = "queued", !.hint = tracking]
            /\ UNCHANGED answer
    /\ UNCHANGED <<channel, outbox, tracking, handles, queue, worker, bounds>>

\* observeCommand of the ledger and of the transport, up to the choice of the
\* attempt to recover, or to the verdict when there is none to recover.  A
\* ledger that is not available gives no answer.
QueryObserve ==
    /\ reader.kind \in {"get", "list"} /\ reader.pc = "queued"
    /\ Free
    /\ UNCHANGED <<channel, durable, handles, worker, bounds>>
    /\ \/ reader' = NoQuery /\ UNCHANGED <<queue, answer>>
       \/ /\ RecordedIn(projected)
          /\ answer' = "committed" /\ reader' = NoQuery /\ UNCHANGED queue
       \/ /\ ~RecordedIn(projected)
          /\ Enter("reader") /\ UNCHANGED answer
          /\ IF Attempts = {}
             THEN reader' = [reader EXCEPT !.pc = "final"]
             ELSE IF TooMany
             THEN reader' = [reader EXCEPT !.pc = "final", !.verdict = "pending"]
             ELSE IF reader.kind = "get" /\ Recoverable # {}
             THEN \E t \in Recoverable : reader' = [reader EXCEPT !.pc = "recover", !.todo = {t}]
             ELSE reader' = [reader EXCEPT !.pc = "final", !.verdict = VerdictOf(Rows(Attempts))]

\* recoverPending at startup lists every unsettled attempt once.
StartRecovery ==
    /\ reader = Startup
    /\ Enter("reader")
    /\ reader' = [reader EXCEPT !.pc = "recover", !.todo = Recoverable]
    /\ UNCHANGED <<channel, durable, handles, worker, answer, bounds>>

\* Fault: an attempt of which nothing is known is asked for again and again.
OnwardWhenKnown(todo) ==
    IF reader.pc = "reconcile" THEN [reader EXCEPT !.pc = "recover", !.tx = None, !.status = None]
    ELSE [reader EXCEPT !.pc = IF todo = {} /\ reader.kind = "get" THEN "verdict" ELSE "recover",
                        !.tx = None, !.status = None, !.todo = todo]

\* One attempt is done with.
Onward(todo) ==
    [reader EXCEPT !.pc = IF todo = {} /\ reader.kind = "get" THEN "verdict" ELSE "recover",
                   !.tx = None, !.status = None, !.todo = todo]

RecoverStatus ==
    /\ reader.pc = "recover"
    /\ \E t \in reader.todo : \E s \in Statuses(t, outbox[t].bytes) :
         /\ Asked(t, s)
         /\ reader' = IF s = "VALID" THEN [reader EXCEPT !.pc = "settle", !.tx = t, !.status = "valid"]
                                     ELSE [reader EXCEPT !.pc = "reconcile", !.tx = t, !.status = s]
    /\ UNCHANGED <<channel, durable, queue, worker, answer, bounds>>

RecoverReconcile ==
    /\ reader.pc = "reconcile"
    /\ \E o \in Outcomes(reader.status) :
         reader' = IF o = None THEN Onward(reader.todo \ {reader.tx})
                               ELSE [reader EXCEPT !.pc = "settle", !.status = o]
    /\ UNCHANGED <<channel, durable, handles, queue, worker, answer, bounds>>

RecoverSettle ==
    /\ reader.pc = "settle"
    /\ Update(reader.tx, reader.status, FALSE)
    /\ reader' = Onward(reader.todo \ {reader.tx})
    /\ UNCHANGED <<channel, tracking, projected, handles, queue, worker, answer, bounds>>

\* The refresh after the recovery; when it fails the process is started again.
Recovered ==
    /\ reader.kind = "startup" /\ reader.pc = "recover" /\ reader.todo = {}
    /\ Leave("reader")
    /\ \/ CatchUp /\ reader' = NoQuery
       \/ UNCHANGED projected /\ reader' = Startup
    /\ UNCHANGED <<channel, outbox, tracking, handles, worker, answer, bounds>>

\* The rows are loaded again after a recovery, and not counted again.
QueryVerdict ==
    /\ reader.pc = "verdict"
    /\ \E ts \in Listings :
         reader' = [reader EXCEPT !.pc = "final", !.verdict = VerdictOf(Rows(ts))]
    /\ UNCHANGED <<channel, durable, handles, queue, worker, answer, bounds>>

\* A committed record first, then the verdict of the rows, then the hint.
FinalAnswer == IF RecordedIn(projected') THEN "committed"
               ELSE IF reader.verdict # None THEN reader.verdict ELSE reader.hint

QueryFinal ==
    /\ reader.pc = "final"
    /\ Leave("reader") /\ reader' = NoQuery
    /\ \/ (IF reader.kind = "get" THEN CatchUp ELSE UNCHANGED projected) /\ answer' = FinalAnswer
       \/ reader.kind = "get" /\ UNCHANGED <<projected, answer>>
    /\ UNCHANGED <<channel, outbox, tracking, handles, worker, bounds>>

------------------------------------------------------------------------------
\* The process dies; the outbox, the hint and the projection survive it.
Crash ==
    /\ crashes < MaxCrashes
    /\ crashes' = crashes + 1
    /\ worker' = Idle /\ reader' = Startup /\ handles' = {} /\ queue' = {}
    /\ UNCHANGED <<channel, durable, answer, abandons>>

Init ==
    /\ chain = <<>> /\ flight = {} /\ replays = {}
    /\ outbox = [t \in TxIds |-> None] /\ tracking = None /\ projected = 0
    /\ handles = {} /\ queue = {} /\ worker = Idle /\ reader = NoQuery
    /\ answer = None
    /\ crashes = 0 /\ abandons = 0

Execution == \/ Preflight \/ NewProposal \/ Endorse \/ Submit \/ RecordSubmitted
             \/ AwaitStatus \/ Reconcile \/ Settle \/ RefreshWorker

Recovery == RecoverStatus \/ RecoverReconcile \/ RecoverSettle

Next ==
    \/ \E t \in TxIds : Commit(t)
    \/ Send \/ Execution
    \/ \E kind \in {"get", "list"} : QueryBegin(kind)
    \/ QueryObserve \/ StartRecovery \/ Recovery \/ Recovered
    \/ QueryVerdict \/ QueryFinal
    \/ Abandon \/ Crash

\* Steps of the process are taken, the queue is first come first served, the
\* client asks again and the peer is not unreachable for ever.
Fairness ==
    /\ WF_vars(Execution) /\ WF_vars(Recovery) /\ WF_vars(QueryVerdict) /\ WF_vars(QueryFinal)
    /\ SF_vars(Preflight) /\ SF_vars(QueryObserve) /\ SF_vars(StartRecovery)
    /\ SF_vars(Recovered /\ reader' = NoQuery)
    /\ SF_vars(QueryBegin("get") /\ CatchUp)

Spec == Init /\ [][Next]_vars /\ Fairness

------------------------------------------------------------------------------
(* Properties. *)

Pcs == {"idle", "queued", "proposing", "endorsing", "submitting", "submitted",
        "status", "reconciling", "settling", "refreshing"}
ReaderPcs == {"idle", "queued", "recover", "reconcile", "settle", "verdict", "final"}
Answers == {None, "pending", "rejected", "cancelled", "committed"}

\* Every variable keeps its shape; a process outside its idle state has the
\* attempt its next step names.
TypeOK ==
    /\ chain \in Seq([tx : TxIds, valid : BOOLEAN])
    /\ flight \subseteq TxIds /\ replays \subseteq TxIds /\ handles \subseteq TxIds
    /\ outbox \in [TxIds -> [status : Unsettled \union Settled, bytes : BOOLEAN] \union {None}]
    /\ tracking \in {None, "pending", "rejected"}
    /\ projected \in 0..Len(chain)
    /\ queue \subseteq {"worker", "reader"}
    /\ worker.pc \in Pcs
    /\ worker.pc \notin {"idle", "queued", "proposing", "refreshing"} => worker.tx \in Attempts
    /\ reader.pc \in ReaderPcs
    /\ reader.pc \in {"reconcile", "settle"} => reader.tx \in Attempts
    /\ reader.todo \subseteq Attempts
    /\ answer \in Answers
    /\ crashes \in 0..MaxCrashes /\ abandons \in 0..MaxAbandons

Sent(t) == t \in flight \/ Valid(t) \/ Invalid(t)

\* The outbox never lies about the channel: what was sent has a row written
\* before it, a cancelled attempt was never sent, and valid, invalid and
\* reconciled rows say what the channel says (gateway.ts:312-397).
RowsTellTruth ==
    \A t \in TxIds :
        /\ outbox[t] = None => ~Sent(t)
        /\ outbox[t] # None =>
             /\ outbox[t].status = "cancelled" => ~Sent(t)
             /\ outbox[t].status = "valid" => Valid(t)
             /\ outbox[t].status = "invalid" => Invalid(t)
             /\ outbox[t].status = "reconciled" => Recorded

Denied == {"rejected", "cancelled"}

\* A query concludes from the rows that the command failed only when no
\* attempt of it is VALID or may still become so (gateway.ts:425-427), also
\* while an abandoned execution goes on beside it, as long as all attempts are
\* loaded: those it adds after they were counted may be cut off.
DenialIsSound ==
    [][(reader'.verdict \in Denied /\ reader.verdict = None /\ Cardinality(Attempts) <= MaxListed + 1)
         => flight = {} /\ ~Recorded]_vars

\* While the queue was never reset: once a client is told that its command was
\* rejected or cancelled, the command is not recorded, nor in flight, unless
\* it is sent again (service.ts:1208-1221: ledger record, then attempts, then
\* hint).
DeniedIsFinal == answer \in Denied /\ abandons = 0 => flight = {} /\ ~Recorded

\* While the queue was never reset, an attempt that is settled stays so: nobody
\* writes its row from something read before it was settled
\* (application-ledger.ts:71-78).
SettledStays ==
    [][\A t \in Attempts : outbox[t].status \in Settled /\ abandons = 0
            => outbox'[t].status = outbox[t].status]_vars

\* A recorded command is in the end reported as committed, whatever timed out
\* or crashed on the way.
CommittedIsReported == Recorded ~> answer = "committed"

\* What the outbox holds and what a client was told is what the channel says,
\* and every variable keeps its shape (gateway.ts:312-397, service.ts:1208-1221).
OutboxSound == TypeOK /\ RowsTellTruth /\ DeniedIsFinal
====
