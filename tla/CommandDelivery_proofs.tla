------------------------ MODULE CommandDelivery_proofs ------------------------
(***************************************************************************)
(* Theorems about CommandDelivery.tla.  What a row says of its transaction *)
(* is evidence somebody had of the channel, which never takes anything     *)
(* back.  What a query concludes from the rows holds beyond the moment     *)
(* only because the queue keeps the execution of the command out, so the   *)
(* invariant has a second part that speaks of the time before a refresh    *)
(* was abandoned.                                                          *)
(***************************************************************************)
EXTENDS CommandDelivery, FiniteSetTheorems, TLAPS

------------------------------------------------------------------------------
(* The inductive invariant. *)

States == Unsettled \union Settled
Block == [tx : TxIds, valid : BOOLEAN]
Row == [status : States, bytes : BOOLEAN]
Statements == {"valid", "invalid", "reconciled"}
Execute == [pc : Pcs, tx : TxIds \union {None},
            status : {None, "acknowledged", "unknown", "INVALID", "UNKNOWN"} \union Statements]
Query == [kind : {None, "get", "list", "startup"}, pc : ReaderPcs, tx : TxIds \union {None},
          status : {None, "INVALID", "UNKNOWN"} \union Statements, todo : SUBSET TxIds,
          hint : {None, "pending", "rejected"}, verdict : {None, "pending", "rejected", "cancelled"}]

\* Every variable has its type; there are finitely many attempts.
Typed == TypeOK /\ worker \in Execute /\ reader \in Query /\ IsFiniteSet(Attempts)

\* A transaction is on its way or committed, and committed once.
ChannelSound ==
    /\ \A i, j \in DOMAIN chain : chain[i].tx = chain[j].tx => i = j
    /\ \A i \in DOMAIN chain : chain[i].tx \notin flight

\* What a status to be written says is true of the channel.
Evidence(status, t) ==
    /\ status \in Statements
    /\ status = "valid" => Valid(t)
    /\ status = "invalid" => Invalid(t)
    /\ status = "reconciled" => Recorded

\* The execution sends what it has recorded, once, and knows what it writes.
WorkerSound ==
    /\ worker.pc \in {"endorsing", "submitting"} => ~Sent(worker.tx)
    /\ worker.pc \in {"endorsing", "submitting", "submitted"} => outbox[worker.tx].status # "cancelled"
    /\ worker.pc = "submitted" => worker.status \in {"acknowledged", "unknown"}
    /\ worker.pc = "reconciling" => /\ worker.status \in {"INVALID", "UNKNOWN"}
                                    /\ worker.status = "INVALID" => Invalid(worker.tx)
    /\ worker.pc = "settling" => Evidence(worker.status, worker.tx)

\* The same of a query, or of the recovery.
ReaderSound ==
    /\ reader.pc \in {"reconcile", "settle"} => reader.tx \in reader.todo
    /\ reader.pc = "reconcile" => /\ reader.status \in {"INVALID", "UNKNOWN"}
                                  /\ reader.status = "INVALID" => Invalid(reader.tx)
    /\ reader.pc = "settle" => Evidence(reader.status, reader.tx)
    /\ reader.pc \notin {"recover", "reconcile", "settle"} => reader.todo = {}

Working == worker.pc \notin {"idle", "queued"}
Reading == reader.pc \notin {"idle", "queued"}

\* Nobody is at work in the queue beside somebody else, so what was read of
\* the rows is still so.
QueueSound ==
    /\ queue \in {{}, {"worker"}, {"reader"}}
    /\ Working => queue = {"worker"} /\ answer \notin Denied
    /\ Reading => queue = {"reader"}
    /\ worker.pc \in {"endorsing", "submitting", "submitted", "status", "reconciling", "settling"} =>
          outbox[worker.tx].status \in Unsettled
    /\ reader.todo \subseteq Recoverable
    /\ reader.pc = "verdict" \/ (reader.pc \in {"recover", "reconcile", "settle"} /\ reader.kind = "get") =>
          Cardinality(Attempts) <= MaxListed
    /\ reader.pc = "final" /\ reader.verdict \in Denied \union {None} => flight = {} /\ ~Recorded
    /\ answer \in Denied => flight = {} /\ ~Recorded

Inv ==
    /\ Typed /\ ChannelSound /\ RowsTellTruth /\ WorkerSound /\ ReaderSound
    /\ abandons = 0 => QueueSound

------------------------------------------------------------------------------
(* What the operators give. *)

\* A row that is updated says what is written; the others stay (updateAttempt).
LEMMA UpdateIs ==
  ASSUME Typed, NEW t \in Attempts, NEW status \in States, NEW ack \in BOOLEAN, Update(t, status, ack)
  PROVE  /\ outbox' \in [TxIds -> Row \union {None}] /\ Attempts' = Attempts
         /\ outbox'[t].status = status /\ \A u \in TxIds \ {t} : outbox'[u] = outbox[u]
<1> PICK new : new = [status |-> status, bytes |-> outbox[t].bytes \/ ack]
  OBVIOUS
<1>1. outbox \in [TxIds -> Row \union {None}] /\ t \in TxIds /\ outbox[t] # None
  BY DEF Typed, TypeOK, Row, States, Attempts
<1>2. outbox' = [outbox EXCEPT ![t] = new]
  BY DEF Update
<1>3. outbox[t].bytes \/ ack \in BOOLEAN
  OBVIOUS
<1>4. new \in Row
  BY <1>3 DEF Row
<1>5. new # None
  BY <1>4, NoneAssumption DEF Row, States
<1>6. \A u \in TxIds : outbox'[u] = IF u = t THEN new ELSE outbox[u]
  BY <1>1, <1>2
<1>7. Attempts' = Attempts
  BY <1>1, <1>5, <1>6 DEF Attempts
<1>8. outbox' \in [TxIds -> Row \union {None}]
  BY <1>1, <1>2, <1>4
<1> QED BY <1>1, <1>6, <1>7, <1>8

\* A new attempt is a row of its own (recordAttempt).
LEMMA RecordIs ==
  ASSUME Typed, NEW t \in TxIds \ Attempts, RecordAttempt(t)
  PROVE  /\ outbox' \in [TxIds -> Row \union {None}] /\ Attempts' = Attempts \union {t}
         /\ outbox'[t].status = "pending" /\ \A u \in TxIds \ {t} : outbox'[u] = outbox[u]
<1> PICK new : new = [status |-> "pending", bytes |-> FALSE]
  OBVIOUS
<1>1. outbox \in [TxIds -> Row \union {None}]
  BY DEF Typed, TypeOK, Row, States
<1>2. outbox' = [outbox EXCEPT ![t] = new]
  BY DEF RecordAttempt
<1>3. new \in Row
  BY DEF Row, States, Unsettled
<1>4. new # None
  BY <1>3, NoneAssumption DEF Row, States
<1>5. \A u \in TxIds : outbox'[u] = IF u = t THEN new ELSE outbox[u]
  BY <1>1, <1>2
<1> QED BY <1>1, <1>2, <1>3, <1>4, <1>5 DEF Attempts

\* VALID and INVALID are only said of what is (getStatus).
LEMMA StatusesAre ==
  \A t, bytes : \A s \in Statuses(t, bytes) :
    s \in {"VALID", "INVALID", "UNKNOWN"} /\ (s = "VALID" => Valid(t)) /\ (s = "INVALID" => Invalid(t))
  BY DEF Statuses

\* (reconcileInvalid)
LEMMA OutcomesAre ==
  \A status : \A out \in Outcomes(status) :
    /\ out \in {None, "reconciled", "invalid"} /\ (out = "reconciled" => Recorded)
    /\ out = "invalid" => status = "INVALID"
<1>1. None \notin {"reconciled", "invalid"}
  BY NoneAssumption DEF Settled
<1> QED BY <1>1 DEF Outcomes

\* Two transactions cannot both be VALID and INVALID, nor on their way.
LEMMA OneFate ==
  ASSUME Typed, ChannelSound, NEW t
  PROVE  ~(Valid(t) /\ Invalid(t)) /\ (t \in flight => ~Valid(t) /\ ~Invalid(t))
<1>1. DOMAIN chain = 1..Len(chain)
  BY DEF Typed, TypeOK
<1> QED BY <1>1 DEF ChannelSound, Valid, ValidIn, Invalid

\* What steps the channel takes, as far as anybody else is concerned.
Keeps ==
    /\ \A t : (Valid(t) => Valid(t)') /\ (Invalid(t) => Invalid(t)')
    /\ Recorded => Recorded'

\* A chain that stays, and no transaction newly replayed that was valid,
\* keep what the channel says.
LEMMA KeepsIf ==
  ASSUME Typed, UNCHANGED chain, \A t \in replays' \ replays : ~Valid(t) PROVE Keeps
<1>1. \A t : (Valid(t) <=> Valid(t)') /\ (Invalid(t) <=> Invalid(t)')
  BY DEF Valid, ValidIn, Invalid
<1>2. Recorded => Recorded'
  BY <1>1 DEF Recorded, RecordedIn, Valid
<1> QED BY <1>1, <1>2 DEF Keeps

\* A block takes a transaction in and nothing back (Commit).
LEMMA CommitIs ==
  ASSUME Typed, ChannelSound, NEW tx \in TxIds, Commit(tx)
  PROVE  /\ Keeps /\ ChannelSound' /\ \A t : Sent(t)' <=> Sent(t)
         /\ chain' \in Seq([tx : TxIds, valid : BOOLEAN]) /\ Len(chain') = Len(chain) + 1
<1> PICK n : n = Len(chain)
  OBVIOUS
<1>1. n \in Nat /\ DOMAIN chain = 1..n /\ chain \in Seq([tx : TxIds, valid : BOOLEAN])
  BY DEF Typed, TypeOK
<1>2. PICK v \in BOOLEAN : chain' = Append(chain, [tx |-> tx, valid |-> v])
  BY DEF Commit
<1> PICK new : new = [tx |-> tx, valid |-> v]
  OBVIOUS
<1>3. new \in [tx : TxIds, valid : BOOLEAN] /\ new.tx = tx
  OBVIOUS
<1>4. /\ chain' \in Seq([tx : TxIds, valid : BOOLEAN]) /\ Len(chain') = n + 1 /\ DOMAIN chain' = 1..(n + 1)
      /\ chain'[n + 1] = new /\ \A i \in 1..n : chain'[i] = chain[i]
  BY <1>1, <1>2, <1>3
<1>5. \A t : (Valid(t)' <=> Valid(t) \/ new = [tx |-> t, valid |-> TRUE])
             /\ (Invalid(t)' <=> Invalid(t) \/ new = [tx |-> t, valid |-> FALSE])
  <2>1. \A rec : (\E i \in 1..(n + 1) : chain'[i] = rec) <=> (\E i \in 1..n : chain[i] = rec) \/ new = rec
    BY <1>1, <1>4
  <2>2. \A t : (Valid(t) <=> \E i \in 1..n : chain[i] = [tx |-> t, valid |-> TRUE])
              /\ (Valid(t)' <=> \E i \in 1..(n + 1) : chain'[i] = [tx |-> t, valid |-> TRUE])
    BY <1>4 DEF Valid, ValidIn
  <2>3. \A t : (Invalid(t) <=> \E i \in 1..n : chain[i] = [tx |-> t, valid |-> FALSE])
              /\ (Invalid(t)' <=> \E i \in 1..(n + 1) : chain'[i] = [tx |-> t, valid |-> FALSE])
    BY <1>1, <1>4 DEF Invalid
  <2> QED BY <2>1, <2>2, <2>3
<1>6. flight' = flight \ {tx} /\ tx \in flight /\ replays' = replays
  BY DEF Commit, channel
<1>7. Recorded => Recorded'
  BY <1>5, <1>6 DEF Recorded, RecordedIn, Valid
<1>8. v = TRUE \/ v = FALSE
  OBVIOUS
<1>9. \A t : (new = [tx |-> t, valid |-> TRUE] \/ new = [tx |-> t, valid |-> FALSE]) <=> t = tx
  BY <1>8
<1>10. \A t : Sent(t)' <=> Sent(t)
  BY <1>5, <1>6, <1>9 DEF Sent
<1>11. ChannelSound'
  BY <1>1, <1>3, <1>4, <1>6 DEF ChannelSound
<1> QED BY <1>1, <1>4, <1>5, <1>7, <1>10, <1>11 DEF Keeps

------------------------------------------------------------------------------
(* Types. *)

\* What a step writes in the outbox.
LEMMA OutboxStep ==
  ASSUME Inv, [Next]_vars
  PROVE  /\ outbox' \in [TxIds -> Row \union {None}] /\ Attempts \subseteq Attempts'
         /\ IsFiniteSet(Attempts')
<1>0. Typed /\ outbox \in [TxIds -> Row \union {None}] /\ IsFiniteSet(Attempts)
  BY DEF Inv, Typed, TypeOK, Row, States
<1>1. CASE UNCHANGED outbox
  BY <1>0, <1>1 DEF Attempts
<1>2. ASSUME NEW t \in TxIds \ Attempts, RecordAttempt(t)
      PROVE  /\ outbox' \in [TxIds -> Row \union {None}] /\ Attempts \subseteq Attempts'
             /\ IsFiniteSet(Attempts')
  BY <1>0, <1>2, RecordIs, FS_AddElement
<1>3. ASSUME NEW t \in Attempts, NEW status \in States, NEW ack \in BOOLEAN, Update(t, status, ack)
      PROVE  /\ outbox' \in [TxIds -> Row \union {None}] /\ Attempts \subseteq Attempts'
             /\ IsFiniteSet(Attempts')
  BY <1>0, <1>3, UpdateIs
<1>4. worker.pc \notin {"idle", "queued", "proposing", "refreshing"} => worker.tx \in Attempts
  BY <1>0 DEF Typed, TypeOK
<1>5. reader.pc \in {"reconcile", "settle"} => reader.tx \in Attempts
  BY <1>0 DEF Typed, TypeOK
<1>6. CASE NewProposal
  BY <1>1, <1>2, <1>6 DEF NewProposal
<1>7. CASE Endorse
  BY <1>3, <1>4, <1>7 DEF Endorse, States, Settled, Unsettled
<1>8. CASE Submit
  BY <1>1, <1>3, <1>4, <1>8 DEF Submit, States, Settled
<1>9. CASE RecordSubmitted
  <2>1. worker.status \in States /\ (worker.status = "acknowledged") \in BOOLEAN
    BY <1>9 DEF RecordSubmitted, Inv, WorkerSound, States, Unsettled
  <2> QED BY <1>3, <1>4, <1>9, <2>1 DEF RecordSubmitted
<1>10. CASE Settle
  <2>1. worker.status \in States
    BY <1>10 DEF Settle, Inv, WorkerSound, Evidence, Statements, States, Settled
  <2> QED BY <1>3, <1>4, <1>10, <2>1 DEF Settle
<1>11. CASE RecoverSettle
  <2>1. reader.status \in States
    BY <1>11 DEF RecoverSettle, Inv, ReaderSound, Evidence, Statements, States, Settled
  <2> QED BY <1>3, <1>5, <1>11, <2>1 DEF RecoverSettle
<1>12. CASE \/ \E t \in TxIds : Commit(t)
            \/ Send \/ Preflight \/ AwaitStatus \/ Reconcile \/ RefreshWorker
            \/ \E what \in {"get", "list"} : QueryBegin(what)
            \/ QueryObserve \/ StartRecovery \/ RecoverStatus \/ RecoverReconcile \/ Recovered
            \/ QueryVerdict \/ QueryFinal \/ Abandon \/ Crash \/ UNCHANGED vars
  <2>1. UNCHANGED outbox
    BY <1>12 DEF Commit, Send, Preflight, AwaitStatus, Reconcile, RefreshWorker, QueryBegin, QueryObserve,
       StartRecovery, RecoverStatus, RecoverReconcile, Recovered, QueryVerdict, QueryFinal, Abandon, Crash,
       durable, vars
  <2> QED BY <1>1, <2>1
<1> QED BY <1>6, <1>7, <1>8, <1>9, <1>10, <1>11, <1>12 DEF Next, Execution, Recovery

\* What a step does to the channel.
LEMMA ChannelStep ==
  ASSUME Inv, [Next]_vars
  PROVE  /\ Keeps /\ ChannelSound'
         /\ chain' \in Seq([tx : TxIds, valid : BOOLEAN]) /\ Len(chain') >= Len(chain)
         /\ flight' \subseteq TxIds /\ replays' \subseteq TxIds
<1>0. /\ Typed /\ ChannelSound /\ WorkerSound
      /\ chain \in Seq([tx : TxIds, valid : BOOLEAN]) /\ flight \subseteq TxIds /\ replays \subseteq TxIds
  BY DEF Inv, Typed, TypeOK
<1>1. worker.pc \in {"endorsing", "submitting"} => worker.tx \in TxIds /\ ~Sent(worker.tx)
  BY DEF Inv, WorkerSound, Typed, TypeOK, Attempts
<1>2. CASE UNCHANGED <<chain, flight, replays>>
  BY <1>0, <1>2, KeepsIf DEF ChannelSound
<1>3. CASE \E t \in TxIds : Commit(t)
  <2>1. PICK t \in TxIds : Commit(t)
    BY <1>3
  <2>2. flight' = flight \ {t} /\ replays' = replays
    BY <2>1 DEF Commit, channel
  <2>3. /\ Keeps /\ ChannelSound' /\ Len(chain') = Len(chain) + 1
        /\ chain' \in Seq([tx : TxIds, valid : BOOLEAN])
    BY <1>0, <2>1, CommitIs
  <2>4. Len(chain) \in Nat
    BY <1>0
  <2> QED BY <1>0, <2>2, <2>3, <2>4
<1>4. CASE Endorse
  <2>1. /\ UNCHANGED <<chain, flight>>
        /\ replays' = replays \/ replays' = replays \union {worker.tx} \/ replays' = replays \union {}
        /\ worker.pc = "endorsing"
    BY <1>4 DEF Endorse
  <2>2. \A t \in replays' \ replays : ~Valid(t)
    BY <1>1, <2>1 DEF Sent
  <2>3. Keeps
    BY <1>0, <2>1, <2>2, KeepsIf
  <2> QED BY <1>0, <1>1, <2>1, <2>3 DEF ChannelSound
<1>5. CASE Submit
  <2>1. /\ UNCHANGED <<chain, replays>> /\ worker.pc = "submitting"
        /\ flight' = flight \/ flight' = flight \union {worker.tx}
    BY <1>5 DEF Submit
  <2>2. Keeps
    BY <1>0, <2>1, KeepsIf
  <2>3. \A i \in DOMAIN chain : chain[i].tx # worker.tx
    <3> SUFFICES ASSUME NEW i \in DOMAIN chain, chain[i].tx = worker.tx PROVE FALSE
      OBVIOUS
    <3>1. i \in 1..Len(chain) /\ chain[i] \in Block
      <4>1. chain \in Seq(Block)
        BY <1>0 DEF Block
      <4> QED BY <4>1
    <3>2. chain[i] = [tx |-> worker.tx, valid |-> TRUE] \/ chain[i] = [tx |-> worker.tx, valid |-> FALSE]
      BY <3>1 DEF Block
    <3> QED BY <1>1, <2>1, <3>1, <3>2 DEF Sent, Valid, ValidIn, Invalid
  <2> QED BY <1>0, <1>1, <2>1, <2>2, <2>3 DEF ChannelSound
<1>6. CASE \/ Send \/ Preflight \/ NewProposal \/ RecordSubmitted \/ AwaitStatus \/ Reconcile \/ Settle
           \/ RefreshWorker \/ \E what \in {"get", "list"} : QueryBegin(what)
           \/ QueryObserve \/ StartRecovery \/ Recovery \/ Recovered
           \/ QueryVerdict \/ QueryFinal \/ Abandon \/ Crash \/ UNCHANGED vars
  <2>1. UNCHANGED <<chain, flight, replays>>
    BY <1>6 DEF Send, Preflight, NewProposal, RecordSubmitted, AwaitStatus, Reconcile, Settle, RefreshWorker,
       QueryBegin, QueryObserve, StartRecovery, Recovery, RecoverStatus, RecoverReconcile, RecoverSettle,
       Recovered, QueryVerdict, QueryFinal, Abandon, Crash, channel, vars
  <2> QED BY <1>2, <2>1
<1> QED BY <1>3, <1>4, <1>5, <1>6 DEF Next, Execution

\* The words and counters, action by action.
LEMMA PlainStep ==
  ASSUME Inv, [Next]_vars
  PROVE  /\ handles' \subseteq TxIds /\ tracking' \in {None, "pending", "rejected"}
         /\ queue' \subseteq {"worker", "reader"} /\ answer' \in Answers
         /\ crashes' \in 0..MaxCrashes /\ abandons' \in 0..MaxAbandons
<1>0. /\ handles \subseteq TxIds /\ tracking \in {None, "pending", "rejected"}
      /\ queue \subseteq {"worker", "reader"} /\ answer \in Answers
      /\ crashes \in 0..MaxCrashes /\ abandons \in 0..MaxAbandons
      /\ reader.hint \in {None, "pending", "rejected"} /\ reader.verdict \in {None, "pending", "rejected", "cancelled"}
  BY DEF Inv, Typed, TypeOK, Query
<1>1. worker.pc \notin {"idle", "queued", "proposing", "refreshing"} => worker.tx \in TxIds
  BY DEF Inv, Typed, TypeOK, Attempts
<1>2. CASE UNCHANGED <<crashes, abandons>>
  <2>1. handles' \subseteq TxIds
    <3>1. CASE Submit
      BY <1>0, <1>1, <3>1 DEF Submit
    <3>2. CASE AwaitStatus \/ RecoverStatus
      BY <1>0, <3>2 DEF AwaitStatus, RecoverStatus, Asked
    <3>3. CASE Crash
      BY <3>3 DEF Crash
    <3>4. CASE UNCHANGED handles
      BY <1>0, <3>4
    <3> QED BY <3>1, <3>2, <3>3, <3>4 DEF Next, Execution, Recovery, vars, Commit, Send, Preflight,
            NewProposal, Endorse, RecordSubmitted, Reconcile, Settle, RefreshWorker, QueryBegin,
            QueryObserve, StartRecovery, RecoverReconcile, RecoverSettle, Recovered, QueryVerdict,
            QueryFinal, Abandon
  <2>2. tracking' \in {None, "pending", "rejected"}
    <3>1. CASE UNCHANGED tracking
      BY <1>0, <3>1
    <3>2. CASE \E hint \in {"pending", "rejected", tracking} : tracking' = hint
      BY <1>0, <3>2
    <3> QED BY <3>1, <3>2 DEF Next, Execution, Recovery, vars, durable, Commit, Send, Preflight,
            NewProposal, Endorse, Submit, RecordSubmitted, AwaitStatus, Reconcile, Settle, RefreshWorker,
            QueryBegin, QueryObserve, StartRecovery, RecoverStatus, RecoverReconcile, RecoverSettle,
            Recovered, QueryVerdict, QueryFinal, Abandon, Crash, Unauthorized, Done
  <2>3. queue' \subseteq {"worker", "reader"}
    <3>1. CASE queue' \in {queue, {}, queue \union {"worker"}, queue \union {"reader"},
                           queue \ {"worker"}, queue \ {"reader"}}
      BY <1>0, <3>1
    <3> QED BY <3>1 DEF Next, Execution, Recovery, vars, Commit, Send, Preflight,
            NewProposal, Endorse, Submit, RecordSubmitted, AwaitStatus, Reconcile, Settle, RefreshWorker,
            QueryBegin, QueryObserve, StartRecovery, RecoverStatus, RecoverReconcile, RecoverSettle,
            Recovered, QueryVerdict, QueryFinal, Abandon, Crash, Unauthorized, Done, Enter, Leave
  <2>4. answer' \in Answers
    <3>1. CASE answer' \in {answer, None, "committed", reader.verdict, reader.hint}
      BY <1>0, <3>1 DEF Answers
    <3> QED BY <3>1 DEF Next, Execution, Recovery, vars, Commit, Send, Preflight,
            NewProposal, Endorse, Submit, RecordSubmitted, AwaitStatus, Reconcile, Settle, RefreshWorker,
            QueryBegin, QueryObserve, StartRecovery, RecoverStatus, RecoverReconcile, RecoverSettle,
            Recovered, QueryVerdict, QueryFinal, Abandon, Crash, FinalAnswer
  <2> QED BY <1>0, <1>2, <2>1, <2>2, <2>3, <2>4
<1>3. CASE Abandon
  <2>1. abandons' \in 0..MaxAbandons
    BY <1>0, <1>3, BoundsAssumption DEF Abandon
  <2> QED BY <1>0, <1>3, <2>1 DEF Abandon, durable
<1>4. CASE Crash
  <2>1. crashes' \in 0..MaxCrashes
    BY <1>0, <1>4, BoundsAssumption DEF Crash
  <2> QED BY <1>0, <1>4, <2>1 DEF Crash, durable
<1> QED BY <1>2, <1>3, <1>4 DEF Next, Execution, Recovery, vars, bounds, Commit, Send, Preflight,
        NewProposal, Endorse, Submit, RecordSubmitted, AwaitStatus, Reconcile, Settle, RefreshWorker,
        QueryBegin, QueryObserve, StartRecovery, RecoverStatus, RecoverReconcile, RecoverSettle,
        Recovered, QueryVerdict, QueryFinal

\* The projection does not run ahead of the channel.
LEMMA ProjectedStep == ASSUME Inv, [Next]_vars PROVE projected' \in 0..Len(chain')
<1>0. Len(chain) \in Nat /\ projected \in 0..Len(chain)
  BY DEF Inv, Typed, TypeOK
<1>1. Len(chain') >= Len(chain) /\ Len(chain') \in Nat
  BY ChannelStep
<1>2. CASE projected' = projected \/ projected' = Len(chain) \/ \E n \in projected..Len(chain) : projected' = n
  BY <1>0, <1>1, <1>2
<1> QED BY <1>2 DEF Next, Execution, Recovery, vars, durable, CatchUp, JoinRefresh, Commit, Send, Preflight,
        NewProposal, Endorse, Submit, RecordSubmitted, AwaitStatus, Reconcile, Settle, RefreshWorker,
        QueryBegin, QueryObserve, StartRecovery, RecoverStatus, RecoverReconcile, RecoverSettle,
        Recovered, QueryVerdict, QueryFinal, Abandon, Crash

------------------------------------------------------------------------------
(* The execution of the command. *)

InAttempt == {"endorsing", "submitting", "submitted", "status", "reconciling", "settling"}

\* What the invariant says of the execution, its type included.
WorkerFine ==
    /\ worker \in Execute /\ WorkerSound
    /\ worker.pc \in InAttempt => worker.tx \in Attempts

\* Where the execution has an attempt.
LEMMA WorkerIs ==
  ASSUME Typed
  PROVE  /\ worker.pc \in InAttempt => worker.tx \in Attempts /\ worker.tx \in TxIds
         /\ worker \in Execute
  BY DEF Typed, TypeOK, InAttempt, Attempts

\* What is evidence stays evidence.
LEMMA EvidenceKept ==
  ASSUME Keeps, NEW status, NEW t, Evidence(status, t)
  PROVE  status \in Statements /\ (status = "valid" => Valid(t)') /\ (status = "invalid" => Invalid(t)')
         /\ (status = "reconciled" => Recorded')
  BY DEF Keeps, Evidence

\* A step of somebody else's.
LEMMA WorkerRests ==
  ASSUME Inv, [Next]_vars, worker' = worker, \A t : Sent(t)' <=> Sent(t),
         \A t \in Attempts : outbox[t].status # "cancelled" => outbox'[t].status # "cancelled"
  PROVE  WorkerFine'
<1>0. Keeps /\ Typed /\ WorkerSound /\ Attempts \subseteq Attempts'
  BY ChannelStep, OutboxStep DEF Inv
<1>1. /\ worker.pc \in {"endorsing", "submitting"} => ~Sent(worker.tx)'
      /\ worker.pc \in {"endorsing", "submitting", "submitted"} => outbox'[worker.tx].status # "cancelled"
  BY <1>0, WorkerIs DEF WorkerSound, InAttempt
<1>2. worker.pc = "reconciling" /\ worker.status = "INVALID" => Invalid(worker.tx)'
  BY <1>0 DEF WorkerSound, Keeps
<1>3. worker.pc = "settling" => Evidence(worker.status, worker.tx)'
  <2> SUFFICES ASSUME worker.pc = "settling" PROVE Evidence(worker.status, worker.tx)'
    OBVIOUS
  <2> PICK status, t : status = worker.status /\ t = worker.tx
    OBVIOUS
  <2>1. status \in Statements /\ (status = "valid" => Valid(t)') /\ (status = "invalid" => Invalid(t)')
         /\ (status = "reconciled" => Recorded')
    BY <1>0, EvidenceKept DEF WorkerSound
  <2> QED BY <2>1 DEF Evidence, Valid, Invalid
<1>4. worker.pc \in InAttempt => worker.tx \in Attempts'
  BY <1>0, WorkerIs
<1> QED BY <1>0, <1>1, <1>2, <1>3, <1>4, WorkerIs DEF WorkerFine, WorkerSound, Sent, Valid, Invalid

\* Nothing is claimed where there is no attempt.
LEMMA WorkerFree ==
  ASSUME worker' \in Execute, worker'.pc \in {"idle", "queued", "proposing", "refreshing"}
  PROVE  WorkerFine'
  BY DEF WorkerFine, WorkerSound, InAttempt

\* It has left the queue.
LEMMA IdleIs == Idle \in Execute /\ Idle.pc = "idle"
  BY DEF Idle, Execute, Pcs

\* (NewProposal)
LEMMA WorkerProposes == ASSUME Inv, NewProposal PROVE WorkerFine'
<1>0. Typed /\ worker \in Execute
  BY WorkerIs DEF Inv
<1>1. ASSUME NEW t \in TxIds \ Attempts, RecordAttempt(t), worker' = [worker EXCEPT !.pc = "endorsing", !.tx = t]
      PROVE  WorkerFine'
  <2>1. worker'.pc = "endorsing" /\ worker'.tx = t /\ worker' \in Execute
    BY <1>0, <1>1 DEF Execute, Pcs
  <2>2. t \in Attempts' /\ outbox'[t].status # "cancelled"
    BY <1>0, <1>1, RecordIs
  <2>3. ~Sent(t)
    BY DEF Inv, RowsTellTruth, Attempts
  <2>4. ~Sent(worker.tx)'
    BY <2>1, <2>3 DEF NewProposal, channel, Sent, Valid, ValidIn, Invalid
  <2> QED BY <2>1, <2>2, <2>4 DEF WorkerFine, WorkerSound
<1>2. CASE worker' = [worker EXCEPT !.pc = "refreshing"]
  <2>1. worker' \in Execute /\ worker'.pc = "refreshing"
    BY <1>0, <1>2 DEF Execute, Pcs
  <2> QED BY <2>1, WorkerFree
<1>3. CASE worker' = Idle
  BY <1>3, IdleIs, WorkerFree
<1> QED BY <1>1, <1>2, <1>3 DEF NewProposal, Unauthorized, Done

\* (Endorse)
LEMMA WorkerEndorses == ASSUME Inv, Endorse PROVE WorkerFine'
<1>0. /\ Typed /\ worker \in Execute /\ worker.pc = "endorsing" /\ worker.tx \in Attempts
      /\ ~Sent(worker.tx) /\ worker.tx \in TxIds
  BY WorkerIs DEF Inv, Endorse, InAttempt, WorkerSound
<1>1. CASE worker' = [worker EXCEPT !.pc = "submitting"] /\ Update(worker.tx, "endorsed", FALSE)
  <2>1. worker'.pc = "submitting" /\ worker'.tx = worker.tx /\ worker' \in Execute
    BY <1>0, <1>1 DEF Execute, Pcs
  <2>2. worker.tx \in Attempts' /\ outbox'[worker.tx].status = "endorsed"
    BY <1>0, <1>1, UpdateIs DEF States, Unsettled
  <2>3. ~Sent(worker.tx)'
    BY <1>0, <2>1 DEF Endorse, Sent, Valid, ValidIn, Invalid
  <2> QED BY <2>1, <2>2, <2>3 DEF WorkerFine, WorkerSound
<1>2. CASE worker' = [worker EXCEPT !.pc = "refreshing"]
  <2>1. worker' \in Execute /\ worker'.pc = "refreshing"
    BY <1>0, <1>2 DEF Execute, Pcs
  <2> QED BY <2>1, WorkerFree
<1>3. CASE worker' = Idle
  BY <1>3, IdleIs, WorkerFree
<1> QED BY <1>1, <1>2, <1>3 DEF Endorse, Unauthorized, Done

\* (Submit)
LEMMA WorkerSubmits == ASSUME Inv, Submit PROVE WorkerFine'
<1>0. /\ Typed /\ worker \in Execute /\ worker.pc = "submitting" /\ worker.tx \in Attempts
      /\ outbox[worker.tx].status # "cancelled"
  BY WorkerIs DEF Inv, Submit, InAttempt, WorkerSound
<1>1. ASSUME NEW ack \in BOOLEAN, worker' = [worker EXCEPT !.pc = "submitted", !.status = SubmittedStatus(ack)],
             UNCHANGED outbox
      PROVE  WorkerFine'
  <2>1. SubmittedStatus(ack) \in {"acknowledged", "unknown"}
    BY DEF SubmittedStatus
  <2>2. worker'.pc = "submitted" /\ worker'.tx = worker.tx /\ worker'.status = SubmittedStatus(ack)
        /\ worker' \in Execute
    BY <1>0, <1>1, <2>1 DEF Execute, Pcs
  <2> QED BY <1>0, <1>1, <2>1, <2>2 DEF WorkerFine, WorkerSound, Attempts
<1>2. CASE worker' = Idle
  BY <1>2, IdleIs, WorkerFree
<1> QED BY <1>1, <1>2 DEF Submit, Unauthorized, Done

\* (AwaitStatus)
LEMMA WorkerAsks == ASSUME Inv, AwaitStatus PROVE WorkerFine'
<1>0. Typed /\ worker \in Execute /\ worker.pc = "status" /\ worker.tx \in Attempts
  BY WorkerIs DEF Inv, AwaitStatus, InAttempt
<1>1. PICK s \in Statuses(worker.tx, FALSE) :
        worker' = IF s = "VALID" THEN [worker EXCEPT !.pc = "settling", !.status = "valid"]
                                 ELSE [worker EXCEPT !.pc = "reconciling", !.status = s]
  BY DEF AwaitStatus
<1>2. UNCHANGED <<chain, flight, replays, outbox>>
  BY DEF AwaitStatus, channel, durable
<1>3. s \in {"VALID", "INVALID", "UNKNOWN"} /\ (s = "VALID" => Valid(worker.tx)) /\ (s = "INVALID" => Invalid(worker.tx))
  BY StatusesAre
<1>4. CASE s = "VALID"
  <2>1. worker' \in Execute /\ worker'.pc = "settling" /\ worker'.status = "valid" /\ worker'.tx = worker.tx
    BY <1>0, <1>1, <1>4 DEF Execute, Pcs, Statements
  <2>2. Evidence(worker.status, worker.tx)'
    BY <1>2, <1>3, <1>4, <2>1 DEF Evidence, Statements, Valid, ValidIn
  <2> QED BY <1>0, <1>2, <2>1, <2>2 DEF WorkerFine, WorkerSound, Attempts
<1>5. CASE s # "VALID"
  <2>1. worker' \in Execute /\ worker'.pc = "reconciling" /\ worker'.status = s /\ worker'.tx = worker.tx
    BY <1>0, <1>1, <1>3, <1>5 DEF Execute, Pcs
  <2>2. s = "INVALID" => Invalid(worker.tx)'
    BY <1>2, <1>3, <2>1 DEF Invalid
  <2> QED BY <1>0, <1>2, <1>3, <1>5, <2>1, <2>2 DEF WorkerFine, WorkerSound, Attempts
<1> QED BY <1>4, <1>5

\* (Reconcile)
LEMMA WorkerReconciles == ASSUME Inv, Reconcile PROVE WorkerFine'
<1>0. /\ Typed /\ worker \in Execute /\ worker.pc = "reconciling" /\ worker.tx \in Attempts
      /\ worker.status = "INVALID" => Invalid(worker.tx)
  BY WorkerIs DEF Inv, Reconcile, InAttempt, WorkerSound
<1>1. PICK out \in Outcomes(worker.status) :
        worker' = [worker EXCEPT !.pc = IF out = None THEN "refreshing" ELSE "settling", !.status = out]
  BY DEF Reconcile
<1>2. UNCHANGED <<chain, flight, replays, outbox>>
  BY DEF Reconcile, channel, durable
<1>3. /\ out \in {None, "reconciled", "invalid"} /\ (out = "reconciled" => Recorded)
      /\ out = "invalid" => Invalid(worker.tx)
  BY <1>0, OutcomesAre
<1>4. worker' \in Execute /\ worker'.status = out /\ worker'.tx = worker.tx
      /\ worker'.pc = IF out = None THEN "refreshing" ELSE "settling"
  BY <1>0, <1>1, <1>3 DEF Execute, Pcs, Statements
<1>5. CASE out = None
  BY <1>4, <1>5, WorkerFree
<1>6. CASE out # None
  <2>1. Evidence(worker.status, worker.tx)'
    BY <1>2, <1>3, <1>4, <1>6 DEF Evidence, Statements, Invalid, Recorded, RecordedIn, ValidIn
  <2> QED BY <1>0, <1>2, <1>4, <1>6, <2>1 DEF WorkerFine, WorkerSound, Attempts
<1> QED BY <1>5, <1>6

\* The execution of the command, step by step.
LEMMA WorkerStep == ASSUME Inv, [Next]_vars PROVE WorkerFine'
<1>0. Typed /\ worker \in Execute
  BY WorkerIs DEF Inv
<1>1. CASE \E t \in TxIds : Commit(t)
  <2>1. PICK t \in TxIds : Commit(t)
    BY <1>1
  <2>2. \A u : Sent(u)' <=> Sent(u)
    BY <1>0, <2>1, CommitIs DEF Inv
  <2> QED BY <2>1, <2>2, WorkerRests DEF Commit, durable
<1>2. CASE RecoverSettle
  <2>1. \A u : Sent(u)' <=> Sent(u)
    BY <1>2 DEF RecoverSettle, channel, Sent, Valid, ValidIn, Invalid
  <2>2. reader.tx \in Attempts /\ reader.status \in Statements
    BY <1>0, <1>2 DEF RecoverSettle, Inv, ReaderSound, Evidence, Typed, TypeOK
  <2>3. outbox'[reader.tx].status = reader.status /\ \A u \in TxIds \ {reader.tx} : outbox'[u] = outbox[u]
    BY <1>0, <1>2, <2>2, UpdateIs DEF RecoverSettle, Statements, States, Settled
  <2> QED BY <1>2, <2>1, <2>2, <2>3, WorkerRests DEF RecoverSettle, Statements, Attempts
<1>3. CASE \/ \E what \in {"get", "list"} : QueryBegin(what)
           \/ QueryObserve \/ StartRecovery \/ RecoverStatus \/ RecoverReconcile \/ Recovered
           \/ QueryVerdict \/ QueryFinal \/ Abandon \/ UNCHANGED vars
  <2>1. UNCHANGED <<chain, flight, replays, outbox, worker>>
    BY <1>3 DEF QueryBegin, QueryObserve, StartRecovery, RecoverStatus, RecoverReconcile, Recovered,
       QueryVerdict, QueryFinal, Abandon, channel, durable, vars
  <2>2. \A u : Sent(u)' <=> Sent(u)
    BY <2>1 DEF Sent, Valid, ValidIn, Invalid
  <2> QED BY <2>1, <2>2, WorkerRests
<1>4. CASE \/ Send \/ Preflight \/ RecordSubmitted \/ Settle \/ RefreshWorker \/ Crash
  <2>1. CASE worker' = Idle
    BY <2>1, IdleIs, WorkerFree
  <2>2. CASE \E pc \in {"queued", "proposing", "refreshing"} : worker' = [worker EXCEPT !.pc = pc]
    <3>1. worker' \in Execute /\ worker'.pc \in {"queued", "proposing", "refreshing"}
      BY <1>0, <2>2 DEF Execute, Pcs
    <3> QED BY <3>1, WorkerFree
  <2>3. CASE RecordSubmitted
    <3>1. worker' \in Execute /\ worker'.pc = "status" /\ worker'.tx = worker.tx
      BY <1>0, <2>3 DEF RecordSubmitted, Execute, Pcs
    <3>2. worker.tx \in Attempts'
      BY <1>0, <2>3, WorkerIs, OutboxStep DEF RecordSubmitted, InAttempt, Next, Execution
    <3> QED BY <3>1, <3>2 DEF WorkerFine, WorkerSound
  <2> QED BY <1>4, <2>1, <2>2, <2>3 DEF Send, Preflight, Settle, RefreshWorker, Crash, Done
<1> QED BY <1>1, <1>2, <1>3, <1>4, WorkerProposes, WorkerEndorses, WorkerSubmits, WorkerAsks, WorkerReconciles
        DEF Next, Execution, Recovery

------------------------------------------------------------------------------
(* A status query, or the recovery. *)

ReaderFine == reader \in Query /\ ReaderSound /\ reader.todo \subseteq Attempts

\* Somebody else's step leaves it what it knows.
LEMMA ReaderRests == ASSUME Inv, [Next]_vars, reader' = reader PROVE ReaderFine'
<1>0. Keeps /\ ReaderSound /\ reader \in Query /\ reader.todo \subseteq Attempts /\ Attempts \subseteq Attempts'
  BY ChannelStep, OutboxStep DEF Inv, Typed, TypeOK
<1>1. reader.pc = "reconcile" /\ reader.status = "INVALID" => Invalid(reader.tx)'
  BY <1>0 DEF ReaderSound, Keeps
<1>2. reader.pc = "settle" => Evidence(reader.status, reader.tx)'
  <2> SUFFICES ASSUME reader.pc = "settle" PROVE Evidence(reader.status, reader.tx)'
    OBVIOUS
  <2> PICK status, t : status = reader.status /\ t = reader.tx
    OBVIOUS
  <2>1. status \in Statements /\ (status = "valid" => Valid(t)') /\ (status = "invalid" => Invalid(t)')
         /\ (status = "reconciled" => Recorded')
    BY <1>0, EvidenceKept DEF ReaderSound
  <2> QED BY <2>1 DEF Evidence, Valid, Invalid
<1> QED BY <1>0, <1>1, <1>2 DEF ReaderFine, ReaderSound, Invalid

\* A query of which nothing is under way.
LEMMA ReaderFree ==
  ASSUME reader' \in Query, reader'.pc \notin {"recover", "reconcile", "settle"}, reader'.todo = {}
  PROVE  ReaderFine'
  BY DEF ReaderFine, ReaderSound

\* The reader at rest, and the reader that starts with the process.
LEMMA NoQueryIs ==
  /\ NoQuery \in Query /\ NoQuery.pc = "idle" /\ NoQuery.todo = {} /\ NoQuery.verdict = None
  /\ Startup \in Query /\ Startup.pc = "queued" /\ Startup.todo = {} /\ Startup.kind = "startup"
  /\ Startup.verdict = None
  BY DEF NoQuery, Startup, Query, ReaderPcs

\* The attempts that are left.
LEMMA OnwardIs ==
  ASSUME NEW todo \in SUBSET TxIds, reader \in Query
  PROVE  /\ Onward(todo) \in Query /\ Onward(todo).todo = todo /\ Onward(todo).kind = reader.kind
         /\ Onward(todo).pc \in {"recover", "verdict"}
         /\ Onward(todo).pc = "verdict" => todo = {} /\ reader.kind = "get"
         /\ Onward(todo).verdict = reader.verdict
<1> PICK pc : pc = IF todo = {} /\ reader.kind = "get" THEN "verdict" ELSE "recover"
  OBVIOUS
<1>1. Onward(todo) = [reader EXCEPT !.pc = pc, !.tx = None, !.status = None, !.todo = todo]
  BY DEF Onward
<1>2. pc \in ReaderPcs
  BY DEF ReaderPcs
<1> QED BY <1>1, <1>2 DEF Query

\* (QueryObserve)
LEMMA ReaderObserves == ASSUME Inv, QueryObserve PROVE ReaderFine'
<1>0. reader \in Query /\ reader.todo = {} /\ UNCHANGED outbox
  BY DEF Inv, Typed, ReaderSound, QueryObserve, durable
<1>1. CASE reader' = NoQuery
  BY <1>1, NoQueryIs, ReaderFree
<1>2. CASE \E t \in Recoverable : reader' = [reader EXCEPT !.pc = "recover", !.todo = {t}]
  <2>1. PICK t \in Recoverable : reader' = [reader EXCEPT !.pc = "recover", !.todo = {t}]
    BY <1>2
  <2>2. t \in Attempts /\ t \in TxIds
    BY DEF Recoverable, Attempts
  <2>3. reader' \in Query /\ reader'.pc = "recover" /\ reader'.todo = {t}
    BY <1>0, <2>1, <2>2 DEF Query, ReaderPcs
  <2> QED BY <1>0, <2>2, <2>3 DEF ReaderFine, ReaderSound, Attempts
<1>3. CASE \E verdict \in {reader.verdict, "pending", "rejected", "cancelled"} :
             reader' = [reader EXCEPT !.pc = "final", !.verdict = verdict]
  <2>1. reader' \in Query /\ reader'.pc = "final" /\ reader'.todo = {}
    BY <1>0, <1>3 DEF Query, ReaderPcs
  <2> QED BY <2>1, ReaderFree
<1>4. CASE reader' = [reader EXCEPT !.pc = "final"]
  <2>1. reader' \in Query /\ reader'.pc = "final" /\ reader'.todo = {}
    BY <1>0, <1>4 DEF Query, ReaderPcs
  <2> QED BY <2>1, ReaderFree
<1>5. VerdictOf(Rows(Attempts)) \in {"pending", "rejected", "cancelled"}
  BY DEF VerdictOf
<1> QED BY <1>1, <1>2, <1>3, <1>4, <1>5 DEF QueryObserve

\* (RecoverStatus)
LEMMA ReaderAsks == ASSUME Inv, RecoverStatus PROVE ReaderFine'
<1>0. reader \in Query /\ reader.pc = "recover" /\ reader.todo \subseteq Attempts
  BY DEF Inv, Typed, TypeOK, RecoverStatus
<1>1. PICK t \in reader.todo : \E s \in Statuses(t, outbox[t].bytes) :
         reader' = IF s = "VALID" THEN [reader EXCEPT !.pc = "settle", !.tx = t, !.status = "valid"]
                                  ELSE [reader EXCEPT !.pc = "reconcile", !.tx = t, !.status = s]
  BY DEF RecoverStatus
<1>2. PICK s \in Statuses(t, outbox[t].bytes) :
         reader' = IF s = "VALID" THEN [reader EXCEPT !.pc = "settle", !.tx = t, !.status = "valid"]
                                  ELSE [reader EXCEPT !.pc = "reconcile", !.tx = t, !.status = s]
  BY <1>1
<1>3. UNCHANGED <<chain, flight, replays, outbox>>
  BY DEF RecoverStatus, channel, durable
<1>4. s \in {"VALID", "INVALID", "UNKNOWN"} /\ (s = "VALID" => Valid(t)) /\ (s = "INVALID" => Invalid(t))
  BY StatusesAre
<1>5. t \in TxIds /\ reader.todo \subseteq Attempts'
  BY <1>0, <1>1, <1>3 DEF Attempts
<1>6. CASE s = "VALID"
  <2>1. /\ reader' \in Query /\ reader'.pc = "settle" /\ reader'.status = "valid" /\ reader'.tx = t
        /\ reader'.todo = reader.todo
    BY <1>0, <1>2, <1>5, <1>6 DEF Query, ReaderPcs, Statements
  <2>2. Evidence(reader.status, reader.tx)'
    BY <1>3, <1>4, <1>6, <2>1 DEF Evidence, Statements, Valid, ValidIn
  <2> QED BY <1>1, <1>5, <2>1, <2>2 DEF ReaderFine, ReaderSound
<1>7. CASE s # "VALID"
  <2>1. /\ reader' \in Query /\ reader'.pc = "reconcile" /\ reader'.status = s /\ reader'.tx = t
        /\ reader'.todo = reader.todo
    BY <1>0, <1>2, <1>4, <1>5, <1>7 DEF Query, ReaderPcs
  <2>2. s = "INVALID" => Invalid(reader.tx)'
    BY <1>3, <1>4, <2>1 DEF Invalid
  <2> QED BY <1>1, <1>4, <1>5, <1>7, <2>1, <2>2 DEF ReaderFine, ReaderSound
<1> QED BY <1>6, <1>7

\* An attempt is done with, or goes on to be settled (RecoverReconcile).
LEMMA ReaderReconciles == ASSUME Inv, RecoverReconcile PROVE ReaderFine'
<1>0. /\ reader \in Query /\ reader.pc = "reconcile" /\ reader.todo \subseteq Attempts
      /\ reader.status = "INVALID" => Invalid(reader.tx)
      /\ reader.todo \subseteq TxIds /\ reader.tx \in reader.todo
  BY DEF Inv, Typed, TypeOK, ReaderSound, RecoverReconcile, Attempts
<1>1. PICK out \in Outcomes(reader.status) :
         reader' = IF out = None THEN Onward(reader.todo \ {reader.tx})
                                 ELSE [reader EXCEPT !.pc = "settle", !.status = out]
  BY DEF RecoverReconcile
<1>2. UNCHANGED <<chain, flight, replays, outbox>> /\ Attempts' = Attempts
  BY DEF RecoverReconcile, channel, durable, Attempts
<1>3. /\ out \in {None, "reconciled", "invalid"} /\ (out = "reconciled" => Recorded)
      /\ out = "invalid" => Invalid(reader.tx)
  BY <1>0, OutcomesAre
<1>4. CASE out = None
  <2> PICK todo \in SUBSET TxIds : todo = reader.todo \ {reader.tx}
    BY <1>0
  <2>1. reader' = Onward(todo)
    BY <1>1, <1>4
  <2>2. /\ reader' \in Query /\ reader'.todo = todo /\ reader'.pc \in {"recover", "verdict"}
        /\ reader'.pc = "verdict" => todo = {}
    BY <1>0, <2>1, OnwardIs
  <2> QED BY <1>0, <1>2, <2>2 DEF ReaderFine, ReaderSound
<1>5. CASE out # None
  <2>1. /\ reader' \in Query /\ reader'.pc = "settle" /\ reader'.status = out /\ reader'.tx = reader.tx
        /\ reader'.todo = reader.todo
    BY <1>0, <1>1, <1>3, <1>5 DEF Query, ReaderPcs, Statements
  <2>2. Evidence(reader.status, reader.tx)'
    BY <1>2, <1>3, <1>5, <2>1 DEF Evidence, Statements, Invalid, Recorded, RecordedIn, ValidIn
  <2> QED BY <1>0, <1>2, <2>1, <2>2 DEF ReaderFine, ReaderSound
<1> QED BY <1>4, <1>5

\* (RecoverSettle)
LEMMA ReaderSettles == ASSUME Inv, [Next]_vars, RecoverSettle PROVE ReaderFine'
<1>0. reader \in Query /\ reader.todo \subseteq Attempts /\ reader.todo \subseteq TxIds /\ Attempts \subseteq Attempts'
  BY OutboxStep DEF Inv, Typed, TypeOK, Attempts
<1> PICK todo \in SUBSET TxIds : todo = reader.todo \ {reader.tx}
  BY <1>0
<1>1. reader' = Onward(todo)
  BY DEF RecoverSettle
<1>2. /\ reader' \in Query /\ reader'.todo = todo /\ reader'.pc \in {"recover", "verdict"}
      /\ reader'.pc = "verdict" => todo = {}
  BY <1>0, <1>1, OnwardIs
<1> QED BY <1>0, <1>2 DEF ReaderFine, ReaderSound

\* A query, or the recovery, step by step.
LEMMA ReaderStep == ASSUME Inv, [Next]_vars PROVE ReaderFine'
<1>0. reader \in Query
  BY DEF Inv, Typed
<1>1. CASE UNCHANGED reader
  BY <1>1, ReaderRests
<1>2. CASE reader' \in {NoQuery, Startup}
  BY <1>2, NoQueryIs, ReaderFree
<1>3. CASE \E what \in {"get", "list"} : QueryBegin(what)
  <2>1. PICK what \in {"get", "list"} :
          UNCHANGED reader \/ reader' = [NoQuery EXCEPT !.kind = what, !.pc = "queued", !.hint = tracking]
    BY <1>3 DEF QueryBegin
  <2>2. CASE reader' = [NoQuery EXCEPT !.kind = what, !.pc = "queued", !.hint = tracking]
    <3>1. tracking \in {None, "pending", "rejected"}
      BY DEF Inv, Typed, TypeOK
    <3>2. reader' \in Query /\ reader'.pc = "queued" /\ reader'.todo = {}
      BY <2>2, <3>1 DEF NoQuery, Query, ReaderPcs
    <3> QED BY <3>2, ReaderFree
  <2> QED BY <1>1, <2>1, <2>2
<1>4. CASE StartRecovery
  <2>1. Recoverable \subseteq TxIds /\ Recoverable \subseteq Attempts
    BY DEF Recoverable, Attempts
  <2>2. reader' \in Query /\ reader'.pc = "recover" /\ reader'.todo = Recoverable
    BY <1>0, <1>4, <2>1 DEF StartRecovery, Query, ReaderPcs
  <2>3. Attempts' = Attempts
    BY <1>4 DEF StartRecovery, durable, Attempts
  <2> QED BY <2>1, <2>2, <2>3 DEF ReaderFine, ReaderSound
<1>5. CASE QueryVerdict
  <2>1. PICK ts : reader' = [reader EXCEPT !.pc = "final", !.verdict = VerdictOf(Rows(ts))]
    BY <1>5 DEF QueryVerdict
  <2>2. VerdictOf(Rows(ts)) \in {"pending", "rejected", "cancelled"}
    BY DEF VerdictOf
  <2>3. reader.todo = {}
    BY <1>5 DEF QueryVerdict, Inv, ReaderSound
  <2>4. reader' \in Query /\ reader'.pc = "final" /\ reader'.todo = {}
    BY <1>0, <2>1, <2>2, <2>3 DEF Query, ReaderPcs
  <2> QED BY <2>4, ReaderFree
<1> QED BY <1>1, <1>2, <1>3, <1>4, <1>5, ReaderObserves, ReaderAsks, ReaderReconciles, ReaderSettles
        DEF Next, Execution, Recovery, vars, Commit, Send, Preflight, NewProposal, Endorse, Submit,
        RecordSubmitted, AwaitStatus, Reconcile, Settle, RefreshWorker, Recovered, QueryFinal, Abandon, Crash

------------------------------------------------------------------------------
(* The rows. *)

\* What a row with this status may say of its transaction.
Truth(status, t) ==
    /\ status = "cancelled" => ~Sent(t)
    /\ status = "valid" => Valid(t)
    /\ status = "invalid" => Invalid(t)
    /\ status = "reconciled" => Recorded

\* One row is written, truly; nothing is sent in this step.
LEMMA RowWritten ==
  ASSUME Inv, Keeps, \A u : Sent(u)' <=> Sent(u), NEW t \in TxIds, t \in Attempts',
         \A u \in TxIds \ {t} : outbox'[u] = outbox[u],
         outbox'[t].status = "cancelled" => ~Sent(t),
         outbox'[t].status = "valid" => Valid(t), outbox'[t].status = "invalid" => Invalid(t),
         outbox'[t].status = "reconciled" => Recorded
  PROVE  RowsTellTruth'
<1>1. \A u \in TxIds \ {t} :
        /\ outbox'[u] = None => ~Sent(u)'
        /\ outbox'[u] # None => /\ outbox'[u].status = "cancelled" => ~Sent(u)'
                                /\ outbox'[u].status = "valid" => Valid(u)'
                                /\ outbox'[u].status = "invalid" => Invalid(u)'
                                /\ outbox'[u].status = "reconciled" => Recorded'
  BY DEF Inv, RowsTellTruth, Keeps
<1>2. /\ outbox'[t] # None
      /\ outbox'[t].status = "cancelled" => ~Sent(t)'
      /\ outbox'[t].status = "valid" => Valid(t)'
      /\ outbox'[t].status = "invalid" => Invalid(t)'
      /\ outbox'[t].status = "reconciled" => Recorded'
  BY DEF Keeps, Attempts
<1> QED BY <1>1, <1>2 DEF RowsTellTruth

\* No row is written.
LEMMA RowsRest ==
  ASSUME Inv, Keeps, \A u : Sent(u)' <=> Sent(u), UNCHANGED outbox
  PROVE  RowsTellTruth'
  BY DEF Inv, RowsTellTruth, Keeps

\* Only the submission of an attempt sends it.
LEMMA SentStep ==
  ASSUME Inv, [Next]_vars
  PROVE  \A u : (Sent(u) => Sent(u)') /\ (Sent(u)' => Sent(u) \/ (Submit /\ u = worker.tx /\ UNCHANGED outbox))
<1>1. CASE UNCHANGED <<chain, flight>>
  BY <1>1 DEF Sent, Valid, ValidIn, Invalid
<1>2. CASE \E t \in TxIds : Commit(t)
  BY <1>2, CommitIs DEF Inv
<1>3. CASE Submit
  <2>1. UNCHANGED chain /\ flight' \in {flight, flight \union {worker.tx}}
    BY <1>3 DEF Submit
  <2>2. flight' # flight => UNCHANGED outbox
    BY <1>3 DEF Submit
  <2> QED BY <1>3, <2>1, <2>2 DEF Sent, Valid, ValidIn, Invalid
<1> QED BY <1>1, <1>2, <1>3 DEF Next, Execution, Recovery, vars, channel, Send, Preflight, NewProposal, Endorse,
        RecordSubmitted, AwaitStatus, Reconcile, Settle, RefreshWorker, QueryBegin, QueryObserve,
        StartRecovery, RecoverStatus, RecoverReconcile, RecoverSettle, Recovered, QueryVerdict, QueryFinal,
        Abandon, Crash

\* The rows go on telling the truth, step by step.
LEMMA RowsStep == ASSUME Inv, [Next]_vars PROVE RowsTellTruth'
<1>0. /\ Typed /\ Keeps
      /\ worker.pc \in InAttempt => worker.tx \in Attempts /\ worker.tx \in TxIds
  BY ChannelStep, WorkerIs DEF Inv
<1>1. CASE Submit /\ UNCHANGED outbox
  <2>1. worker.tx \in Attempts /\ outbox[worker.tx].status # "cancelled"
    BY <1>0, <1>1 DEF Submit, InAttempt, Inv, WorkerSound
  <2> SUFFICES ASSUME NEW t \in TxIds
               PROVE  /\ outbox'[t] = None => ~Sent(t)'
                      /\ outbox'[t] # None => /\ outbox'[t].status = "cancelled" => ~Sent(t)'
                                              /\ outbox'[t].status = "valid" => Valid(t)'
                                              /\ outbox'[t].status = "invalid" => Invalid(t)'
                                              /\ outbox'[t].status = "reconciled" => Recorded'
    BY DEF RowsTellTruth
  <2>2. CASE t = worker.tx
    BY <1>0, <1>1, <2>1, <2>2 DEF Inv, RowsTellTruth, Keeps, Attempts
  <2>3. CASE t # worker.tx
    BY <1>0, <1>1, <2>3, SentStep DEF Inv, RowsTellTruth, Keeps
  <2> QED BY <2>2, <2>3
<1>2. CASE UNCHANGED outbox /\ ~Submit
  BY <1>0, <1>2, SentStep, RowsRest
<1>3. CASE outbox' # outbox
  <2>0. \A u : Sent(u)' <=> Sent(u)
    BY <1>3, SentStep
  <2>1. ASSUME NEW t \in Attempts, NEW status \in States, NEW ack \in BOOLEAN, Update(t, status, ack), Truth(status, t)
        PROVE  RowsTellTruth'
    <3>1. /\ t \in TxIds /\ t \in Attempts' /\ outbox'[t].status = status
          /\ \A u \in TxIds \ {t} : outbox'[u] = outbox[u]
      BY <1>0, <2>1, UpdateIs DEF Attempts
    <3> QED BY <1>0, <2>0, <2>1, <3>1, RowWritten DEF Truth
  <2>2. \A t : \A status \in Unsettled : Truth(status, t)
    BY DEF Truth, Unsettled
  <2>3. \A t, status : Evidence(status, t) => Truth(status, t) /\ status \in States
    BY DEF Truth, Evidence, Statements, States, Settled
  <2>4. CASE NewProposal
    <3>1. PICK t \in TxIds \ Attempts : RecordAttempt(t)
      BY <1>3, <2>4 DEF NewProposal
    <3> QED BY <1>0, <2>0, <3>1, RecordIs, RowWritten
  <2>5. CASE Endorse
    <3>1. worker.tx \in Attempts /\ ~Sent(worker.tx)
      BY <1>0, <2>5 DEF Endorse, InAttempt, Inv, WorkerSound
    <3>2. Truth("cancelled", worker.tx)
      BY <3>1 DEF Truth
    <3> QED BY <2>1, <2>2, <2>5, <3>1, <3>2 DEF Endorse, States, Unsettled, Settled
  <2>6. CASE Submit
    <3>1. worker.tx \in Attempts /\ ~Sent(worker.tx)
      BY <1>0, <2>6 DEF Submit, InAttempt, Inv, WorkerSound
    <3>2. Truth("cancelled", worker.tx)
      BY <3>1 DEF Truth
    <3> QED BY <1>3, <2>1, <2>6, <3>1, <3>2 DEF Submit, States, Settled
  <2>7. CASE RecordSubmitted
    <3>1. worker.tx \in Attempts /\ worker.status \in Unsettled /\ (worker.status = "acknowledged") \in BOOLEAN
      BY <1>0, <2>7 DEF RecordSubmitted, InAttempt, Inv, WorkerSound, Unsettled
    <3> QED BY <2>1, <2>2, <2>7, <3>1 DEF RecordSubmitted, States
  <2>8. CASE Settle
    <3>1. worker.tx \in Attempts /\ Evidence(worker.status, worker.tx)
      BY <1>0, <2>8 DEF Settle, InAttempt, Inv, WorkerSound
    <3> QED BY <2>1, <2>3, <2>8, <3>1 DEF Settle
  <2>9. CASE RecoverSettle
    <3>1. reader.tx \in Attempts /\ Evidence(reader.status, reader.tx)
      BY <2>9 DEF RecoverSettle, Inv, ReaderSound, Typed, TypeOK
    <3> QED BY <2>1, <2>3, <2>9, <3>1 DEF RecoverSettle
  <2> QED BY <1>3, <2>4, <2>5, <2>6, <2>7, <2>8, <2>9
          DEF Next, Execution, Recovery, vars, durable, Commit, Send, Preflight, AwaitStatus, Reconcile,
              RefreshWorker, QueryBegin, QueryObserve, StartRecovery, RecoverStatus, RecoverReconcile,
              Recovered, QueryVerdict, QueryFinal, Abandon, Crash
<1> QED BY <1>1, <1>2, <1>3

\* Types, and everything but the queue.
LEMMA TypedStep == ASSUME Inv, [Next]_vars PROVE Typed' /\ ChannelSound' /\ WorkerSound' /\ ReaderSound'
<1>1. /\ worker' \in Execute /\ (worker'.pc \in InAttempt => worker'.tx \in Attempts') /\ WorkerSound'
  BY WorkerStep DEF WorkerFine
<1>2. reader' \in Query /\ ReaderSound' /\ reader'.todo \subseteq Attempts'
  BY ReaderStep DEF ReaderFine
<1>3. worker'.pc \in Pcs /\ reader'.pc \in ReaderPcs
  BY <1>1, <1>2 DEF Execute, Query
<1>4. worker'.pc \notin {"idle", "queued", "proposing", "refreshing"} => worker'.tx \in Attempts'
  BY <1>1, <1>3 DEF InAttempt, Pcs
<1>5. reader'.pc \in {"reconcile", "settle"} => reader'.tx \in Attempts'
  BY <1>2 DEF ReaderSound
<1>6. TypeOK'
  BY <1>2, <1>3, <1>4, <1>5, ChannelStep, OutboxStep, PlainStep, ProjectedStep DEF TypeOK, Row, States
<1> QED BY <1>1, <1>2, <1>6, ChannelStep, OutboxStep DEF Typed

------------------------------------------------------------------------------
(* What a query may conclude. *)

\* When every attempt failed, nothing of the command is or comes.
LEMMA AllFailed ==
  ASSUME Inv, VerdictOf(Rows(Attempts)) \in Denied
  PROVE  flight = {} /\ ~Recorded
<1>1. Rows(Attempts) \subseteq {"invalid", "cancelled"}
  BY DEF VerdictOf, Denied
<1>2. \A t \in TxIds : ~Valid(t) /\ t \notin flight
  <2> SUFFICES ASSUME NEW t \in TxIds PROVE ~Valid(t) /\ t \notin flight
    OBVIOUS
  <2>1. CASE outbox[t] = None
    BY <2>1 DEF Inv, RowsTellTruth, Sent
  <2>2. CASE outbox[t] # None
    <3>1. outbox[t].status \in {"invalid", "cancelled"}
      BY <1>1, <2>2 DEF Rows, Attempts
    <3>2. ~Sent(t) \/ Invalid(t)
      BY <2>2, <3>1 DEF Inv, RowsTellTruth
    <3> QED BY <3>2, OneFate DEF Inv, Sent
  <2> QED BY <2>1, <2>2
<1> QED BY <1>2 DEF Recorded, RecordedIn, Valid, Inv, Typed, TypeOK

\* A listing that is not cut off has all attempts.
LEMMA ListedAll ==
  ASSUME Typed, Cardinality(Attempts) <= MaxListed + 1, NEW ts \in Listings
  PROVE  ts = Attempts
<1>1. IsFiniteSet(Attempts) /\ Cardinality(Attempts) \in Nat
  BY FS_CardinalityType DEF Typed
<1>2. ts \subseteq Attempts /\ Cardinality(ts) = Cardinality(Attempts)
  BY <1>1, BoundsAssumption DEF Listings
<1> QED BY <1>1, <1>2, FS_Subset

\* A verdict is given where the rows were read.
LEMMA VerdictStep ==
  ASSUME Inv, [Next]_vars, reader'.verdict \in Denied
  PROVE  \/ reader'.verdict = reader.verdict
         \/ QueryObserve /\ reader'.verdict = VerdictOf(Rows(Attempts))
         \/ QueryVerdict /\ \E ts \in Listings : reader'.verdict = VerdictOf(Rows(ts))
<1>0. reader \in Query /\ None \notin Denied
  BY NoneAssumption DEF Inv, Typed, Denied, Settled
<1>1. CASE UNCHANGED reader
  BY <1>1
<1>2. CASE reader' \in {NoQuery, Startup}
  BY <1>0, <1>2, NoQueryIs
<1>3. CASE \E what \in {"get", "list"} : QueryBegin(what)
  <2>1. PICK what \in {"get", "list"} :
          UNCHANGED reader \/ reader' = [NoQuery EXCEPT !.kind = what, !.pc = "queued", !.hint = tracking]
    BY <1>3 DEF QueryBegin
  <2> QED BY <1>0, <2>1 DEF NoQuery
<1>4. CASE StartRecovery
  BY <1>0, <1>4 DEF StartRecovery, Query
<1>5. CASE RecoverStatus
  BY <1>0, <1>5 DEF RecoverStatus, Query
<1>6. CASE RecoverReconcile
  BY <1>0, <1>6 DEF RecoverReconcile, Onward, Query
<1>7. CASE RecoverSettle
  BY <1>0, <1>7 DEF RecoverSettle, Onward, Query
<1>8. CASE QueryVerdict
  BY <1>0, <1>8 DEF QueryVerdict, Query
<1>9. CASE QueryObserve
  <2>1. CASE reader' = [reader EXCEPT !.pc = "final", !.verdict = VerdictOf(Rows(Attempts))]
    BY <1>0, <1>9, <2>1 DEF Query
  <2>2. CASE reader' = [reader EXCEPT !.pc = "final", !.verdict = "pending"]
    BY <1>0, <2>2 DEF Query, Denied
  <2>3. CASE reader' = [reader EXCEPT !.pc = "final"]
    BY <1>0, <2>3 DEF Query
  <2>4. CASE \E t : reader' = [reader EXCEPT !.pc = "recover", !.todo = {t}]
    BY <1>0, <2>4 DEF Query
  <2> QED BY <1>2, <1>9, <2>1, <2>2, <2>3, <2>4 DEF QueryObserve
<1> QED BY <1>1, <1>2, <1>3, <1>4, <1>5, <1>6, <1>7, <1>8, <1>9
        DEF Next, Execution, Recovery, vars, Commit, Send, Preflight, NewProposal, Endorse, Submit,
        RecordSubmitted, AwaitStatus, Reconcile, Settle, RefreshWorker, Recovered, QueryFinal, Abandon, Crash

\* A command is only denied when it is not recorded, nor can be.
LEMMA DenialStep ==
  ASSUME Inv, [Next]_vars, reader'.verdict \in Denied, reader.verdict = None, Cardinality(Attempts) <= MaxListed + 1
  PROVE  flight = {} /\ ~Recorded
<1>1. None \notin Denied
  BY NoneAssumption DEF Denied, Settled
<1>2. VerdictOf(Rows(Attempts)) \in Denied
  BY <1>1, VerdictStep, ListedAll DEF Inv
<1> QED BY <1>2, AllFailed

------------------------------------------------------------------------------
(* The queue, while no refresh was abandoned. *)

\* What an answer denies is none of what it may still leave open.
LEMMA DeniedIs == None \notin Denied /\ "committed" \notin Denied /\ "pending" \notin Denied /\ None # "pending"
  BY NoneAssumption DEF Denied, Settled, Unsettled

\* A step of the execution inside the queue.
LEMMA WorkerAlone ==
  ASSUME Inv, abandons = 0, Working, UNCHANGED <<reader, answer>>,
         \/ Working' /\ queue' = queue
         \/ ~Working' /\ queue' = queue \ {"worker"},
         worker'.pc \in InAttempt => outbox'[worker'.tx].status \in Unsettled
  PROVE  QueueSound'
<1>1. queue = {"worker"} /\ answer \notin Denied /\ ~Reading
  BY DEF Inv, QueueSound
<1>2. reader.pc \in {"idle", "queued"} /\ reader.todo = {}
  BY <1>1 DEF Reading, Inv, ReaderSound
<1>3. queue' \in {{}, {"worker"}} /\ (Working' => queue' = {"worker"})
  BY <1>1
<1>4. ~Reading'
  BY <1>1 DEF Reading
<1> QED BY <1>1, <1>2, <1>3, <1>4 DEF QueueSound, InAttempt

\* A step of a query: the execution is outside.
LEMMA ReaderAlone ==
  ASSUME Inv, ReaderFine', ~Working, UNCHANGED <<worker, flight>>,
         Recorded' => Recorded,
         queue' \in {{}, {"reader"}}, Reading' => queue' = {"reader"},
         reader'.todo \subseteq Recoverable',
         reader'.pc = "verdict" \/ (reader'.pc \in {"recover", "reconcile", "settle"} /\ reader'.kind = "get") =>
            Cardinality(Attempts') <= MaxListed,
         reader'.pc = "final" /\ reader'.verdict \in Denied \union {None} => flight = {} /\ ~Recorded,
         answer' \in Denied => flight = {} /\ ~Recorded
  PROVE  QueueSound'
<1>1. ~Working'
  BY DEF Working
<1>2. worker'.pc \notin InAttempt
  BY <1>1 DEF Working, InAttempt
<1> QED BY <1>1, <1>2 DEF QueueSound, InAttempt

\* The steps of the execution.
LEMMA QueueWorker ==
  ASSUME Inv, abandons = 0, NewProposal \/ Endorse \/ Submit \/ RecordSubmitted \/ AwaitStatus
                             \/ Reconcile \/ Settle \/ RefreshWorker
  PROVE  QueueSound'
<1>0. /\ Typed /\ worker \in Execute /\ Working /\ UNCHANGED <<reader, answer>>
      /\ worker.pc \in InAttempt => /\ worker.tx \in Attempts /\ outbox[worker.tx].status \in Unsettled
  BY WorkerIs DEF Inv, QueueSound, Working, InAttempt, NewProposal, Endorse, Submit, RecordSubmitted,
     AwaitStatus, Reconcile, Settle, RefreshWorker, bounds
<1>1. \A hint : Done(hint) => ~Working' /\ queue' = queue \ {"worker"} /\ worker'.pc \notin InAttempt
  BY IdleIs DEF Done, Leave, Working, InAttempt
<1>2. ASSUME worker' = [worker EXCEPT !.pc = "refreshing"] \/ worker' = [worker EXCEPT !.pc = "refreshing", !.status = None]
      PROVE  Working' /\ worker'.pc \notin InAttempt
  BY <1>0, <1>2 DEF Working, InAttempt, Execute
<1>3. CASE NewProposal
  <2>1. ASSUME NEW t \in TxIds \ Attempts, RecordAttempt(t), worker' = [worker EXCEPT !.pc = "endorsing", !.tx = t]
        PROVE  Working' /\ outbox'[worker'.tx].status \in Unsettled
    <3>1. outbox'[t].status \in Unsettled
      BY <1>0, <2>1, RecordIs DEF Unsettled
    <3>2. worker'.pc = "endorsing" /\ worker'.tx = t
      BY <1>0, <2>1 DEF Execute
    <3> QED BY <3>1, <3>2 DEF Working
  <2> QED BY <1>0, <1>1, <1>2, <1>3, <2>1, WorkerAlone DEF NewProposal, Unauthorized
<1>4. CASE Endorse
  <2>1. ASSUME worker' = [worker EXCEPT !.pc = "submitting"], Update(worker.tx, "endorsed", FALSE)
        PROVE  Working' /\ outbox'[worker'.tx].status \in Unsettled
    <3>1. outbox'[worker.tx].status \in Unsettled
      BY <1>0, <1>4, <2>1, UpdateIs DEF Unsettled, States, Endorse, InAttempt
    <3>2. worker'.pc = "submitting" /\ worker'.tx = worker.tx
      BY <1>0, <2>1 DEF Execute
    <3> QED BY <3>1, <3>2 DEF Working
  <2> QED BY <1>0, <1>1, <1>2, <1>4, <2>1, WorkerAlone DEF Endorse, Unauthorized
<1>5. CASE Submit
  <2>1. ASSUME NEW status, worker' = [worker EXCEPT !.pc = "submitted", !.status = status], UNCHANGED outbox
        PROVE  Working' /\ outbox'[worker'.tx].status \in Unsettled
    <3>1. worker'.pc = "submitted" /\ worker'.tx = worker.tx
      BY <1>0, <2>1 DEF Execute
    <3> QED BY <1>0, <1>5, <2>1, <3>1 DEF Working, Submit, InAttempt
  <2> QED BY <1>0, <1>1, <1>5, <2>1, WorkerAlone DEF Submit, Unauthorized
<1>6. CASE RecordSubmitted
  <2>1. worker.tx \in Attempts /\ worker.status \in Unsettled /\ (worker.status = "acknowledged") \in BOOLEAN
    BY <1>0, <1>6 DEF RecordSubmitted, InAttempt, Inv, WorkerSound, Unsettled
  <2>2. outbox'[worker.tx].status \in Unsettled
    BY <1>0, <1>6, <2>1, UpdateIs DEF RecordSubmitted, States
  <2>3. worker'.pc = "status" /\ worker'.tx = worker.tx
    BY <1>0, <1>6 DEF RecordSubmitted, Execute
  <2> QED BY <1>0, <1>6, <2>2, <2>3, WorkerAlone DEF RecordSubmitted, Working
<1>7. CASE AwaitStatus
  <2>1. worker'.pc \in {"settling", "reconciling"} /\ worker'.tx = worker.tx
    BY <1>0, <1>7 DEF AwaitStatus, Execute
  <2> QED BY <1>0, <1>7, <2>1, WorkerAlone DEF AwaitStatus, Working, durable, InAttempt
<1>8. CASE Reconcile
  <2>1. worker'.pc \in {"refreshing", "settling"} /\ worker'.tx = worker.tx
    BY <1>0, <1>8 DEF Reconcile, Execute
  <2> QED BY <1>0, <1>8, <2>1, WorkerAlone DEF Reconcile, Working, durable, InAttempt
<1>9. CASE Settle
  BY <1>0, <1>1, <1>2, <1>9, WorkerAlone DEF Settle
<1>10. CASE RefreshWorker
  BY <1>0, <1>1, <1>10, WorkerAlone DEF RefreshWorker
<1> QED BY <1>3, <1>4, <1>5, <1>6, <1>7, <1>8, <1>9, <1>10

\* (QueryObserve)
LEMMA QueueObserve == ASSUME Inv, [Next]_vars, abandons = 0, QueryObserve PROVE QueueSound'
<1>0. /\ Typed /\ reader \in Query /\ QueueSound /\ ReaderFine' /\ queue = {}
      /\ reader.pc = "queued" /\ reader.todo = {} /\ Recoverable' = Recoverable /\ Attempts' = Attempts
      /\ UNCHANGED <<worker, flight, outbox>> /\ (Recorded' => Recorded)
  BY ReaderStep DEF Inv, Typed, QueryObserve, Free, channel, durable, Recoverable, Attempts, ReaderSound,
     Recorded, RecordedIn, ValidIn
<1>1. ~Working /\ (answer \in Denied => flight = {} /\ ~Recorded)
  BY <1>0 DEF QueueSound
<1>2. CASE reader' = NoQuery /\ queue' = queue /\ answer' \in {answer, "committed"}
  <2>1. reader'.pc = "idle" /\ reader'.todo = {}
    BY <1>2, NoQueryIs
  <2> QED BY <1>0, <1>1, <1>2, <2>1, DeniedIs, ReaderAlone DEF Reading
<1>3. CASE queue' = {"reader"} /\ UNCHANGED answer
  <2>0. queue' = {"reader"} /\ UNCHANGED answer
    BY <1>3
  <2>1. CASE Attempts = {} /\ reader' = [reader EXCEPT !.pc = "final"]
    <3>1. flight = {} /\ ~Recorded
      BY <2>1 DEF Attempts, Inv, RowsTellTruth, Sent, Typed, TypeOK, Recorded, RecordedIn, Valid
    <3>2. reader'.pc = "final" /\ reader'.todo = {}
      BY <1>0, <2>1 DEF Query
    <3> QED BY <1>0, <1>1, <2>0, <3>1, <3>2, ReaderAlone
  <2>2. CASE reader' = [reader EXCEPT !.pc = "final", !.verdict = "pending"]
    <3>1. reader'.pc = "final" /\ reader'.todo = {} /\ reader'.verdict = "pending"
      BY <1>0, <2>2 DEF Query
    <3> QED BY <1>0, <1>1, <2>0, <3>1, DeniedIs, ReaderAlone
  <2>3. CASE ~TooMany /\ \E t \in Recoverable : reader' = [reader EXCEPT !.pc = "recover", !.todo = {t}]
    <3>1. PICK t \in Recoverable : reader' = [reader EXCEPT !.pc = "recover", !.todo = {t}]
      BY <2>3
    <3>2. reader'.pc = "recover" /\ reader'.todo = {t}
      BY <1>0, <3>1 DEF Query
    <3>3. Cardinality(Attempts) <= MaxListed
      <4>1. Cardinality(Attempts) \in Nat
        BY <1>0, FS_CardinalityType DEF Typed
      <4> QED BY <2>3, <4>1, BoundsAssumption DEF TooMany
    <3> QED BY <1>0, <1>1, <2>0, <3>1, <3>2, <3>3, ReaderAlone
  <2>4. CASE reader' = [reader EXCEPT !.pc = "final", !.verdict = VerdictOf(Rows(Attempts))]
    <3>1. reader'.pc = "final" /\ reader'.todo = {} /\ reader'.verdict = VerdictOf(Rows(Attempts))
      BY <1>0, <2>4 DEF Query
    <3>2. VerdictOf(Rows(Attempts)) # None
      BY NoneAssumption DEF VerdictOf, Settled, Unsettled
    <3> QED BY <1>0, <1>1, <2>0, <3>1, <3>2, AllFailed, ReaderAlone
  <2> QED BY <1>0, <1>3, <2>1, <2>2, <2>3, <2>4 DEF QueryObserve
<1>4. \/ reader' = NoQuery /\ queue' = queue /\ answer' \in {answer, "committed"}
      \/ queue' = {"reader"} /\ UNCHANGED answer
  BY <1>0 DEF QueryObserve, Enter
<1> QED BY <1>2, <1>3, <1>4

\* The steps of a query or of the recovery inside the queue.
LEMMA QueueReader ==
  ASSUME Inv, [Next]_vars, abandons = 0, Recovery \/ Recovered \/ QueryVerdict \/ QueryFinal
  PROVE  QueueSound'
<1>0. /\ Typed /\ reader \in Query /\ QueueSound /\ ReaderFine' /\ queue = {"reader"} /\ ~Working
      /\ UNCHANGED <<worker, flight>> /\ (Recorded' => Recorded) /\ Attempts' = Attempts
  <2>1. /\ Typed /\ reader \in Query /\ QueueSound /\ ReaderFine' /\ Reading
        /\ UNCHANGED <<worker, flight>> /\ (Recorded' => Recorded)
    BY ReaderStep DEF Inv, Typed, Recovery, RecoverStatus, RecoverReconcile, RecoverSettle, Recovered,
       QueryVerdict, QueryFinal, channel, Recorded, RecordedIn, ValidIn, Reading
  <2>2. Attempts' = Attempts
    <3>1. CASE RecoverSettle
      <4>1. reader.tx \in Attempts /\ reader.status \in States
        BY <3>1 DEF RecoverSettle, Inv, ReaderSound, Evidence, Statements, States, Settled, Typed, TypeOK
      <4> QED BY <2>1, <3>1, <4>1, UpdateIs DEF RecoverSettle
    <3>2. CASE UNCHANGED outbox
      BY <3>2 DEF Attempts
    <3> QED BY <3>1, <3>2 DEF Recovery, RecoverStatus, RecoverReconcile, Recovered, QueryVerdict, QueryFinal, durable
  <2> QED BY <2>1, <2>2 DEF QueueSound
<1>1. /\ answer \in Denied => flight = {} /\ ~Recorded
      /\ reader.todo \subseteq Recoverable /\ Recoverable \subseteq TxIds
      /\ reader.pc = "verdict" \/ (reader.pc \in {"recover", "reconcile", "settle"} /\ reader.kind = "get") =>
           Cardinality(Attempts) <= MaxListed
  BY <1>0 DEF QueueSound, Recoverable, Attempts
<1>2. CASE RecoverStatus
  <2>1. reader'.pc \in {"settle", "reconcile"} /\ reader'.kind = reader.kind /\ reader'.todo = reader.todo
    BY <1>0, <1>2 DEF RecoverStatus, Query
  <2>2. Recoverable' = Recoverable /\ UNCHANGED <<queue, answer>>
    BY <1>2 DEF RecoverStatus, durable, Recoverable, Attempts
  <2> QED BY <1>0, <1>1, <1>2, <2>1, <2>2, ReaderAlone DEF RecoverStatus
<1>3. CASE RecoverReconcile
  <2>0. Recoverable' = Recoverable /\ UNCHANGED <<queue, answer>> /\ reader.pc = "reconcile"
    BY <1>3 DEF RecoverReconcile, durable, Recoverable, Attempts
  <2>1. CASE reader' = Onward(reader.todo \ {reader.tx})
    <3> PICK todo \in SUBSET TxIds : todo = reader.todo \ {reader.tx}
      BY <1>1
    <3>1. /\ reader'.todo = todo /\ reader'.kind = reader.kind
          /\ reader'.pc \in {"recover", "verdict"} /\ (reader'.pc = "verdict" => reader.kind = "get")
      BY <1>0, <2>1, OnwardIs
    <3> QED BY <1>0, <1>1, <2>0, <3>1, ReaderAlone
  <2>2. CASE \E out : reader' = [reader EXCEPT !.pc = "settle", !.status = out]
    <3>1. reader'.pc = "settle" /\ reader'.kind = reader.kind /\ reader'.todo = reader.todo
      BY <1>0, <2>2 DEF Query
    <3> QED BY <1>0, <1>1, <2>0, <3>1, ReaderAlone
  <2> QED BY <1>3, <2>1, <2>2 DEF RecoverReconcile
<1>4. CASE RecoverSettle
  <2>0. UNCHANGED <<queue, answer>> /\ reader.pc = "settle"
    BY <1>4 DEF RecoverSettle
  <2> PICK todo \in SUBSET TxIds : todo = reader.todo \ {reader.tx}
    BY <1>1
  <2>1. /\ reader'.todo = todo /\ reader'.kind = reader.kind
        /\ reader'.pc \in {"recover", "verdict"} /\ (reader'.pc = "verdict" => reader.kind = "get")
    BY <1>0, <1>4, OnwardIs DEF RecoverSettle
  <2>2. reader.tx \in Attempts /\ reader.status \in States
    BY <1>4 DEF RecoverSettle, Inv, ReaderSound, Evidence, Statements, States, Settled, Typed, TypeOK
  <2>3. \A u \in TxIds \ {reader.tx} : outbox'[u] = outbox[u]
    BY <1>0, <1>4, <2>2, UpdateIs DEF RecoverSettle
  <2>4. todo \subseteq Recoverable'
    BY <1>0, <1>1, <2>3 DEF Recoverable
  <2> QED BY <1>0, <1>1, <2>0, <2>1, <2>4, ReaderAlone
<1>5. CASE Recovered
  <2>1. queue' = {} /\ answer' = answer /\ reader' \in {NoQuery, Startup}
    BY <1>0, <1>5 DEF Recovered, Leave
  <2>2. reader'.pc \in {"idle", "queued"} /\ reader'.todo = {}
    BY <2>1, NoQueryIs
  <2> QED BY <1>0, <1>1, <2>1, <2>2, ReaderAlone DEF Reading
<1>6. CASE QueryVerdict
  <2>1. PICK ts \in Listings : reader' = [reader EXCEPT !.pc = "final", !.verdict = VerdictOf(Rows(ts))]
    BY <1>6 DEF QueryVerdict
  <2>2. reader'.pc = "final" /\ reader'.verdict = VerdictOf(Rows(ts)) /\ reader'.todo = reader.todo /\ reader.todo = {}
    BY <1>0, <1>6, <2>1 DEF Query, Inv, ReaderSound, QueryVerdict
  <2>3. Cardinality(Attempts) <= MaxListed + 1
    <3>1. Cardinality(Attempts) \in Nat /\ Cardinality(Attempts) <= MaxListed
      BY <1>0, <1>1, <1>6, FS_CardinalityType DEF QueryVerdict, Typed
    <3> QED BY <3>1, BoundsAssumption
  <2>4. ts = Attempts
    BY <1>0, <2>3, ListedAll
  <2>5. VerdictOf(Rows(ts)) # None
    BY NoneAssumption DEF VerdictOf, Settled, Unsettled
  <2>6. VerdictOf(Rows(ts)) \in Denied => flight = {} /\ ~Recorded
    BY <2>4, AllFailed
  <2>7. UNCHANGED <<queue, answer>>
    BY <1>6 DEF QueryVerdict
  <2> QED BY <1>0, <1>1, <2>2, <2>5, <2>6, <2>7, ReaderAlone
<1>7. CASE QueryFinal
  <2>1. queue' = {} /\ reader'.pc = "idle" /\ reader'.todo = {} /\ reader.pc = "final"
    BY <1>0, <1>7, NoQueryIs DEF QueryFinal, Leave
  <2>2. answer' \in Denied => flight = {} /\ ~Recorded
    <3>1. CASE answer' = answer
      BY <1>1, <3>1
    <3>2. CASE answer' = FinalAnswer
      <4>1. reader.verdict \in Denied \union {None} => flight = {} /\ ~Recorded
        BY <1>0, <2>1 DEF QueueSound
      <4> QED BY <3>2, <4>1, DeniedIs DEF FinalAnswer
    <3> QED BY <1>7, <3>1, <3>2 DEF QueryFinal
  <2> QED BY <1>0, <2>1, <2>2, ReaderAlone DEF Reading
<1> QED BY <1>2, <1>3, <1>4, <1>5, <1>6, <1>7 DEF Recovery

\* Before the first refresh was abandoned, the queue keeps everybody apart.
LEMMA QueueStep == ASSUME Inv, [Next]_vars, abandons' = 0 PROVE QueueSound'
<1>0. abandons = 0 /\ Typed /\ QueueSound /\ worker \in Execute /\ reader \in Query
  <2>1. abandons \in Nat
    BY BoundsAssumption DEF Inv, Typed, TypeOK
  <2>2. abandons' = abandons \/ abandons' = abandons + 1
    BY DEF Next, Execution, Recovery, vars, bounds, Commit, Send, Preflight, NewProposal, Endorse, Submit,
        RecordSubmitted, AwaitStatus, Reconcile, Settle, RefreshWorker, QueryBegin, QueryObserve,
        StartRecovery, RecoverStatus, RecoverReconcile, RecoverSettle, Recovered, QueryVerdict, QueryFinal,
        Abandon, Crash
  <2> QED BY <2>1, <2>2 DEF Inv, Typed
<1>1. CASE UNCHANGED vars
  BY <1>0, <1>1 DEF vars, QueueSound, Working, Reading, Recoverable, Attempts, Recorded, RecordedIn, ValidIn
<1>2. CASE \E t \in TxIds : Commit(t)
  BY <1>0, <1>2 DEF Commit, durable, bounds, QueueSound, Working, Reading, Recoverable, Attempts
<1>3. CASE Send
  <2>1. worker'.pc = "queued" /\ ~Working
    BY <1>0, <1>3 DEF Send, Execute, Working
  <2> QED BY <1>0, <1>3, <2>1
          DEF Send, channel, bounds, QueueSound, Working, Reading, Recoverable, Attempts, Recorded, RecordedIn, ValidIn
<1>4. CASE Preflight
  <2>1. queue = {} /\ ~Working /\ ~Reading
    BY <1>0, <1>4 DEF Preflight, Free, QueueSound
  <2>2. UNCHANGED <<outbox, reader, flight>> /\ Recoverable' = Recoverable /\ Attempts' = Attempts
        /\ (Recorded' <=> Recorded)
    BY <1>4 DEF Preflight, channel, Recoverable, Attempts, Recorded, RecordedIn, ValidIn
  <2>3. ~Reading' /\ reader'.pc \in {"idle", "queued"} /\ (reader'.todo \subseteq Recoverable')
    BY <1>0, <2>1, <2>2 DEF Reading, QueueSound
  <2>4. CASE worker' = Idle /\ UNCHANGED <<queue, answer>>
    <3>1. ~Working' /\ worker'.pc = "idle"
      BY <2>4, IdleIs DEF Working
    <3> QED BY <1>0, <2>1, <2>2, <2>3, <2>4, <3>1 DEF QueueSound
  <2>5. CASE worker' = [worker EXCEPT !.pc = "proposing"] /\ queue' = queue \union {"worker"} /\ answer' = None
    <3>1. worker'.pc = "proposing"
      BY <1>0, <2>5 DEF Execute
    <3> QED BY <1>0, <2>1, <2>2, <2>3, <2>5, <3>1, DeniedIs DEF QueueSound
  <2> QED BY <1>4, <2>4, <2>5 DEF Preflight, Enter
<1>5. CASE \E what \in {"get", "list"} : QueryBegin(what)
  <2>1. PICK what \in {"get", "list"} : QueryBegin(what)
    BY <1>5
  <2>2. reader'.pc \in {"idle", "queued"} /\ reader'.todo = {} /\ answer' \in {answer, "committed"}
    BY <2>1, NoQueryIs DEF QueryBegin, NoQuery
  <2>3. ~Reading'
    BY <2>2 DEF Reading
  <2> QED BY <1>0, <2>1, <2>2, <2>3, DeniedIs
          DEF QueryBegin, channel, bounds, QueueSound, Working, Recoverable, Attempts, Recorded, RecordedIn, ValidIn
<1>6. CASE StartRecovery
  <2>1. queue = {} /\ queue' = {"reader"} /\ ~Working
    BY <1>0, <1>6 DEF StartRecovery, Enter, Free, QueueSound
  <2>2. reader'.pc = "recover" /\ reader'.kind = "startup" /\ reader'.todo = Recoverable
    BY <1>6, NoQueryIs DEF StartRecovery, Query
  <2>3. UNCHANGED <<worker, flight, outbox, answer>> /\ Recoverable' = Recoverable /\ (Recorded' => Recorded)
    BY <1>6 DEF StartRecovery, durable, channel, Recoverable, Attempts, Recorded, RecordedIn, ValidIn
  <2> QED BY <1>0, <2>1, <2>2, <2>3, ReaderStep, ReaderAlone DEF QueueSound
<1>7. CASE Abandon
  <2>1. abandons' = abandons + 1
    BY <1>7 DEF Abandon
  <2> QED BY <1>0, <2>1
<1>8. CASE Crash
  <2>1. ~Working' /\ ~Reading' /\ queue' = {} /\ reader'.todo = {} /\ worker'.pc = "idle" /\ reader'.pc = "queued"
    BY <1>8, IdleIs, NoQueryIs DEF Crash, Working, Reading
  <2> QED BY <1>0, <1>8, <2>1
          DEF Crash, channel, durable, QueueSound, Recorded, RecordedIn, ValidIn
<1> QED BY <1>0, <1>1, <1>2, <1>3, <1>4, <1>5, <1>6, <1>7, <1>8, QueueWorker, QueueObserve, QueueReader
        DEF Next, Execution

------------------------------------------------------------------------------
(* The theorems. *)

\* Nothing was sent, nothing recorded, nobody was told anything.
LEMMA InvInit == Init => Inv
<1> SUFFICES ASSUME Init PROVE Inv
  OBVIOUS
<1>0. chain = <<>> /\ Len(chain) = 0 /\ DOMAIN chain = {} /\ worker = Idle /\ reader = NoQuery
  BY DEF Init
<1>1. Attempts = {} /\ Recoverable = {}
  BY DEF Init, Attempts, Recoverable
<1>2. chain \in Seq([tx : TxIds, valid : BOOLEAN])
  BY <1>0
<1>3. worker \in Execute /\ reader \in Query /\ worker.pc = "idle" /\ reader.pc = "idle" /\ reader.todo = {}
  BY <1>0, IdleIs, NoQueryIs
<1>4. TypeOK
  BY <1>0, <1>2, <1>3, BoundsAssumption DEF Init, TypeOK, Pcs, ReaderPcs, Answers
<1>5. Typed
  BY <1>1, <1>3, <1>4, FS_EmptySet DEF Typed
<1>6. \A t : ~Sent(t)
  BY <1>0 DEF Init, Sent, Valid, ValidIn, Invalid
<1>7. ~Recorded
  BY <1>6 DEF Sent, Recorded, RecordedIn, Valid
<1>8. RowsTellTruth
  BY <1>6 DEF RowsTellTruth, Init
<1>9. ChannelSound /\ WorkerSound /\ ReaderSound
  BY <1>0, <1>3 DEF ChannelSound, WorkerSound, ReaderSound
<1>10. QueueSound
  BY <1>1, <1>3, DeniedIs DEF Init, QueueSound, Working, Reading
<1> QED BY <1>5, <1>8, <1>9, <1>10 DEF Inv

\* Every step keeps the invariant, part by part.
LEMMA InvStep == Inv /\ [Next]_vars => Inv'
  BY TypedStep, RowsStep, QueueStep DEF Inv

\* What the outbox holds and what a client was told is what the channel says,
\* whatever times out, crashes or runs beside (gateway.ts, service.ts).
THEOREM OutboxTellsTruth == Spec => []OutboxSound
<1>1. Inv => OutboxSound
  BY DEF Inv, Typed, QueueSound, OutboxSound, DeniedIsFinal
<1> QED BY <1>1, InvInit, InvStep, PTL DEF Spec

\* While nobody reset the queue, what is settled of an attempt is not written
\* over (serial in application-ledger.ts).
THEOREM SettledForGood == Spec => SettledStays
<1>1. Inv /\ [Next]_vars =>
        [\A t \in Attempts : outbox[t].status \in Settled /\ abandons = 0
            => outbox'[t].status = outbox[t].status]_vars
  <2> SUFFICES ASSUME Inv, Next, abandons = 0, NEW t \in Attempts, outbox[t].status \in Settled
               PROVE  outbox'[t].status = outbox[t].status
    BY DEF vars
  <2>0. /\ Typed /\ QueueSound /\ t \in TxIds /\ outbox[t].status \notin Unsettled
        /\ worker.pc \in InAttempt => worker.tx \in Attempts /\ worker.tx # t
        /\ reader.pc \in {"reconcile", "settle"} => reader.tx \in Attempts /\ reader.tx # t
    <3>1. outbox[t].status \notin Unsettled
      BY DEF Unsettled, Settled
    <3> QED BY <3>1, WorkerIs DEF Inv, QueueSound, InAttempt, ReaderSound, Recoverable, Attempts, Typed, TypeOK
  <2>1. CASE UNCHANGED outbox
    BY <2>1
  <2>2. ASSUME NEW u \in Attempts, u # t, NEW status \in States, NEW ack \in BOOLEAN, Update(u, status, ack)
        PROVE  outbox'[t].status = outbox[t].status
    BY <2>0, <2>2, UpdateIs
  <2>3. CASE NewProposal
    <3>1. CASE \E u \in TxIds \ Attempts : RecordAttempt(u)
      BY <2>0, <3>1, RecordIs
    <3> QED BY <2>1, <2>3, <3>1 DEF NewProposal
  <2>4. CASE Endorse
    BY <2>0, <2>2, <2>4 DEF Endorse, InAttempt, States, Unsettled, Settled
  <2>5. CASE Submit
    BY <2>0, <2>1, <2>2, <2>5 DEF Submit, InAttempt, States, Unsettled, Settled
  <2>6. CASE RecordSubmitted
    <3>1. worker.status \in States /\ (worker.status = "acknowledged") \in BOOLEAN
      BY <2>6 DEF RecordSubmitted, Inv, WorkerSound, States, Unsettled
    <3> QED BY <2>0, <2>2, <2>6, <3>1 DEF RecordSubmitted, InAttempt
  <2>7. CASE Settle
    <3>1. worker.status \in States
      BY <2>7 DEF Settle, Inv, WorkerSound, Evidence, Statements, States, Settled
    <3> QED BY <2>0, <2>2, <2>7, <3>1 DEF Settle, InAttempt
  <2>8. CASE RecoverSettle
    <3>1. reader.status \in States
      BY <2>8 DEF RecoverSettle, Inv, ReaderSound, Evidence, Statements, States, Settled
    <3> QED BY <2>0, <2>2, <2>8, <3>1 DEF RecoverSettle
  <2> QED BY <2>1, <2>3, <2>4, <2>5, <2>6, <2>7, <2>8
          DEF Next, Execution, Recovery, durable, Commit, Send, Preflight, AwaitStatus, Reconcile,
              RefreshWorker, QueryBegin, QueryObserve, StartRecovery, RecoverStatus, RecoverReconcile,
              Recovered, QueryVerdict, QueryFinal, Abandon, Crash
<1> QED BY <1>1, InvInit, InvStep, PTL DEF Spec, SettledStays

\* A query that looked at every attempt denies only what is not, and will not
\* be, recorded (observeCommand in gateway.ts).
THEOREM DenialsSound == Spec => DenialIsSound
<1>1. Inv /\ [Next]_vars =>
        [(reader'.verdict \in Denied /\ reader.verdict = None /\ Cardinality(Attempts) <= MaxListed + 1)
            => flight = {} /\ ~Recorded]_vars
  BY DenialStep
<1> QED BY <1>1, InvInit, InvStep, PTL DEF Spec, DenialIsSound
===============================================================================
