----------------------------- MODULE LocalLedger -----------------------------
(***************************************************************************)
(* packages/storage/local-ledger.ts: the single-writer journal that stands *)
(* in for the channel in local runs.  Each command runs in one BEGIN       *)
(* IMMEDIATE transaction: the handler reads through the derived tables,    *)
(* its writes become one journal row chained to the row before it, are     *)
(* applied to the derived tables with a cross-check of every key, and      *)
(* enter the browse index once COMMIT returned.  The journal is durable    *)
(* truth; projection, history and index are derived from it and rebuilt    *)
(* from it whenever the file is opened.                                    *)
(*                                                                         *)
(* Faults: the process crashes at any moment, a statement or COMMIT fails, *)
(* a row of a derived table is lost or reverts to an older value (a        *)
(* restored or repaired file), a journal row is altered while the ledger   *)
(* is closed.  A transaction of SQLite is durable as a whole or not at     *)
(* all.  A second process writing the same file is not modelled: the       *)
(* journal is documented as single-writer.                                 *)
(***************************************************************************)
EXTENDS StateValidation, Sequences

CONSTANTS
    MaxQueue,      \* bound: transactions waiting behind the running one
    MaxCrashes,    \* bound: crashes and closes
    DamageCells,   \* the cells <<prefix, key>> that may be damaged
    MaxDamage,     \* bound: damaged rows
    Boot           \* the bootstrap call; every other call is a command

VARIABLES
    journal,     \* ledger_transactions: the world each row's write set leads to
    altered,     \* a journal row no longer matches its block hash
    projection,  \* the projection table: the current value of every key
    history,     \* projection_history: what selectHistoryAt gives per sequence number
    cursor,      \* projection_cursor
    index,       \* revisions and agreements in the in-memory browse index
    open,        \* the ledger object is constructed and not closed
    queue,       \* calls of transact waiting for their turn
    running,     \* the call inside BEGIN IMMEDIATE, or None
    clean,       \* no derived row was damaged since the tables were rebuilt
    receipts,    \* an answer some caller remembers: at most one [call, sequence]
    crashes, damages

vars == <<journal, altered, projection, history, cursor, index, open, queue,
          running, clean, receipts, crashes, damages>>

tables == <<projection, history, cursor, clean>>
counters == <<crashes, damages>>

------------------------------------------------------------------------------
(* Write sets and the worlds they build. *)

KeyPrefixes == DOMAIN EmptyWorld
Cells == UNION {{<<f, k>> : k \in DOMAIN EmptyWorld[f]} : f \in KeyPrefixes}
Calls == Commands \union {Boot}

\* The placeholder is no call and the bootstrap no command; only cells that
\* exist can be damaged.
ASSUME LocalAssumption ==
    /\ Boot \notin Commands /\ None \notin Calls /\ DamageCells \subseteq Cells
    /\ {MaxQueue, MaxCrashes, MaxDamage} \subseteq Nat

\* The writes that turn world w into v: a function from changed cells.
Diff(w, v) == [x \in {y \in Cells : w[y[1]][y[2]] # v[y[1]][y[2]]} |-> v[x[1]][x[2]]]

\* A world with the cells of a write set replaced.
Upsert(w, writes) ==
    [f \in KeyPrefixes |->
        [k \in DOMAIN w[f] |-> IF <<f, k>> \in DOMAIN writes THEN writes[<<f, k>>] ELSE w[f][k]]]

\* The world after the first n rows, and at the tip.
At(worlds, n) == IF n = 0 THEN EmptyWorld ELSE worlds[n]
Latest(worlds) == At(worlds, Len(worlds))

\* read(): a key is served only when both derived tables agree on it.
Diverged == LET h == Latest(history) IN
            {x \in Cells : projection[x[1]][x[2]] # h[x[1]][x[2]]}

\* assertCheckpoint, and what a read pinned to a checkpoint then returns.
Known(n) == n \in DOMAIN journal /\ n <= cursor
ReadAt(n) == At(history, n)

\* The references an index holds for a journal: browse writes are the
\* revision, proposal and agreement keys, under the row that created them.
BrowsePrefixes == {"revision", "proposal", "agreement"}
FirstWrites(worlds, n) ==
    UNION {{<<f, k, n>> : k \in {k \in Written(At(worlds, n - 1), worlds[n], f) :
                                    At(worlds, n - 1)[f][k] = EmptyWorld[f][k]}}
             : f \in BrowsePrefixes}
Indexed(worlds) == UNION {FirstWrites(worlds, n) : n \in DOMAIN worlds}

------------------------------------------------------------------------------
(* The handler of a call, run against what read() gives it. *)

Refused(w, call) ==
    IF call = Boot THEN w.channel.config ELSE ~Accepts(w, call) /\ ~Replays(w, call)

Outcome(w, call) ==
    IF call = Boot THEN Bootstrapped(w)
    ELSE IF Replays(w, call) THEN w
    ELSE Executed(w, call)

\* Fault: the handler reads the projection table alone.
TrustsProjection(call) == TRUE

\* A handler reads some of the keys, at least those its outcome depends on;
\* a key on which the derived tables disagree makes the read throw.
MeetsNoDivergence(call) ==
    \/ Diverged = {}
    \/ /\ Refused(projection, call) = Refused(Latest(history), call)
       /\ ~Refused(projection, call) =>
             Diff(projection, Outcome(projection, call))
               = Diff(Latest(history), Outcome(Latest(history), call))

------------------------------------------------------------------------------
(* Opening: the constructor validates the chain, then rebuildProjection     *)
(* deletes the derived tables and replays every row into them.              *)

Init ==
    /\ journal = <<>> /\ altered = FALSE
    /\ projection = EmptyWorld /\ history = <<>> /\ cursor = 0
    /\ index = {} /\ open = FALSE
    /\ queue = <<>> /\ running = None /\ clean = TRUE /\ receipts = {}
    /\ crashes = 0 /\ damages = 0

\* Every replayed row passes validateStateWrite, the immutability check and
\* validateStateLinks against the rows before it.
Replayable(worlds) == \A n \in DOMAIN worlds : Applicable(At(worlds, n - 1), worlds[n])

Rebuilt ==
    /\ projection' = Latest(journal)
    /\ history' = journal
    /\ cursor' = Len(journal)
    /\ clean' = TRUE

Open ==
    /\ ~open /\ ~altered /\ Replayable(journal)
    /\ Rebuilt
    /\ index' = Indexed(journal)
    /\ open' = TRUE
    /\ UNCHANGED <<journal, altered, queue, running, receipts, counters>>

\* close(), or the process dies: memory is gone, the open transaction is
\* rolled back and the waiting callers get no answer.
Stop ==
    /\ open /\ crashes < MaxCrashes
    /\ crashes' = crashes + 1
    /\ open' = FALSE /\ index' = {} /\ queue' = <<>> /\ running' = None
    /\ UNCHANGED <<journal, altered, tables, receipts, damages>>

------------------------------------------------------------------------------
(* transact *)

\* A caller's operation is chained behind the operations before it.
Transact(call) ==
    /\ open /\ Len(queue) < MaxQueue
    /\ queue' = Append(queue, call)
    /\ UNCHANGED <<journal, altered, tables, index, open, running, receipts, counters>>

\* The turn comes: BEGIN IMMEDIATE, and the handler starts.
Begin ==
    /\ open /\ running = None /\ queue # <<>>
    /\ running' = Head(queue) /\ queue' = Tail(queue)
    /\ UNCHANGED <<journal, altered, tables, index, open, receipts, counters>>

\* Fault: the index takes the write set when it is prepared.
IndexedEarly ==
    /\ running' = None
    /\ index' = Indexed(IF Refused(Latest(journal), running) THEN journal
                        ELSE Append(journal, Outcome(Latest(journal), running)))
    /\ UNCHANGED <<journal, altered, tables, open, queue, receipts>>

RolledBack ==
    /\ running' = None
    /\ UNCHANGED <<journal, altered, tables, index, open, queue, receipts>>

\* The handler refuses the command, or a read meets diverged tables.
HandlerThrows ==
    /\ running # None
    /\ Refused(projection, running) \/ Diverged # {}
    /\ RolledBack
    /\ UNCHANGED counters

\* A statement, the index preparation or COMMIT fails: ROLLBACK.
StatementFails ==
    /\ running # None
    /\ RolledBack
    /\ UNCHANGED counters

\* The caller is told; whether it is the one who remembers is open.
Told(receipt) == receipts' \in {receipts, IF receipts = {} THEN {receipt} ELSE receipts}

\* No write and an earlier row: the answer points at the tip.
AnswerReplay ==
    /\ running \in Commands
    /\ MeetsNoDivergence(running) /\ Replays(projection, running)
    /\ Told([call |-> running, sequence |-> Len(journal)])
    /\ running' = None
    /\ UNCHANGED <<journal, altered, tables, index, open, queue, counters>>

\* apply of a live write set: every written key is read through both tables,
\* no immutable record changes, and the links hold once all are staged.
ApplyPasses(writes) ==
    /\ \A x \in DOMAIN writes : x \notin Diverged
    /\ Applicable(projection, Upsert(projection, writes))

\* The row, the derived tables and COMMIT are one SQLite transaction; the
\* index takes the write set only after COMMIT returned.  answered is FALSE
\* when the process dies between COMMIT and the caller's answer.
Commit(answered) ==
    LET writes == Diff(projection, Outcome(projection, running)) IN
    /\ running # None
    /\ ~Refused(projection, running) /\ MeetsNoDivergence(running)
    /\ DOMAIN writes # {}
    /\ ApplyPasses(writes)
    /\ journal' = Append(journal, Upsert(Latest(journal), writes))
    /\ projection' = Upsert(projection, writes)
    /\ history' = Append(history, Upsert(Latest(history), writes))
    /\ cursor' = Len(journal')
    /\ UNCHANGED clean
    /\ running' = None
    /\ \/ /\ answered
          /\ index' = Indexed(journal')
          /\ Told([call |-> running, sequence |-> Len(journal')])
          /\ UNCHANGED <<open, queue, crashes>>
       \/ /\ ~answered /\ crashes < MaxCrashes
          /\ crashes' = crashes + 1
          /\ open' = FALSE /\ index' = {} /\ queue' = <<>>
          /\ UNCHANGED receipts
    /\ UNCHANGED <<altered, damages>>

------------------------------------------------------------------------------
(* Damage. *)

\* The value a cell had some rows ago, or none, is put back in one table.
OldValue(x, n) == At(journal, n)[x[1]][x[2]]

LoseProjectionRow(x, n) ==
    /\ damages < MaxDamage /\ n \in 0..Len(journal)
    /\ projection[x[1]][x[2]] # OldValue(x, n)
    /\ projection' = [projection EXCEPT ![x[1]][x[2]] = OldValue(x, n)]
    /\ damages' = damages + 1 /\ clean' = FALSE
    /\ UNCHANGED <<journal, altered, history, cursor, index, open, queue, running,
                   receipts, crashes>>

\* Row <<x, n>> of the history is lost: up to the next row of that key, the
\* key reads as it did before n.
LoseHistoryRow(x, n) ==
    LET before == At(history, n - 1)[x[1]][x[2]]
        row(m) == m >= n /\ \A i \in n..m : history[i][x[1]][x[2]] = history[n][x[1]][x[2]]
    IN
    /\ damages < MaxDamage
    /\ history[n][x[1]][x[2]] # before
    /\ history' = [m \in DOMAIN history |->
                     IF row(m) THEN [history[m] EXCEPT ![x[1]][x[2]] = before] ELSE history[m]]
    /\ damages' = damages + 1 /\ clean' = FALSE
    /\ UNCHANGED <<journal, altered, projection, cursor, index, open, queue, running,
                   receipts, crashes>>

AlterJournal ==
    /\ ~open /\ ~altered /\ journal # <<>> /\ damages < MaxDamage
    /\ altered' = TRUE
    /\ damages' = damages + 1
    /\ UNCHANGED <<journal, tables, index, open, queue, running, receipts, crashes>>

------------------------------------------------------------------------------
Next ==
    \/ Open \/ Stop
    \/ \E call \in Calls : Transact(call)
    \/ Begin \/ HandlerThrows \/ StatementFails \/ AnswerReplay
    \/ \E answered \in BOOLEAN : Commit(answered)
    \/ \E x \in DamageCells, n \in 0..Len(journal) : LoseProjectionRow(x, n)
    \/ \E x \in DamageCells, n \in DOMAIN history : LoseHistoryRow(x, n)
    \/ AlterJournal

Spec == Init /\ [][Next]_vars

------------------------------------------------------------------------------
(* Properties. *)

\* The journal is an implementation of the agreement ledger: whatever
\* crashes, fails or is damaged, its rows replay to the worlds a sequence of
\* atomic domain commands produces, and no damaged value ever becomes part
\* of it.
Channel == INSTANCE Agreement WITH ledger <- Latest(journal)
ImplementsAgreement == Channel!Spec

\* While the ledger is open and no row was damaged since, each table and the index
\* say what the journal says, at its tip and at every earlier checkpoint: a
\* failed statement or a crash between row, tables and index leaves no trace.
DerivedFromJournal ==
    open =>
        /\ cursor = Len(journal)
        /\ index = Indexed(journal)
        /\ clean => /\ projection = Latest(journal)
                    /\ \A n \in DOMAIN journal : Known(n) /\ ReadAt(n) = journal[n]

\* What a caller was told stays so through crashes and rebuilds: the row its
\* receipt names exists, and a command's receipt is for a world that holds
\* the record of exactly that command.
ReceiptsSurvive ==
    \A r \in receipts :
        /\ r.sequence \in DOMAIN journal
        /\ r.call # Boot =>
              LET stored == At(journal, r.sequence).idempotency[IdempotencyKey(r.call)] IN
              stored # None /\ stored.command = r.call

\* The journal is the truth: tables, index and receipts all follow from it.
JournalRules == DerivedFromJournal /\ ReceiptsSurvive
==============================================================================
