----------------------------- MODULE Stores_proofs -----------------------------
(***************************************************************************)
(* The journals of Stores.tla are the truth, for every configuration, every *)
(* set of commands and blocks and every number of crashes.                  *)
(*                                                                          *)
(* Local ledger: the tables and the index follow from the journal, receipts *)
(* survive, and the journal implements the agreement ledger, as long as at  *)
(* most one row of a derived table is damaged: the two tables check each    *)
(* other.                                                                   *)
(*                                                                          *)
(* Projection: what a process keeps follows from the blocks it verified,    *)
(* whatever became of its file, and a file nobody damaged holds them; so    *)
(* every answer is the journal's, and without damage there is one.          *)
(***************************************************************************)
EXTENDS Stores, AgreementDomain_proofs

------------------------------------------------------------------------------
(* Worlds, cell by cell. *)

\* A world as the tables know it: one value for each cell.
Shape(w) ==
    /\ w = [f \in KeyPrefixes |-> w[f]]
    /\ \A f \in KeyPrefixes : w[f] = [k \in DOMAIN EmptyWorld[f] |-> w[f][k]]

\* What the cells are.
LEMMA CellIs ==
    ASSUME NEW f, NEW k
    PROVE  <<f, k>> \in Cells <=> f \in KeyPrefixes /\ k \in DOMAIN EmptyWorld[f]
  BY DEF Cells

\* A cell is a pair of a key prefix and a key of that prefix.
LEMMA CellParts ==
    ASSUME NEW x \in Cells
    PROVE  x = <<x[1], x[2]>> /\ x[1] \in KeyPrefixes /\ x[2] \in DOMAIN EmptyWorld[x[1]]
  BY DEF Cells

\* Every world the engine can leave is one.
LEMMA WorldShape ==
    ASSUME NEW w \in World
    PROVE  Shape(w)
  <1>1. KeyPrefixes = {"channel", "revision", "revision_id", "proposal", "review_counter", "decision",
                       "latest_decision", "agreement", "active_slot", "idempotency", "fence"}
    BY DEF KeyPrefixes, EmptyWorld
  <1>2. w = [f \in KeyPrefixes |-> w[f]]
    BY <1>1 DEF World
  <1>3. \A f \in KeyPrefixes : w[f] = [k \in DOMAIN EmptyWorld[f] |-> w[f][k]]
    BY <1>1 DEF World, EmptyWorld
  <1> QED BY <1>2, <1>3 DEF Shape

\* Worlds that agree on every cell are the same.
LEMMA SameCells ==
    ASSUME NEW w, NEW v, Shape(w), Shape(v), \A x \in Cells : w[x[1]][x[2]] = v[x[1]][x[2]]
    PROVE  w = v
  <1>1. \A f \in KeyPrefixes : \A k \in DOMAIN EmptyWorld[f] : w[f][k] = v[f][k]
    <2> TAKE f \in KeyPrefixes
    <2> TAKE k \in DOMAIN EmptyWorld[f]
    <2>1. <<f, k>> \in Cells /\ <<f, k>>[1] = f /\ <<f, k>>[2] = k
      BY CellIs
    <2> QED BY <2>1
  <1>2. \A f \in KeyPrefixes : w[f] = v[f]
    BY <1>1 DEF Shape
  <1> QED BY <1>2 DEF Shape


\* A write set over any world: what it writes is there, and nothing else moved.
LEMMA UpsertIs ==
    ASSUME NEW w, Shape(w), NEW writes
    PROVE  /\ Shape(Upsert(w, writes))
           /\ \A x \in Cells : Upsert(w, writes)[x[1]][x[2]] =
                IF x \in DOMAIN writes THEN writes[x] ELSE w[x[1]][x[2]]
  <1>1. \A f \in KeyPrefixes : \A k \in DOMAIN EmptyWorld[f] :
          Upsert(w, writes)[f][k] = IF <<f, k>> \in DOMAIN writes THEN writes[<<f, k>>] ELSE w[f][k]
    BY DEF Upsert, Shape
  <1>2. Shape(Upsert(w, writes))
    BY DEF Upsert, Shape
  <1>3. ASSUME NEW x \in Cells
        PROVE  Upsert(w, writes)[x[1]][x[2]] = IF x \in DOMAIN writes THEN writes[x] ELSE w[x[1]][x[2]]
    <2>1. x = <<x[1], x[2]>> /\ x[1] \in KeyPrefixes /\ x[2] \in DOMAIN EmptyWorld[x[1]]
      BY CellParts
    <2> QED BY <1>1, <2>1
  <1> QED BY <1>2, <1>3

\* What a write set holds.
LEMMA DiffIs ==
    ASSUME NEW w, NEW v
    PROVE  /\ \A x : x \in DOMAIN Diff(w, v) <=> x \in Cells /\ w[x[1]][x[2]] # v[x[1]][x[2]]
           /\ \A x : x \in DOMAIN Diff(w, v) => Diff(w, v)[x] = v[x[1]][x[2]]
  BY DEF Diff

\* The write set of a command leads to the world it was taken from.
LEMMA UpsertDiff ==
    ASSUME NEW w, NEW v, Shape(w), Shape(v)
    PROVE  Upsert(w, Diff(w, v)) = v
  <1>1. PICK u : u = Upsert(w, Diff(w, v))
    OBVIOUS
  <1>2. Shape(u) /\ \A x \in Cells : u[x[1]][x[2]] = IF x \in DOMAIN Diff(w, v) THEN Diff(w, v)[x] ELSE w[x[1]][x[2]]
    BY <1>1, UpsertIs
  <1>3. ASSUME NEW x \in Cells
        PROVE  u[x[1]][x[2]] = v[x[1]][x[2]]
    <2>1. x \in DOMAIN Diff(w, v) <=> w[x[1]][x[2]] # v[x[1]][x[2]]
      BY DiffIs
    <2>2. x \in DOMAIN Diff(w, v) => Diff(w, v)[x] = v[x[1]][x[2]]
      BY DiffIs
    <2> QED BY <1>2, <2>1, <2>2
  <1> QED BY <1>1, <1>2, <1>3, SameCells

------------------------------------------------------------------------------
(* The handler of a call. *)

\* A call leaves a world of the same shape, and one that is accepted leaves its
\* record.
LEMMA OutcomeIs ==
    ASSUME NEW w \in World, NEW call \in Calls, ~Refused(w, call)
    PROVE  /\ Outcome(w, call) \in World
           /\ \/ Outcome(w, call) = w
              \/ call = Boot /\ ~w.channel.config /\ Outcome(w, call) = Bootstrapped(w)
              \/ call \in Commands /\ Accepts(w, call) /\ Outcome(w, call) = Executed(w, call)
  <1>1. CASE call = Boot
    <2>1. Outcome(w, call) = Bootstrapped(w) /\ ~w.channel.config
      BY <1>1 DEF Outcome, Refused
    <2>2. Bootstrapped(w) \in World
      BY DEF Bootstrapped, World
    <2> QED BY <1>1, <2>1, <2>2
  <1>2. CASE call # Boot
    <2>1. call \in Commands
      BY <1>2 DEF Calls
    <2>2. CASE Replays(w, call)
      BY <1>2, <2>2 DEF Outcome
    <2>3. CASE ~Replays(w, call)
      <3>1. Accepts(w, call) /\ Outcome(w, call) = Executed(w, call)
        BY <1>2, <2>3 DEF Outcome, Refused
      <3> QED BY <2>1, <3>1, ExecutedType
    <2> QED BY <2>2, <2>3
  <1> QED BY <1>1, <1>2

\* The record of a command that was executed or is repeated is in the world.
Recorded(w, c) ==
    /\ w.idempotency[IdempotencyKey(c)] # None
    /\ w.idempotency[IdempotencyKey(c)].command = c

\* An executed command leaves its record, and so changes the world: transact
\* stores a row for every command that is not a replay.
LEMMA ExecutedRecorded ==
    ASSUME NEW w \in World, NEW c \in Commands, Accepts(w, c)
    PROVE  /\ Recorded(Executed(w, c), c)
           /\ Diff(w, Executed(w, c)) # Diff(w, w)
  <1>1. Executed(w, c) \in World /\ After(w, c) \in World
    BY ExecutedType, AfterType DEF Accepts
  <1>2. IdempotencyKey(c) \in Orgs \X CommandIds
    BY CommandShape, ConfigAssumption DEF IdempotencyKey
  <1>3. [command |-> c, result |-> ResultOf(w, c)] \in IdempotencyRecord
    BY ResultType DEF Accepts, IdempotencyRecord
  <1>4. Executed(w, c).idempotency[IdempotencyKey(c)] = [command |-> c, result |-> ResultOf(w, c)]
    BY <1>1, <1>2 DEF Executed, World
  <1>5. Recorded(Executed(w, c), c)
    BY <1>3, <1>4, NoneAssumption DEF Recorded
  <1>6. PICK x : x = <<"idempotency", IdempotencyKey(c)>>
    OBVIOUS
  <1>7. x \in Cells /\ x[1] = "idempotency" /\ x[2] = IdempotencyKey(c)
    BY <1>2, <1>6, CellIs DEF KeyPrefixes, EmptyWorld
  <1>8. w[x[1]][x[2]] # Executed(w, c)[x[1]][x[2]]
    BY <1>5, <1>7 DEF Recorded, Accepts, Fresh
  <1>9. x \in DOMAIN Diff(w, Executed(w, c)) /\ x \notin DOMAIN Diff(w, w)
    BY <1>7, <1>8, DiffIs
  <1> QED BY <1>5, <1>9


\* Worlds are made of cells: one whose every cell is that of some world is one.
LEMMA CellsWorld ==
    ASSUME NEW w, Shape(w), \A x \in Cells : \E u \in World : w[x[1]][x[2]] = u[x[1]][x[2]]
    PROVE  w \in World
  <1>1. KeyPrefixes = {"channel", "revision", "revision_id", "proposal", "review_counter", "decision",
                       "latest_decision", "agreement", "active_slot", "idempotency", "fence"}
    BY DEF KeyPrefixes, EmptyWorld
  <1>2. \A f \in KeyPrefixes : \A k \in DOMAIN EmptyWorld[f] : \E u \in World : w[f][k] = u[f][k]
    <2> TAKE f \in KeyPrefixes
    <2> TAKE k \in DOMAIN EmptyWorld[f]
    <2>1. <<f, k>> \in Cells /\ <<f, k>>[1] = f /\ <<f, k>>[2] = k
      BY CellIs
    <2> QED BY <2>1
  <1>3. w.channel \in [config : BOOLEAN, eligibility_epoch : Nat]
    <2>1. w["channel"] = [k \in {"config", "eligibility_epoch"} |-> w["channel"][k]]
      BY <1>1 DEF Shape, EmptyWorld
    <2>2. w["channel"]["config"] \in BOOLEAN /\ w["channel"]["eligibility_epoch"] \in Nat
      BY <1>1, <1>2 DEF EmptyWorld, World
    <2> QED BY <2>1, <2>2
  <1>4. w.revision \in [Revisions -> BOOLEAN] /\ w.revision_id \in [RevisionIds -> Revisions \union {None}]
    BY <1>1, <1>2 DEF Shape, EmptyWorld, World
  <1>5. /\ w.proposal \in [Proposals -> Proposal \union {None}]
        /\ w.review_counter \in [Proposals -> Nat \union {None}]
    BY <1>1, <1>2 DEF Shape, EmptyWorld, World
  <1>6. /\ w.decision \in [Decisions -> Decision \union {None}]
        /\ w.latest_decision \in [Proposals \X Roles \X Actors -> Decisions \union {None}]
    BY <1>1, <1>2 DEF Shape, EmptyWorld, World
  <1>7. /\ w.agreement \in [Agreements -> AgreementRecord \union {None}]
        /\ w.active_slot \in [Slots -> Agreements \union {None}]
    BY <1>1, <1>2 DEF Shape, EmptyWorld, World
  <1>8. /\ w.idempotency \in [Orgs \X CommandIds -> IdempotencyRecord \union {None}]
        /\ w.fence \in [Nonces -> Nat \union {None}]
    BY <1>1, <1>2 DEF Shape, EmptyWorld, World
  <1>9. w = [channel |-> w.channel, revision |-> w.revision, revision_id |-> w.revision_id,
             proposal |-> w.proposal, review_counter |-> w.review_counter, decision |-> w.decision,
             latest_decision |-> w.latest_decision, agreement |-> w.agreement,
             active_slot |-> w.active_slot, idempotency |-> w.idempotency, fence |-> w.fence]
    BY <1>1 DEF Shape
  <1> QED BY <1>3, <1>4, <1>5, <1>6, <1>7, <1>8, <1>9 DEF World

\* A world with one cell replaced.
CellSet(w, x, v) == [w EXCEPT ![x[1]][x[2]] = v]

\* The other cells stay.
LEMMA CellReplaced ==
    ASSUME NEW w \in World, NEW x \in Cells, NEW v, NEW u, u = CellSet(w, x, v)
    PROVE  /\ Shape(u)
           /\ \A y \in Cells : u[y[1]][y[2]] = IF y = x THEN v ELSE w[y[1]][y[2]]
  <1>1. Shape(w)
    BY WorldShape
  <1>2. x[1] \in KeyPrefixes /\ x[2] \in DOMAIN EmptyWorld[x[1]] /\ x = <<x[1], x[2]>>
    BY CellParts
  <1>3. PICK a, b : a = x[1] /\ b = x[2] /\ x = <<a, b>>
    BY <1>2
  <1>4. u = [f \in KeyPrefixes |-> IF f = a THEN [w[a] EXCEPT ![b] = v] ELSE w[f]]
    BY <1>1, <1>2, <1>3 DEF Shape, CellSet
  <1>5. \A f \in KeyPrefixes : \A k \in DOMAIN EmptyWorld[f] :
          u[f][k] = IF f = a /\ k = b THEN v ELSE w[f][k]
    <2>1. TAKE f \in KeyPrefixes
    <2>2. TAKE k \in DOMAIN EmptyWorld[f]
    <2>3. PICK g : g = w[f]
      OBVIOUS
    <2>4. k \in DOMAIN g
      BY <1>1, <2>3 DEF Shape
    <2>5. [g EXCEPT ![b] = v][k] = IF k = b THEN v ELSE g[k]
      BY <2>4
    <2>6. u[f] = IF f = a THEN [g EXCEPT ![b] = v] ELSE g
      BY <1>4, <2>3
    <2> QED BY <2>3, <2>5, <2>6
  <1>6. Shape(u)
    BY <1>1, <1>4 DEF Shape
  <1>7. ASSUME NEW y \in Cells
        PROVE  u[y[1]][y[2]] = IF y = x THEN v ELSE w[y[1]][y[2]]
    <2>1. y = <<y[1], y[2]>> /\ y[1] \in KeyPrefixes /\ y[2] \in DOMAIN EmptyWorld[y[1]]
      BY CellParts
    <2>2. y = x <=> y[1] = a /\ y[2] = b
      BY <1>3, <2>1
    <2> QED BY <1>5, <2>1, <2>2
  <1> QED BY <1>6, <1>7

\* A world with some cells of others is a world.
LEMMA ReplacedWorld ==
    ASSUME NEW w \in World, NEW x \in Cells, NEW o \in World
    PROVE  CellSet(w, x, o[x[1]][x[2]]) \in World
  <1>0. PICK v : v = o[x[1]][x[2]]
    OBVIOUS
  <1>1. PICK u : u = CellSet(w, x, v)
    OBVIOUS
  <1>2. Shape(u) /\ \A y \in Cells : u[y[1]][y[2]] = IF y = x THEN v ELSE w[y[1]][y[2]]
    BY <1>1, CellReplaced
  <1>3. u \in World
    BY <1>0, <1>2, CellsWorld
  <1> QED BY <1>0, <1>1, <1>3


------------------------------------------------------------------------------
(* The local ledger: at most one of the two tables is damaged, so that what *)
(* both say is what the journal says.                                       *)

\* A receipt is for a row that holds what its caller was told.
ReceiptSound(r) ==
    /\ r.sequence \in DOMAIN journal
    /\ r.call # Boot => Recorded(At(journal, r.sequence), r.call)

\* Every row, and what the tables make of it, is a world of the engine.
Rows ==
    /\ journal \in Seq(World) /\ history \in Seq(World) /\ projection \in World
    /\ Len(history) = Len(journal) /\ cursor = Len(journal)

\* A damaged row is in one table only, and the other is the journal's.
OneDamaged ==
    /\ damages \in Nat /\ damages <= MaxDamage
    /\ damages = 0 => clean
    /\ clean => projection = Latest(journal) /\ history = journal
    /\ projection = Latest(journal) \/ history = journal

JournalInv ==
    /\ Rows /\ OneDamaged
    /\ running \in Calls \union {None} /\ queue \in Seq(Calls)
    /\ open => index = Indexed(journal)
    /\ \A r \in receipts : ReceiptSound(r)

\* The tables start as a world in which nothing was ever written.
LEMMA EmptyIsWorld == EmptyWorld \in World
  BY DEF EmptyWorld, World

\* The world after any number of rows.
LEMMA AtIsWorld ==
    ASSUME NEW rs \in Seq(World)
    PROVE  Latest(rs) \in World /\ \A n \in 0..Len(rs) : At(rs, n) \in World
  BY EmptyIsWorld DEF At, Latest

\* Where the tables agree they are the same.
LEMMA NotDiverged ==
    ASSUME Rows, Diverged = {}
    PROVE  projection = Latest(history)
  <1>1. Latest(history) \in World /\ projection \in World
    BY AtIsWorld DEF Rows
  <1>2. \A x \in Cells : projection[x[1]][x[2]] = Latest(history)[x[1]][x[2]]
    BY DEF Diverged
  <1> QED BY <1>1, <1>2, WorldShape, SameCells

\* What the handler makes of the tables is what it would make of the journal.
LEMMA HandlerSees ==
    ASSUME JournalInv, NEW call \in Calls, MeetsNoDivergence(call), ~Refused(projection, call)
    PROVE  /\ ~Refused(Latest(journal), call)
           /\ Diff(projection, Outcome(projection, call)) = Diff(Latest(journal), Outcome(Latest(journal), call))
  <1>1. Rows /\ (projection = Latest(journal) \/ history = journal)
    BY DEF JournalInv, OneDamaged
  <1>2. CASE projection = Latest(journal)
    BY <1>2
  <1>3. CASE history = journal /\ Diverged = {}
    BY <1>1, <1>3, NotDiverged
  <1>4. CASE history = journal /\ Diverged # {}
    BY <1>4 DEF MeetsNoDivergence
  <1> QED BY <1>1, <1>2, <1>3, <1>4

\* A new row, taken from the tables, is the one the journal calls for.
LEMMA NewRow ==
    ASSUME JournalInv, NEW call \in Calls, MeetsNoDivergence(call), ~Refused(projection, call),
           NEW writes, writes = Diff(projection, Outcome(projection, call)), DOMAIN writes # {}
    PROVE  /\ Upsert(Latest(journal), writes) = Outcome(Latest(journal), call)
           /\ Outcome(Latest(journal), call) \in World
           /\ \/ call = Boot /\ ~Latest(journal).channel.config
                 /\ Outcome(Latest(journal), call) = Bootstrapped(Latest(journal))
              \/ /\ call \in Commands /\ Accepts(Latest(journal), call)
                 /\ Outcome(Latest(journal), call) = Executed(Latest(journal), call)
  <1>1. PICK w : w = Latest(journal)
    OBVIOUS
  <1>2. w \in World
    BY <1>1, AtIsWorld DEF JournalInv, Rows
  <1>3. ~Refused(w, call) /\ writes = Diff(w, Outcome(w, call))
    BY <1>1, HandlerSees
  <1>4. Outcome(w, call) \in World
    BY <1>2, <1>3, OutcomeIs
  <1>5. Upsert(w, writes) = Outcome(w, call)
    BY <1>2, <1>3, <1>4, WorldShape, UpsertDiff
  <1>6. Outcome(w, call) # w
    <2>1. DOMAIN Diff(w, w) = {}
      BY DiffIs
    <2> QED BY <1>3, <2>1
  <1> QED BY <1>1, <1>2, <1>3, <1>4, <1>5, <1>6, OutcomeIs

\* A new database satisfies the invariant.
LEMMA JournalInit ==
    ASSUME Init
    PROVE  JournalInv
  <1>1. journal = <<>> /\ history = <<>> /\ projection = EmptyWorld /\ cursor = 0 /\ Len(journal) = 0
    BY DEF Init
  <1>2. Latest(journal) = EmptyWorld
    BY <1>1 DEF Latest, At
  <1>3. Rows
    BY <1>1, EmptyIsWorld DEF Rows
  <1>4. damages = 0 /\ clean = TRUE /\ running = None /\ queue = <<>> /\ open = FALSE /\ receipts = {}
    BY DEF Init
  <1>5. OneDamaged
    BY <1>1, <1>2, <1>4, LocalAssumption DEF OneDamaged
  <1> QED BY <1>3, <1>4, <1>5 DEF JournalInv


\* A step that leaves the rows and the tables alone.
LEMMA RowsStay ==
    ASSUME JournalInv, UNCHANGED <<journal, projection, history, cursor, clean, damages>>
    PROVE  Rows' /\ OneDamaged' /\ \A r \in receipts : ReceiptSound(r)'
  BY DEF JournalInv, Rows, OneDamaged, ReceiptSound

\* Opening replays the journal into both tables.
LEMMA OpenKeeps ==
    ASSUME JournalInv, Open
    PROVE  JournalInv'
  <1>1. /\ projection' = Latest(journal) /\ history' = journal /\ cursor' = Len(journal) /\ clean' = TRUE
        /\ index' = Indexed(journal) /\ UNCHANGED <<journal, queue, running, receipts, damages>>
    BY DEF Open, Rebuilt, counters
  <1>2. Rows'
    BY <1>1, AtIsWorld DEF JournalInv, Rows
  <1>3. OneDamaged'
    BY <1>1 DEF JournalInv, OneDamaged
  <1>4. \A r \in receipts' : ReceiptSound(r)'
    BY <1>1 DEF JournalInv, ReceiptSound
  <1> QED BY <1>1, <1>2, <1>3, <1>4 DEF JournalInv

\* Closing, a crash, and the steps of a call up to its end.
LEMMA QuietKeeps ==
    ASSUME JournalInv,
           \/ Stop \/ Begin \/ HandlerThrows \/ StatementFails
           \/ \E call \in Calls : Transact(call)
    PROVE  JournalInv'
  <1>1. UNCHANGED <<journal, projection, history, cursor, clean, damages, receipts>>
    BY DEF Stop, Begin, HandlerThrows, StatementFails, Transact, RolledBack, tables, counters
  <1>2. Rows' /\ OneDamaged' /\ \A r \in receipts' : ReceiptSound(r)'
    BY <1>1, RowsStay
  <1>3. running' \in Calls \union {None} /\ queue' \in Seq(Calls)
    <2>1. CASE Begin
      <3>1. queue # <<>> /\ queue \in Seq(Calls) /\ running' = Head(queue) /\ queue' = Tail(queue)
        BY <2>1 DEF Begin, JournalInv
      <3> QED BY <3>1
    <2>2. CASE Stop
      BY <2>2 DEF Stop, JournalInv
    <2>3. CASE HandlerThrows \/ StatementFails
      BY <2>3 DEF HandlerThrows, StatementFails, RolledBack, JournalInv
    <2>4. ASSUME NEW call \in Calls, Transact(call)
          PROVE  running' \in Calls \union {None} /\ queue' \in Seq(Calls)
      BY <2>4 DEF Transact, JournalInv
    <2> QED BY <2>1, <2>2, <2>3, <2>4
  <1>4. open' => index' = Indexed(journal')
    BY <1>1 DEF Stop, Begin, HandlerThrows, StatementFails, Transact, RolledBack, JournalInv
  <1> QED BY <1>2, <1>3, <1>4 DEF JournalInv

\* A repeat is answered at the tip, which holds its record.
LEMMA ReplayKeeps ==
    ASSUME JournalInv, AnswerReplay
    PROVE  JournalInv'
  <1>1. /\ running \in Commands /\ MeetsNoDivergence(running) /\ Replays(projection, running)
        /\ Told([call |-> running, sequence |-> Len(journal)])
        /\ running' = None
        /\ UNCHANGED <<journal, projection, history, cursor, clean, index, open, queue, damages>>
    BY DEF AnswerReplay, tables, counters
  <1>2. Rows' /\ OneDamaged' /\ \A r \in receipts : ReceiptSound(r)'
    BY <1>1, RowsStay
  <1>3. running \in Calls /\ running # Boot
    BY <1>1, LocalAssumption DEF Calls
  <1>4. ~Refused(projection, running) /\ Outcome(projection, running) = projection
    BY <1>1, <1>3 DEF Refused, Outcome
  <1>5. PICK w : w = Latest(journal)
    OBVIOUS
  <1>6. w \in World
    BY <1>5, AtIsWorld DEF JournalInv, Rows
  <1>7. ~Refused(w, running) /\ Diff(w, Outcome(w, running)) = Diff(projection, projection)
    BY <1>1, <1>3, <1>4, <1>5, HandlerSees
  <1>8. Outcome(w, running) = w
    <2>1. DOMAIN Diff(w, Outcome(w, running)) = {}
      BY <1>7, DiffIs
    <2>2. Shape(w) /\ Shape(Outcome(w, running))
      BY <1>3, <1>6, <1>7, OutcomeIs, WorldShape
    <2>3. \A x \in Cells : w[x[1]][x[2]] = Outcome(w, running)[x[1]][x[2]]
      BY <2>1, DiffIs
    <2> QED BY <2>2, <2>3, SameCells
  <1>9. Recorded(w, running)
    <2>1. CASE Replays(w, running)
      BY <2>1 DEF Replays, Recorded
    <2>2. CASE ~Replays(w, running)
      <3>1. Accepts(w, running) /\ Outcome(w, running) = Executed(w, running)
        BY <1>3, <1>7, <2>2 DEF Refused, Outcome
      <3> QED BY <1>1, <1>6, <1>8, <3>1, ExecutedRecorded
    <2> QED BY <2>1, <2>2
  <1>10. Len(journal) \in DOMAIN journal /\ At(journal, Len(journal)) = w
    <2>1. w # EmptyWorld
      <3>1. IdempotencyKey(running) \in Orgs \X CommandIds
        BY <1>1, CommandShape, ConfigAssumption DEF IdempotencyKey
      <3> QED BY <1>9, <3>1 DEF Recorded, EmptyWorld
    <2>2. journal \in Seq(World) /\ Len(journal) \in Nat
      BY DEF JournalInv, Rows
    <2>3. Len(journal) # 0
      BY <1>5, <2>1, <2>2 DEF Latest, At
    <2> QED BY <1>5, <2>2, <2>3 DEF Latest
  <1>11. PICK r : r = [call |-> running, sequence |-> Len(journal)]
    OBVIOUS
  <1>12. ReceiptSound(r)'
    <2>1. r.call = running /\ r.sequence = Len(journal)
      BY <1>11
    <2> QED BY <1>1, <1>5, <1>9, <1>10, <2>1 DEF ReceiptSound
  <1>13. \A q \in receipts' : ReceiptSound(q)'
    <2>1. receipts' = receipts \/ receipts' = {r}
      BY <1>1, <1>11 DEF Told
    <2> QED BY <1>2, <1>12, <2>1
  <1> QED BY <1>1, <1>2, <1>13 DEF JournalInv


\* A row more: the tips, and the rows before.
RowMore(rs, w, qs) ==
    /\ qs \in Seq(World) /\ Len(qs) = Len(rs) + 1 /\ Latest(qs) = w
    /\ Len(rs) \in Nat /\ DOMAIN qs = 1..(Len(rs) + 1) /\ DOMAIN rs = 1..Len(rs)
    /\ \A n \in 0..Len(rs) : At(qs, n) = At(rs, n)
    /\ At(qs, Len(rs) + 1) = w

\* An appended world is the tip.
LEMMA RowAdded ==
    ASSUME NEW rs \in Seq(World), NEW w \in World, NEW qs, qs = Append(rs, w)
    PROVE  RowMore(rs, w, qs)
  <1>1. /\ qs \in Seq(World) /\ Len(rs) \in Nat /\ Len(qs) = Len(rs) + 1
        /\ DOMAIN qs = 1..(Len(rs) + 1) /\ DOMAIN rs = 1..Len(rs)
        /\ \A n \in 1..Len(rs) : qs[n] = rs[n]
        /\ qs[Len(rs) + 1] = w
    OBVIOUS
  <1>2. \A n \in 0..Len(rs) : At(qs, n) = At(rs, n)
    BY <1>1 DEF At
  <1>3. At(qs, Len(rs) + 1) = w
    BY <1>1 DEF At
  <1> QED BY <1>1, <1>2, <1>3 DEF Latest, RowMore

\* A write set puts cells of worlds into a world.
LEMMA UpsertWorld ==
    ASSUME NEW w \in World, NEW u \in World, NEW v \in World
    PROVE  Upsert(w, Diff(u, v)) \in World
  <1>1. PICK t : t = Upsert(w, Diff(u, v))
    OBVIOUS
  <1>2. /\ Shape(t)
        /\ \A x \in Cells : t[x[1]][x[2]] = IF x \in DOMAIN Diff(u, v) THEN Diff(u, v)[x] ELSE w[x[1]][x[2]]
    BY <1>1, WorldShape, UpsertIs
  <1>3. ASSUME NEW x \in Cells
        PROVE  \E o \in World : t[x[1]][x[2]] = o[x[1]][x[2]]
    <2>1. x \in DOMAIN Diff(u, v) => Diff(u, v)[x] = v[x[1]][x[2]]
      BY DiffIs
    <2> QED BY <1>2, <2>1
  <1>4. t \in World
    BY <1>2, <1>3, CellsWorld
  <1> QED BY <1>1, <1>4

\* The row, the tables and COMMIT: the journal takes the command as the engine
\* would have executed it.
LEMMA CommitKeeps ==
    ASSUME JournalInv, NEW answered \in BOOLEAN, Commit(answered)
    PROVE  /\ JournalInv'
           /\ \/ /\ ~Latest(journal).channel.config
                 /\ Latest(journal') = Bootstrapped(Latest(journal))
              \/ \E c \in Commands : Accepts(Latest(journal), c) /\ Latest(journal') = Executed(Latest(journal), c)
  <1>1. PICK writes : writes = Diff(projection, Outcome(projection, running))
    OBVIOUS
  <1>2. /\ running # None /\ ~Refused(projection, running) /\ MeetsNoDivergence(running) /\ DOMAIN writes # {}
        /\ ApplyPasses(writes)
        /\ journal' = Append(journal, Upsert(Latest(journal), writes))
        /\ projection' = Upsert(projection, writes)
        /\ history' = Append(history, Upsert(Latest(history), writes))
        /\ cursor' = Len(journal') /\ running' = None /\ UNCHANGED <<clean, damages>>
    BY <1>1 DEF Commit
  <1>3. running \in Calls
    BY <1>2 DEF JournalInv
  <1>4. PICK w : w = Latest(journal)
    OBVIOUS
  <1>5. PICK v : v = Outcome(w, running)
    OBVIOUS
  <1>6. PICK h : h = Latest(history)
    OBVIOUS
  <1>7. w \in World /\ h \in World /\ journal \in Seq(World) /\ history \in Seq(World)
        /\ projection \in World /\ Len(history) = Len(journal)
    BY <1>4, <1>6, AtIsWorld DEF JournalInv, Rows
  <1>8. /\ Upsert(w, writes) = v /\ v \in World
        /\ \/ running = Boot /\ ~w.channel.config /\ v = Bootstrapped(w)
           \/ running \in Commands /\ Accepts(w, running) /\ v = Executed(w, running)
    BY <1>1, <1>2, <1>3, <1>4, <1>5, NewRow
  <1>9. PICK u : u = Upsert(projection, writes)
    OBVIOUS
  <1>10. PICK g : g = Upsert(h, writes)
    OBVIOUS
  <1>11. u \in World /\ g \in World
    <2>1. Outcome(projection, running) \in World
      BY <1>2, <1>3, <1>7, OutcomeIs
    <2> QED BY <1>1, <1>7, <1>9, <1>10, <2>1, UpsertWorld
  <1>12. journal' = Append(journal, v) /\ history' = Append(history, g) /\ projection' = u
    BY <1>2, <1>4, <1>6, <1>8, <1>9, <1>10
  <1>13. /\ journal' \in Seq(World) /\ Len(journal') = Len(journal) + 1 /\ Latest(journal') = v
         /\ Len(journal) \in Nat /\ DOMAIN journal' = 1..(Len(journal) + 1) /\ DOMAIN journal = 1..Len(journal)
         /\ \A n \in 0..Len(journal) : At(journal', n) = At(journal, n)
         /\ At(journal', Len(journal) + 1) = v
    <2>1. RowMore(journal, v, journal')
      BY <1>7, <1>8, <1>12, RowAdded
    <2> QED BY <2>1 DEF RowMore
  <1>14. history' \in Seq(World) /\ Len(history') = Len(history) + 1
    BY <1>7, <1>11, <1>12, RowAdded DEF RowMore
  <1>15. Rows'
    BY <1>2, <1>7, <1>11, <1>12, <1>13, <1>14 DEF Rows
  <1>16. projection = w => u = v
    BY <1>8, <1>9
  <1>17. history = journal => g = v
    BY <1>4, <1>6, <1>8, <1>10
  <1>18. OneDamaged'
    <2>1. /\ damages \in Nat /\ damages <= MaxDamage /\ (damages = 0 => clean)
          /\ (clean => projection = w /\ history = journal)
          /\ projection = w \/ history = journal
      BY <1>4 DEF JournalInv, OneDamaged
    <2>2. projection = w => projection' = Latest(journal')
      BY <1>12, <1>13, <1>16
    <2>3. history = journal => history' = journal'
      BY <1>12, <1>17
    <2> QED BY <1>2, <2>1, <2>2, <2>3 DEF OneDamaged
  <1>19. PICK r : r = [call |-> running, sequence |-> Len(journal')]
    OBVIOUS
  <1>20. ReceiptSound(r)'
    <2>1. r.call = running /\ r.sequence = Len(journal) + 1
      BY <1>13, <1>19
    <2>2. running # Boot => Recorded(v, running)
      BY <1>7, <1>8, ExecutedRecorded
    <2> QED BY <1>13, <2>1, <2>2 DEF ReceiptSound
  <1>21. \A q \in receipts : ReceiptSound(q)'
    <2> SUFFICES ASSUME NEW q \in receipts PROVE ReceiptSound(q)'
      OBVIOUS
    <2>1. q.sequence \in 1..Len(journal) /\ (q.call # Boot => Recorded(At(journal, q.sequence), q.call))
      BY <1>13 DEF JournalInv, ReceiptSound
    <2> QED BY <1>13, <2>1 DEF ReceiptSound
  <1>22. \A q \in receipts' : ReceiptSound(q)'
    <2>1. receipts' = receipts \/ receipts' = {r}
      BY <1>19 DEF Commit, Told
    <2> QED BY <1>20, <1>21, <2>1
  <1>23. (open' => index' = Indexed(journal')) /\ queue' \in Seq(Calls)
    <2>1. \/ index' = Indexed(journal') /\ queue' = queue
          \/ open' = FALSE /\ queue' = <<>>
      BY DEF Commit
    <2>2. queue' = queue \/ queue' = <<>>
      BY <2>1
    <2>3. queue' \in Seq(Calls)
      <3>1. queue \in Seq(Calls)
        BY DEF JournalInv
      <3>2. <<>> \in Seq(Calls)
        OBVIOUS
      <3> QED BY <2>2, <3>1, <3>2
    <2>4. CASE index' = Indexed(journal')
      BY <2>3, <2>4
    <2>5. CASE open' = FALSE
      BY <2>3, <2>5
    <2> QED BY <2>1, <2>4, <2>5
  <1>24. JournalInv'
    BY <1>2, <1>15, <1>18, <1>22, <1>23 DEF JournalInv
  <1> QED BY <1>4, <1>8, <1>13, <1>24

\* A damaged row of the projection, once, leaves the history as it was.
LEMMA ProjectionDamaged ==
    ASSUME MaxDamage <= 1, JournalInv, NEW x \in DamageCells, NEW n \in 0..Len(journal), LoseProjectionRow(x, n)
    PROVE  JournalInv'
  <1>1. /\ damages < MaxDamage /\ projection' = CellSet(projection, x, At(journal, n)[x[1]][x[2]])
        /\ damages' = damages + 1 /\ clean' = FALSE
        /\ UNCHANGED <<journal, history, cursor, index, open, queue, running, receipts>>
    BY DEF LoseProjectionRow, OldValue, CellSet
  <1>2. x \in Cells /\ MaxDamage \in Nat
    BY LocalAssumption
  <1>3. Rows'
    <2>1. At(journal, n) \in World
      BY AtIsWorld DEF JournalInv, Rows
    <2>2. projection' \in World
      BY <1>1, <1>2, <2>1, ReplacedWorld DEF JournalInv, Rows
    <2> QED BY <1>1, <2>2 DEF JournalInv, Rows
  <1>4. OneDamaged'
    <2>1. damages = 0 /\ history = journal /\ damages' = 1
      BY <1>1, <1>2 DEF JournalInv, OneDamaged
    <2> QED BY <1>1, <1>2, <2>1 DEF OneDamaged
  <1>5. \A r \in receipts' : ReceiptSound(r)'
    BY <1>1 DEF JournalInv, ReceiptSound
  <1> QED BY <1>1, <1>3, <1>4, <1>5 DEF JournalInv

\* A damaged row of the history, once, leaves the projection as it was.
LEMMA HistoryDamaged ==
    ASSUME MaxDamage <= 1, JournalInv, NEW x \in DamageCells, NEW n \in DOMAIN history, LoseHistoryRow(x, n)
    PROVE  JournalInv'
  <1>1. PICK before : before = At(history, n - 1)[x[1]][x[2]]
    OBVIOUS
  <1>2. /\ damages < MaxDamage /\ damages' = damages + 1 /\ clean' = FALSE
        /\ UNCHANGED <<journal, projection, cursor, index, open, queue, running, receipts>>
    BY DEF LoseHistoryRow
  <1>3. history' \in [DOMAIN history -> World]
    <2>1. x \in Cells /\ history \in Seq(World) /\ n \in Nat /\ n - 1 \in 0..Len(history)
      BY LocalAssumption DEF JournalInv, Rows
    <2>2. At(history, n - 1) \in World
      BY <2>1, AtIsWorld
    <2>3. \A m \in DOMAIN history : history[m] \in World /\ CellSet(history[m], x, before) \in World
      BY <1>1, <2>1, <2>2, ReplacedWorld
    <2>4. DOMAIN history' = DOMAIN history
          /\ history' = [m \in DOMAIN history |-> history'[m]]
          /\ \A m \in DOMAIN history : history'[m] \in {CellSet(history[m], x, before), history[m]}
      BY <1>1 DEF LoseHistoryRow, CellSet
    <2> QED BY <2>3, <2>4
  <1>4. history' \in Seq(World) /\ Len(history') = Len(history)
    <2>1. PICK k \in Nat : k = Len(history) /\ DOMAIN history = 1..k
      BY DEF JournalInv, Rows
    <2> QED BY <1>3, <2>1
  <1>5. Rows'
    BY <1>2, <1>4 DEF JournalInv, Rows
  <1>6. OneDamaged'
    <2>1. damages = 0 /\ projection = Latest(journal) /\ damages' = 1
      BY <1>2, LocalAssumption DEF JournalInv, OneDamaged
    <2> QED BY <1>2, LocalAssumption, <2>1 DEF OneDamaged
  <1>7. \A r \in receipts' : ReceiptSound(r)'
    BY <1>2 DEF JournalInv, ReceiptSound
  <1> QED BY <1>2, <1>5, <1>6, <1>7 DEF JournalInv

------------------------------------------------------------------------------
(* The refinement: the engine the abstract ledger runs is this one. *)

\* Every operator of the instance reads the same constants and the same world.
LEMMA SameEngine ==
    ASSUME NEW w, NEW c
    PROVE  /\ Channel!Executed(w, c) = Executed(w, c)
           /\ Channel!Accepts(w, c) <=> Accepts(w, c)
           /\ Channel!Bootstrapped(w) = Bootstrapped(w)
  <1>1. Channel!Executed(w, c) = Executed(w, c)
    <2>1. /\ Channel!AfterPublish(w, c) = AfterPublish(w, c)
          /\ Channel!PublishAnswer(w, c) = PublishAnswer(w, c)
      BY Zenon DEF AfterPublish, PublishAnswer, Answer, Channel!AfterPublish, Channel!PublishAnswer,
                   Channel!Answer
    <2>2. Channel!AfterPropose(w, c) = AfterPropose(w, c)
      BY Zenon DEF AfterPropose, Channel!AfterPropose
    <2>3. Channel!SuspendedBy(w, c) = SuspendedBy(w, c)
      BY Zenon DEF SuspendedBy, Suspends, SlotOf, InForce, EndsApproval, ActiveAgreement,
                   Channel!SuspendedBy, Channel!Suspends, Channel!SlotOf, Channel!InForce,
                   Channel!EndsApproval, Channel!ActiveAgreement
    <2>4. Channel!AfterDecide(w, c) = AfterDecide(w, c)
      <3>1. Channel!Record(w, c) = Record(w, c)
        BY Zenon DEF Record, DecisionOf, LatestKey, Channel!Record, Channel!DecisionOf, Channel!LatestKey
      <3>2. Channel!Suspends(w, c) <=> Suspends(w, c)
        BY Zenon DEF Suspends, SlotOf, InForce, EndsApproval, ActiveAgreement, Channel!Suspends,
                     Channel!SlotOf, Channel!InForce, Channel!EndsApproval, Channel!ActiveAgreement
      <3>3. Channel!Deactivate(Record(w, c), SuspendedBy(w, c), "suspended")
              = Deactivate(Record(w, c), SuspendedBy(w, c), "suspended")
        BY Zenon DEF Deactivate, SlotOf, Channel!Deactivate, Channel!SlotOf
      <3> QED BY <2>3, <3>1, <3>2, <3>3, Zenon DEF AfterDecide, Channel!AfterDecide
    <2>5. Channel!AfterActivate(w, c) = AfterActivate(w, c)
      BY Zenon DEF AfterActivate, Agreed, Superseded, SlotOf, LatestOf, RepresentativeOf, RequiredRoles,
                   Channel!AfterActivate, Channel!Agreed, Channel!Superseded, Channel!SlotOf,
                   Channel!LatestOf, Channel!RepresentativeOf, Channel!RequiredRoles
    <2>6. Channel!AfterStatusChange(w, c) = AfterStatusChange(w, c)
      BY Zenon DEF AfterStatusChange, Deactivate, DesiredStatus, SlotOf, Channel!AfterStatusChange,
                   Channel!Deactivate, Channel!DesiredStatus, Channel!SlotOf
    <2>7. Channel!AfterFence(w, c) = AfterFence(w, c)
      BY Zenon DEF AfterFence, Epoch, Channel!AfterFence, Channel!Epoch
    <2>8. Channel!After(w, c) = After(w, c)
      BY <2>1, <2>2, <2>4, <2>5, <2>6, <2>7, Zenon DEF After, Channel!After
    <2>9. Channel!ResultOf(w, c) = ResultOf(w, c)
      BY <2>1, <2>3, Zenon DEF ResultOf, Answer, Epoch, DesiredStatus, Channel!ResultOf,
                               Channel!Answer, Channel!Epoch, Channel!DesiredStatus
    <2> QED BY <2>8, <2>9, Zenon DEF Executed, IdempotencyKey, Channel!Executed, Channel!IdempotencyKey
  <1>2. Channel!Accepts(w, c) <=> Accepts(w, c)
    BY
      DEF SlotOf, RepresentativeOf, RequiredRoles, Required, ApprovalsValid, ActiveAgreement,
          HoldsSlot, Held, Eligible, Visits, RequirementMet, DependencyEligible, Epoch, Human,
          WithinSteps, DependenciesPublished, ParentsPublished, CanPublish, CanPropose, DecisionOf,
          LatestKey, CanRetract, UnusedDecision, PointerIntact, CountersAgree, CanDecide, EndsApproval,
          InForce, LatestOf, Approves, ProposalOpen, CanActivate, CanChangeStatus, CanFence,
          IdempotencyKey, Can, Fresh, Accepts, Cardinality, SumFunction, SumFunctionOnSet,
          FoldFunctionOnSet, MapThenFoldSet, Channel!SlotOf, Channel!RepresentativeOf,
          Channel!RequiredRoles, Channel!Required, Channel!ApprovalsValid, Channel!ActiveAgreement,
          Channel!HoldsSlot, Channel!Held, Channel!Eligible, Channel!Visits, Channel!RequirementMet,
          Channel!DependencyEligible, Channel!Epoch, Channel!Human, Channel!WithinSteps,
          Channel!DependenciesPublished, Channel!ParentsPublished, Channel!CanPublish,
          Channel!CanPropose, Channel!DecisionOf, Channel!LatestKey, Channel!CanRetract,
          Channel!UnusedDecision, Channel!PointerIntact, Channel!CountersAgree, Channel!CanDecide,
          Channel!EndsApproval, Channel!InForce, Channel!LatestOf, Channel!Approves,
          Channel!ProposalOpen, Channel!CanActivate, Channel!CanChangeStatus, Channel!CanFence,
          Channel!IdempotencyKey, Channel!Can, Channel!Fresh, Channel!Accepts, Channel!Cardinality,
          Channel!SumFunction, Channel!SumFunctionOnSet, Channel!FoldFunctionOnSet,
          Channel!MapThenFoldSet
  <1>3. Channel!Bootstrapped(w) = Bootstrapped(w)
    BY DEF Bootstrapped, Channel!Bootstrapped
  <1> QED BY <1>1, <1>2, <1>3

\* Damage, once, to a row the tables have.
LEMMA DamageKeeps ==
    ASSUME MaxDamage <= 1, JournalInv,
           \/ \E x \in DamageCells, n \in 0..Len(journal) : LoseProjectionRow(x, n)
           \/ \E x \in DamageCells, n \in DOMAIN history : LoseHistoryRow(x, n)
           \/ AlterJournal
    PROVE  JournalInv' /\ UNCHANGED journal
  <1>1. CASE \E x \in DamageCells, n \in 0..Len(journal) : LoseProjectionRow(x, n)
    BY <1>1, ProjectionDamaged DEF LoseProjectionRow
  <1>2. CASE \E x \in DamageCells, n \in DOMAIN history : LoseHistoryRow(x, n)
    BY <1>2, HistoryDamaged DEF LoseHistoryRow
  <1>3. CASE AlterJournal
    <2>1. /\ damages < MaxDamage /\ damages' = damages + 1 /\ ~open
          /\ UNCHANGED <<journal, projection, history, cursor, clean, index, open, queue, running, receipts>>
      BY <1>3 DEF AlterJournal, tables
    <2>2. Rows'
      BY <2>1 DEF JournalInv, Rows
    <2>3. OneDamaged'
      BY <2>1, LocalAssumption, SMTT(40) DEF JournalInv, OneDamaged
    <2>4. \A r \in receipts' : ReceiptSound(r)'
      BY <2>1 DEF JournalInv, ReceiptSound
    <2> QED BY <2>1, <2>2, <2>3, <2>4 DEF JournalInv
  <1> QED BY <1>1, <1>2, <1>3

\* Every step keeps the invariant, and the journal changes only as the serial
\* ledger does.
LEMMA JournalStep ==
    ASSUME MaxDamage <= 1, JournalInv, [NextStores]_<<part, vars, feed>>
    PROVE  JournalInv' /\ [Channel!Next]_(Channel!vars)
  <1>1. CASE UNCHANGED vars
    <2>1. UNCHANGED <<journal, altered, projection, history, cursor, clean, index, open, queue, running,
                      receipts, crashes, damages>>
      BY <1>1 DEF vars
    <2>2. Rows' /\ OneDamaged' /\ \A r \in receipts' : ReceiptSound(r)'
      BY <2>1, RowsStay
    <2> QED BY <2>1, <2>2 DEF JournalInv, Channel!vars
  <1>2. CASE Next
    <2>1. CASE \/ Stop \/ Begin \/ HandlerThrows \/ StatementFails
               \/ \E call \in Calls : Transact(call)
      <3>1. UNCHANGED journal
        BY <2>1 DEF Stop, Begin, HandlerThrows, StatementFails, Transact, RolledBack
      <3> QED BY <2>1, <3>1, QuietKeeps DEF Channel!vars
    <2>2. CASE Open
      BY <2>2, OpenKeeps DEF Open, Channel!vars
    <2>3. CASE AnswerReplay
      BY <2>3, ReplayKeeps DEF AnswerReplay, Channel!vars
    <2>4. ASSUME NEW answered \in BOOLEAN, Commit(answered)
          PROVE  JournalInv' /\ [Channel!Next]_(Channel!vars)
      <3>1. /\ JournalInv'
            /\ \/ /\ ~Latest(journal).channel.config
                  /\ Latest(journal') = Bootstrapped(Latest(journal))
               \/ \E c \in Commands : /\ Accepts(Latest(journal), c)
                                      /\ Latest(journal') = Executed(Latest(journal), c)
        BY <2>4, CommitKeeps
      <3>2. CASE /\ ~Latest(journal).channel.config
                 /\ Latest(journal') = Bootstrapped(Latest(journal))
        <4>1. Channel!Bootstrap
          BY <3>2, SameEngine DEF Channel!Bootstrap
        <4> QED BY <3>1, <4>1 DEF Channel!Next
      <3>3. ASSUME NEW c \in Commands, Accepts(Latest(journal), c), Latest(journal') = Executed(Latest(journal), c)
            PROVE  Channel!Next
        <4>1. Channel!Execute(c)
          BY <3>3, SameEngine DEF Channel!Execute
        <4>2. c.type \in CommandTypes
          BY CommandShape
        <4> QED BY <4>1, <4>2 DEF CommandTypes, Channel!Next, Channel!OfType, Channel!PublishRevision,
                   Channel!Propose, Channel!Decide, Channel!Activate, Channel!ChangeStatus, Channel!Fence
      <3> QED BY <3>1, <3>2, <3>3
    <2>5. CASE \/ \E x \in DamageCells, n \in 0..Len(journal) : LoseProjectionRow(x, n)
               \/ \E x \in DamageCells, n \in DOMAIN history : LoseHistoryRow(x, n)
               \/ AlterJournal
      BY <2>5, DamageKeeps DEF Channel!vars
    <2> QED BY <1>2, <2>1, <2>2, <2>3, <2>4, <2>5 DEF Next
  <1> QED BY <1>1, <1>2 DEF NextStores

\* What the invariant says of the tables is what the run checks.
LEMMA JournalRulesHold ==
    ASSUME JournalInv
    PROVE  JournalRules
  <1>1. DerivedFromJournal
    <2>1. ASSUME clean, NEW n \in DOMAIN journal
          PROVE  Known(n) /\ ReadAt(n) = journal[n]
      BY <2>1 DEF JournalInv, Rows, OneDamaged, Known, ReadAt, At
    <2> QED BY <2>1 DEF DerivedFromJournal, JournalInv, Rows, OneDamaged
  <1>2. ReceiptsSurvive
    BY DEF ReceiptsSurvive, JournalInv, ReceiptSound, Recorded
  <1> QED BY <1>1, <1>2 DEF JournalRules

\* Tables, index and receipts of the local ledger follow from its journal,
\* through every crash, failed statement and rebuild and one damaged row
\* (local-ledger.ts: transact, verify, rebuild).
THEOREM JournalIsTruth ==
    ASSUME MaxDamage <= 1
    PROVE  SpecStores => []JournalRules
  <1>1. InitStores => JournalInv
    BY JournalInit DEF InitStores
  <1>2. JournalInv /\ [NextStores]_<<part, vars, feed>> => JournalInv'
    BY JournalStep
  <1>3. JournalInv => JournalRules
    BY JournalRulesHold
  <1> QED BY <1>1, <1>2, <1>3, PTL DEF SpecStores

\* The journal of the local ledger is what a sequence of atomic commands
\* produces: the abstract ledger, implemented step by step (transact).
THEOREM JournalImplements ==
    ASSUME MaxDamage <= 1
    PROVE  SpecStores => ImplementsAgreement
  <1>1. InitStores => JournalInv /\ Channel!Init
    <2>1. EmptyWorld = Channel!EmptyWorld
      BY DEF EmptyWorld, Channel!EmptyWorld
    <2> QED BY <2>1, JournalInit DEF InitStores, Init, Channel!Init, Latest, At
  <1>2. JournalInv /\ [NextStores]_<<part, vars, feed>> => JournalInv' /\ [Channel!Next]_(Channel!vars)
    BY JournalStep
  <1> QED BY <1>1, <1>2, PTL DEF SpecStores, ImplementsAgreement, Channel!Spec

------------------------------------------------------------------------------
(* Recursion over a journal: what each recursive definition of Projection.tla *)
(* is at a block, from what it is one block earlier.                          *)

\* What holds of 0, and of n whenever it holds of n - 1, holds up to N.
LEMMA Ascent ==
    ASSUME NEW N \in Nat, NEW T, 0 \in T, \A n \in 1..N : n - 1 \in T => n \in T
    PROVE  \A n \in 0..N : n \in T
  <1> SUFFICES ASSUME NEW n \in 0..N, n \notin T PROVE FALSE
    OBVIOUS
  <1> DEFINE Missing == {m \in 0..N : m \notin T}
  <1>1. Missing \subseteq Nat /\ n \in Missing
    OBVIOUS
  <1>2. PICK m \in Missing : \A j \in Missing : m <= j
    <2> HIDE DEF Missing
    <2> QED BY <1>1, Least
  <1>3. m \in 1..N /\ m - 1 \in 0..N
    BY <1>2
  <1> QED BY <1>2, <1>3

\* Step n leads from a value x of X to the value F[<<n, x>>] of X.
Closed(F, N, X) == \A n \in 1..N, x \in X : F[<<n, x>>] \in X

\* The values N steps lead through.
Runs(S, F, N, base) == S[0] = base /\ \A n \in 1..N : S[n] = F[<<n, S[n - 1]>>]

\* They are there.
LEMMA Recursion ==
    ASSUME NEW N \in Nat, NEW X, NEW base \in X, NEW F, Closed(F, N, X)
    PROVE  \E S \in [0..N -> X] : Runs(S, F, N, base)
  <1>0. \A n \in 1..N, x \in X : F[<<n, x>>] \in X
    BY DEF Closed
  <1> DEFINE Upto(n, S) == S \in [0..n -> X] /\ S[0] = base /\ \A m \in 1..n : S[m] = F[<<m, S[m - 1]>>]
             T == {n \in 0..N : \E S : Upto(n, S)}
  <1>1. 0 \in T
    <2>1. PICK S : S = [n \in 0..0 |-> base]
      OBVIOUS
    <2>2. S \in [0..0 -> X] /\ S[0] = base /\ 1..0 = {}
      BY <2>1
    <2>3. Upto(0, S)
      BY <2>2
    <2> QED BY <2>3
  <1>2. ASSUME NEW n \in 1..N, n - 1 \in T
        PROVE  n \in T
    <2>1. PICK S : Upto(n - 1, S)
      BY <1>2
    <2>2. PICK R : R = [m \in 0..n |-> IF m = n THEN F[<<n, S[n - 1]>>] ELSE S[m]]
      OBVIOUS
    <2>3. n - 1 \in 0..(n - 1) /\ \A m \in 0..n : m = n \/ m \in 0..(n - 1)
      BY <1>2
    <2>4. R \in [0..n -> X]
      BY <1>0, <1>2, <2>1, <2>2, <2>3
    <2>5. R[0] = base
      BY <1>2, <2>1, <2>2
    <2>6. ASSUME NEW m \in 1..n
          PROVE  R[m] = F[<<m, R[m - 1]>>]
      <3>1. R[m - 1] = S[m - 1] /\ m \in 0..n
        BY <1>2, <2>2, <2>6
      <3>2. CASE m = n
        BY <2>2, <3>1, <3>2
      <3>3. CASE m # n
        <4>1. m \in 1..(n - 1) /\ R[m] = S[m]
          BY <1>2, <2>2, <2>6, <3>1, <3>3
        <4> QED BY <2>1, <3>1, <4>1
      <3> QED BY <3>2, <3>3
    <2> QED BY <2>4, <2>5, <2>6
  <1>3. N \in T
    <2> HIDE DEF T
    <2> QED BY <1>1, <1>2, Ascent
  <1>4. PICK S : Upto(N, S)
    BY <1>3
  <1> QED BY <1>4 DEF Runs

\* What keys may hold.
States == [Keys -> Values \union {None}]

\* A decoded block: its transactions, and what each of them writes.
LEMMA BlockShape ==
    ASSUME NEW b \in Offered
    PROVE  /\ b.number \in Nat /\ b.txs \in Seq(Feed!Tx)
           /\ Len(b.txs) \in Nat /\ DOMAIN b.txs = 1..Len(b.txs)
           /\ \A i \in 1..Len(b.txs) : b.txs[i] \in Feed!Tx
           /\ \A k, i : i \in Feed!Writers(b, k) <=>
                i \in 1..Len(b.txs) /\ b.txs[i].valid /\ k \in DOMAIN b.txs[i].writes
           /\ \A k : Feed!Writers(b, k) \subseteq 1..Len(b.txs)
           /\ \A k : \A i \in Feed!Writers(b, k) : k \in Keys /\ b.txs[i].writes[k] \in Values
  <1>1. b.number \in Nat /\ b.txs \in Seq(Feed!Tx)
    BY FeedAssumption
  <1>2. Len(b.txs) \in Nat /\ DOMAIN b.txs = 1..Len(b.txs)
        /\ \A i \in 1..Len(b.txs) : b.txs[i] \in Feed!Tx
    BY <1>1
  <1>3. \A k, i : i \in Feed!Writers(b, k) <=>
            i \in 1..Len(b.txs) /\ b.txs[i].valid /\ k \in DOMAIN b.txs[i].writes
    BY <1>2 DEF Feed!Writers
  <1>4. ASSUME NEW k, NEW i \in Feed!Writers(b, k)
        PROVE  k \in Keys /\ b.txs[i].writes[k] \in Values
    <2>1. b.txs[i] \in Feed!Tx /\ k \in DOMAIN b.txs[i].writes
      BY <1>2, <1>3, <1>4
    <2>2. b.txs[i].writes \in UNION {[S -> Values] : S \in SUBSET Keys}
      BY <2>1 DEF Feed!Tx
    <2>3. PICK S \in SUBSET Keys : b.txs[i].writes \in [S -> Values]
      BY <2>2
    <2> QED BY <2>1, <2>3
  <1> QED BY <1>1, <1>2, <1>3, <1>4

\* The state after each transaction of a block.
LEMMA StagedIs ==
    ASSUME NEW b \in Offered, NEW state \in States
    PROVE  /\ Feed!Staged(state, b) \in [0..Len(b.txs) -> States]
           /\ Feed!Staged(state, b)[0] = state
           /\ \A i \in 1..Len(b.txs), k \in Keys : Feed!Staged(state, b)[i][k] =
                IF i \in Feed!Writers(b, k) THEN b.txs[i].writes[k] ELSE Feed!Staged(state, b)[i - 1][k]
  <1>1. Len(b.txs) \in Nat /\ \A k : \A i \in Feed!Writers(b, k) : b.txs[i].writes[k] \in Values
    BY BlockShape
  <1>2. PICK F : F = [p \in (1..Len(b.txs)) \X States |->
                        [k \in Keys |-> IF p[1] \in Feed!Writers(b, k) THEN b.txs[p[1]].writes[k] ELSE p[2][k]]]
    OBVIOUS
  <1>3. \A i \in 1..Len(b.txs), x \in States :
            /\ F[<<i, x>>] = [k \in Keys |-> IF i \in Feed!Writers(b, k) THEN b.txs[i].writes[k] ELSE x[k]]
            /\ F[<<i, x>>] \in States
    <2> SUFFICES ASSUME NEW i \in 1..Len(b.txs), NEW x \in States
                 PROVE  /\ F[<<i, x>>] = [k \in Keys |-> IF i \in Feed!Writers(b, k)
                                                          THEN b.txs[i].writes[k] ELSE x[k]]
                        /\ F[<<i, x>>] \in States
      OBVIOUS
    <2>1. <<i, x>> \in (1..Len(b.txs)) \X States /\ <<i, x>>[1] = i /\ <<i, x>>[2] = x
      OBVIOUS
    <2>2. F[<<i, x>>] = [k \in Keys |-> IF i \in Feed!Writers(b, k) THEN b.txs[i].writes[k] ELSE x[k]]
      BY <1>2, <2>1
    <2> QED BY <1>1, <2>2 DEF States
  <1>4. PICK S \in [0..Len(b.txs) -> States] :
            S[0] = state /\ \A n \in 1..Len(b.txs) : S[n] = F[<<n, S[n - 1]>>]
    <2>1. PICK N \in Nat : N = Len(b.txs)
      BY <1>1
    <2>2. Closed(F, N, States)
      BY <1>3, <2>1 DEF Closed
    <2>3. PICK S \in [0..N -> States] : Runs(S, F, N, state)
      BY <2>2, Recursion
    <2> QED BY <2>1, <2>3 DEF Runs
  <1>5. \A n \in 0..Len(b.txs) :
            S[n] = IF n = 0 THEN state
                   ELSE [k \in Keys |-> IF n \in Feed!Writers(b, k) THEN b.txs[n].writes[k] ELSE S[n - 1][k]]
    <2> SUFFICES ASSUME NEW n \in 0..Len(b.txs), n # 0
                 PROVE  S[n] = [k \in Keys |-> IF n \in Feed!Writers(b, k) THEN b.txs[n].writes[k]
                                                ELSE S[n - 1][k]]
      BY <1>4
    <2>1. n \in 1..Len(b.txs) /\ n - 1 \in 0..Len(b.txs)
      BY <1>1
    <2>2. S[n] = F[<<n, S[n - 1]>>] /\ S[n - 1] \in States
      BY <1>4, <2>1
    <2> QED BY <1>3, <2>1, <2>2
  <1>6. S = [i \in 0..Len(b.txs) |->
              IF i = 0 THEN state
              ELSE [k \in Keys |-> IF i \in Feed!Writers(b, k) THEN b.txs[i].writes[k] ELSE S[i - 1][k]]]
    BY <1>4, <1>5
  <1>7. PICK R : /\ R = Feed!Staged(state, b)
                 /\ R = [i \in 0..Len(b.txs) |->
                          IF i = 0 THEN state
                          ELSE [k \in Keys |-> IF i \in Feed!Writers(b, k) THEN b.txs[i].writes[k]
                                               ELSE R[i - 1][k]]]
    BY <1>6 DEF Feed!Staged
  <1>8. \A i \in 0..Len(b.txs) : i \in {n \in 0..Len(b.txs) : R[n] \in States}
    <2>1. 0 \in {n \in 0..Len(b.txs) : R[n] \in States}
      BY <1>1, <1>7
    <2>2. ASSUME NEW n \in 1..Len(b.txs), n - 1 \in {m \in 0..Len(b.txs) : R[m] \in States}
          PROVE  n \in {m \in 0..Len(b.txs) : R[m] \in States}
      <3>1. n \in 0..Len(b.txs) /\ n # 0
        BY <1>1
      <3>2. R[n] = [k \in Keys |-> IF n \in Feed!Writers(b, k) THEN b.txs[n].writes[k] ELSE R[n - 1][k]]
        BY <1>7, <3>1
      <3> QED BY <1>1, <2>2, <3>1, <3>2 DEF States
    <2> QED BY <1>1, <2>1, <2>2, Ascent
  <1>9. ASSUME NEW i \in 1..Len(b.txs), NEW k \in Keys
        PROVE  R[i][k] = IF i \in Feed!Writers(b, k) THEN b.txs[i].writes[k] ELSE R[i - 1][k]
    <2>1. i \in 0..Len(b.txs) /\ i # 0
      BY <1>1
    <2>2. R[i] = [l \in Keys |-> IF i \in Feed!Writers(b, l) THEN b.txs[i].writes[l] ELSE R[i - 1][l]]
      BY <1>7, <2>1
    <2> QED BY <2>2
  <1>10. R[0] = state /\ R \in [0..Len(b.txs) -> States]
    <2>1. \A i \in 0..Len(b.txs) : R[i] \in States
      BY <1>8
    <2>2. 0 \in 0..Len(b.txs)
      BY <1>1
    <2>3. DOMAIN R = 0..Len(b.txs) /\ R = [i \in 0..Len(b.txs) |-> R[i]]
      BY <1>7
    <2>4. R[0] = state
      BY <1>7, <2>2
    <2> QED BY <2>1, <2>3, <2>4
  <1> QED BY <1>7, <1>9, <1>10

\* What a projector, the tables and the anchors may hold.
Headers == {Feed!Header(b) : b \in Offered} \union {None}

Projectors == [state : States, checkpoint : Headers]

Tables ==
    [state : States,
     history : SUBSET [key : Keys, block : Nat, index : Nat, value : Values],
     creation : [Keys -> [at : Feed!Checkpoints, value : Values] \union {None}],
     txs : SUBSET [block : Nat, index : Nat, tx : Feed!Tx],
     cursor : Headers]

Anchorings == [Keys -> [block : Offered, index : Nat] \union {None}]

\* The tables and the anchors after the first n blocks.
TablesAt(bs, n) ==
    LET T[m \in 0..Len(bs)] == IF m = 0 THEN Feed!NoTables ELSE Feed!WithBlock(T[m - 1], bs[m])
    IN  T[n]

AnchorsAt(bs, n) ==
    LET A[m \in 0..Len(bs)] == IF m = 0 THEN Feed!NoAnchors ELSE Feed!Anchored(A[m - 1], bs[m])
    IN  A[n]

\* The first transaction of a block that writes a key.
LEMMA FirstWriter ==
    ASSUME NEW b \in Offered, NEW k, Feed!Writers(b, k) # {}
    PROVE  LET i == CHOOSE i \in Feed!Writers(b, k) : \A j \in Feed!Writers(b, k) : i <= j
           IN  i \in Feed!Writers(b, k) /\ \A j \in Feed!Writers(b, k) : i <= j
  <1>1. Feed!Writers(b, k) \subseteq Nat
    BY BlockShape
  <1>2. \E i \in Feed!Writers(b, k) : \A j \in Feed!Writers(b, k) : i <= j
    BY <1>1, Least
  <1> QED BY <1>2

\* The state after a block.
LEMMA StateType ==
    ASSUME NEW b \in Offered, NEW state \in States
    PROVE  Feed!StateAfter(state, b) \in States
  BY StagedIs, BlockShape DEF Feed!StateAfter

\* A projector takes a block to a projector.
LEMMA ProjectedType ==
    /\ Feed!NewProjector \in Projectors
    /\ \A p \in Projectors, b \in Offered : Feed!Projected(p, b) \in Projectors
  BY StateType DEF Projectors, Headers, States, Feed!NewProjector, Feed!Projected, Feed!EmptyState

\* A point of an offered block is one readers may ask for.
LEMMA PointType ==
    ASSUME NEW b \in Offered, NEW i \in 0..Len(b.txs)
    PROVE  Feed!At(b, i) \in Feed!Checkpoints
  BY DEF Feed!Checkpoints

\* Anchors stay anchors.
LEMMA AnchoredType ==
    /\ Feed!NoAnchors \in Anchorings
    /\ \A a \in Anchorings, b \in Offered : Feed!Anchored(a, b) \in Anchorings
  <1>1. Feed!NoAnchors \in Anchorings
    BY DEF Feed!NoAnchors, Feed!EmptyState, Anchorings
  <1>2. ASSUME NEW a \in Anchorings, NEW b \in Offered
        PROVE  Feed!Anchored(a, b) \in Anchorings
    <2>1. ASSUME NEW k \in Keys, Feed!Writers(b, k) # {}
          PROVE  (CHOOSE i \in Feed!Writers(b, k) : \A j \in Feed!Writers(b, k) : i <= j) \in Nat
      <3>1. Feed!Writers(b, k) \subseteq Nat
        BY BlockShape
      <3> QED BY <2>1, <3>1, FirstWriter
    <2> QED BY <2>1 DEF Feed!Anchored, Anchorings
  <1> QED BY <1>1, <1>2

\* Tables stay tables.
LEMMA TablesType ==
    /\ Feed!NoTables \in Tables
    /\ \A t \in Tables, b \in Offered : Feed!WithBlock(t, b) \in Tables
  <1>1. Feed!NoTables \in Tables
    BY DEF Feed!NoTables, Feed!EmptyState, Tables, Headers, States
  <1>2. ASSUME NEW t \in Tables, NEW b \in Offered
        PROVE  Feed!WithBlock(t, b) \in Tables
    <2>1. Feed!StateAfter(t.state, b) \in States
      BY StateType DEF Tables
    <2>2. ASSUME NEW k \in Keys
          PROVE  {[key |-> k, block |-> b.number, index |-> i, value |-> b.txs[i].writes[k]]
                    : i \in Feed!Writers(b, k)} \subseteq [key : Keys, block : Nat, index : Nat, value : Values]
      <3>1. b.number \in Nat /\ \A i \in Feed!Writers(b, k) : i \in Nat /\ b.txs[i].writes[k] \in Values
        BY BlockShape
      <3> QED BY <2>2, <3>1
    <2>3. Feed!Created(t.creation, b) \in [Keys -> [at : Feed!Checkpoints, value : Values] \union {None}]
      <3>1. ASSUME NEW k \in Keys, Feed!Writers(b, k) # {},
                   NEW i, i = CHOOSE h \in Feed!Writers(b, k) : \A j \in Feed!Writers(b, k) : h <= j
            PROVE  [at |-> Feed!At(b, i), value |-> b.txs[i].writes[k]]
                        \in [at : Feed!Checkpoints, value : Values]
        <4>1. i \in Feed!Writers(b, k)
          BY <3>1, FirstWriter
        <4>2. i \in 0..Len(b.txs) /\ b.txs[i].writes[k] \in Values
          BY <4>1, BlockShape
        <4> QED BY <4>2, PointType
      <3> QED BY <3>1 DEF Feed!Created, Tables
    <2>4. {[block |-> b.number, index |-> i, tx |-> b.txs[i]] : i \in DOMAIN b.txs}
            \subseteq [block : Nat, index : Nat, tx : Feed!Tx]
      BY BlockShape
    <2>5. Feed!Header(b) \in Headers
      BY DEF Headers
    <2>6. t.history \union
            UNION {{[key |-> k, block |-> b.number, index |-> i, value |-> b.txs[i].writes[k]]
                    : i \in Feed!Writers(b, k)} : k \in Keys}
            \in SUBSET [key : Keys, block : Nat, index : Nat, value : Values]
      BY <2>2 DEF Tables
    <2>7. t.txs \union {[block |-> b.number, index |-> i, tx |-> b.txs[i]] : i \in DOMAIN b.txs}
            \in SUBSET [block : Nat, index : Nat, tx : Feed!Tx]
      BY <2>4 DEF Tables
    <2> QED BY <2>1, <2>3, <2>5, <2>6, <2>7 DEF Feed!WithBlock, Tables
  <1> QED BY <1>1, <1>2

\* The projector that replays n blocks.
LEMMA ProjectorIs ==
    ASSUME NEW bs \in Seq(Offered)
    PROVE  /\ \A n \in 0..Len(bs) : Feed!ProjectorAt(bs, n) \in Projectors
           /\ Feed!ProjectorAt(bs, 0) = Feed!NewProjector
           /\ \A n \in 1..Len(bs) : Feed!ProjectorAt(bs, n) = Feed!Projected(Feed!ProjectorAt(bs, n - 1), bs[n])
  <1>1. PICK N \in Nat : N = Len(bs)
    OBVIOUS
  <1>2. PICK F : F = [p \in (1..N) \X Projectors |-> Feed!Projected(p[2], bs[p[1]])]
    OBVIOUS
  <1>3. \A n \in 1..N, x \in Projectors : F[<<n, x>>] = Feed!Projected(x, bs[n])
    BY <1>2
  <1>4. \A n \in 1..N : bs[n] \in Offered
    BY <1>1
  <1>5. \A n \in 1..N, x \in Projectors : Feed!Projected(x, bs[n]) \in Projectors
    BY <1>4, ProjectedType
  <1>6. Closed(F, N, Projectors)
    BY <1>3, <1>5 DEF Closed
  <1>7. Feed!NewProjector \in Projectors
    BY ProjectedType
  <1>8. PICK S \in [0..N -> Projectors] : Runs(S, F, N, Feed!NewProjector)
    BY <1>6, <1>7, Recursion
  <1>9. \A n \in 0..N : S[n] = IF n = 0 THEN Feed!NewProjector ELSE Feed!Projected(S[n - 1], bs[n])
    <2> SUFFICES ASSUME NEW n \in 0..N, n # 0
                 PROVE  S[n] = Feed!Projected(S[n - 1], bs[n])
      BY <1>8 DEF Runs
    <2>1. n \in 1..N /\ n - 1 \in 0..N
      OBVIOUS
    <2>2. S[n] = F[<<n, S[n - 1]>>] /\ S[n - 1] \in Projectors
      BY <1>8, <2>1 DEF Runs
    <2> QED BY <1>3, <2>1, <2>2
  <1>10. S = [n \in 0..Len(bs) |-> IF n = 0 THEN Feed!NewProjector ELSE Feed!Projected(S[n - 1], bs[n])]
    BY <1>1, <1>8, <1>9
  <1>11. PICK R : /\ \A n : Feed!ProjectorAt(bs, n) = R[n]
                  /\ R = [n \in 0..Len(bs) |-> IF n = 0 THEN Feed!NewProjector ELSE Feed!Projected(R[n - 1], bs[n])]
    BY <1>10 DEF Feed!ProjectorAt
  <1>12. R[0] = Feed!NewProjector /\ \A n \in 1..N : R[n] = Feed!Projected(R[n - 1], bs[n])
    <2>1. 0 \in 0..Len(bs) /\ \A n \in 1..N : n \in 0..Len(bs) /\ n # 0
      BY <1>1
    <2> QED BY <1>11, <2>1
  <1>13. \A n \in 0..N : n \in {m \in 0..N : R[m] \in Projectors}
    <2>1. 0 \in {m \in 0..N : R[m] \in Projectors}
      BY <1>7, <1>12
    <2>2. ASSUME NEW n \in 1..N, n - 1 \in {m \in 0..N : R[m] \in Projectors}
          PROVE  n \in {m \in 0..N : R[m] \in Projectors}
      BY <1>5, <1>12, <2>2
    <2> QED BY <2>1, <2>2, Ascent
  <1> QED BY <1>1, <1>11, <1>12, <1>13

\* The tables rebuilt from n blocks.
LEMMA TablesAre ==
    ASSUME NEW bs \in Seq(Offered)
    PROVE  /\ \A n \in 0..Len(bs) : TablesAt(bs, n) \in Tables
           /\ TablesAt(bs, 0) = Feed!NoTables
           /\ \A n \in 1..Len(bs) : TablesAt(bs, n) = Feed!WithBlock(TablesAt(bs, n - 1), bs[n])
  <1>1. PICK N \in Nat : N = Len(bs)
    OBVIOUS
  <1>2. PICK F : F = [p \in (1..N) \X Tables |-> Feed!WithBlock(p[2], bs[p[1]])]
    OBVIOUS
  <1>3. \A n \in 1..N, x \in Tables : F[<<n, x>>] = Feed!WithBlock(x, bs[n])
    BY <1>2
  <1>4. \A n \in 1..N : bs[n] \in Offered
    BY <1>1
  <1>5. \A n \in 1..N, x \in Tables : Feed!WithBlock(x, bs[n]) \in Tables
    BY <1>4, TablesType
  <1>6. Closed(F, N, Tables)
    BY <1>3, <1>5 DEF Closed
  <1>7. Feed!NoTables \in Tables
    BY TablesType
  <1>8. PICK S \in [0..N -> Tables] : Runs(S, F, N, Feed!NoTables)
    BY <1>6, <1>7, Recursion
  <1>9. \A n \in 0..N : S[n] = IF n = 0 THEN Feed!NoTables ELSE Feed!WithBlock(S[n - 1], bs[n])
    <2> SUFFICES ASSUME NEW n \in 0..N, n # 0
                 PROVE  S[n] = Feed!WithBlock(S[n - 1], bs[n])
      BY <1>8 DEF Runs
    <2>1. n \in 1..N /\ n - 1 \in 0..N
      OBVIOUS
    <2>2. S[n] = F[<<n, S[n - 1]>>] /\ S[n - 1] \in Tables
      BY <1>8, <2>1 DEF Runs
    <2> QED BY <1>3, <2>1, <2>2
  <1>10. S = [n \in 0..Len(bs) |-> IF n = 0 THEN Feed!NoTables ELSE Feed!WithBlock(S[n - 1], bs[n])]
    BY <1>1, <1>8, <1>9
  <1>11. PICK R : /\ \A n : TablesAt(bs, n) = R[n]
                  /\ R = [n \in 0..Len(bs) |-> IF n = 0 THEN Feed!NoTables ELSE Feed!WithBlock(R[n - 1], bs[n])]
    BY <1>10 DEF TablesAt
  <1>12. R[0] = Feed!NoTables /\ \A n \in 1..N : R[n] = Feed!WithBlock(R[n - 1], bs[n])
    <2>1. 0 \in 0..Len(bs) /\ \A n \in 1..N : n \in 0..Len(bs) /\ n # 0
      BY <1>1
    <2> QED BY <1>11, <2>1
  <1>13. \A n \in 0..N : n \in {m \in 0..N : R[m] \in Tables}
    <2>1. 0 \in {m \in 0..N : R[m] \in Tables}
      BY <1>7, <1>12
    <2>2. ASSUME NEW n \in 1..N, n - 1 \in {m \in 0..N : R[m] \in Tables}
          PROVE  n \in {m \in 0..N : R[m] \in Tables}
      BY <1>5, <1>12, <2>2
    <2> QED BY <2>1, <2>2, Ascent
  <1> QED BY <1>1, <1>11, <1>12, <1>13

\* The anchors found in n blocks.
LEMMA AnchorsAre ==
    ASSUME NEW bs \in Seq(Offered)
    PROVE  /\ \A n \in 0..Len(bs) : AnchorsAt(bs, n) \in Anchorings
           /\ AnchorsAt(bs, 0) = Feed!NoAnchors
           /\ \A n \in 1..Len(bs) : AnchorsAt(bs, n) = Feed!Anchored(AnchorsAt(bs, n - 1), bs[n])
  <1>1. PICK N \in Nat : N = Len(bs)
    OBVIOUS
  <1>2. PICK F : F = [p \in (1..N) \X Anchorings |-> Feed!Anchored(p[2], bs[p[1]])]
    OBVIOUS
  <1>3. \A n \in 1..N, x \in Anchorings : F[<<n, x>>] = Feed!Anchored(x, bs[n])
    BY <1>2
  <1>4. \A n \in 1..N : bs[n] \in Offered
    BY <1>1
  <1>5. \A n \in 1..N, x \in Anchorings : Feed!Anchored(x, bs[n]) \in Anchorings
    BY <1>4, AnchoredType
  <1>6. Closed(F, N, Anchorings)
    BY <1>3, <1>5 DEF Closed
  <1>7. Feed!NoAnchors \in Anchorings
    BY AnchoredType
  <1>8. PICK S \in [0..N -> Anchorings] : Runs(S, F, N, Feed!NoAnchors)
    BY <1>6, <1>7, Recursion
  <1>9. \A n \in 0..N : S[n] = IF n = 0 THEN Feed!NoAnchors ELSE Feed!Anchored(S[n - 1], bs[n])
    <2> SUFFICES ASSUME NEW n \in 0..N, n # 0
                 PROVE  S[n] = Feed!Anchored(S[n - 1], bs[n])
      BY <1>8 DEF Runs
    <2>1. n \in 1..N /\ n - 1 \in 0..N
      OBVIOUS
    <2>2. S[n] = F[<<n, S[n - 1]>>] /\ S[n - 1] \in Anchorings
      BY <1>8, <2>1 DEF Runs
    <2> QED BY <1>3, <2>1, <2>2
  <1>10. S = [n \in 0..Len(bs) |-> IF n = 0 THEN Feed!NoAnchors ELSE Feed!Anchored(S[n - 1], bs[n])]
    BY <1>1, <1>8, <1>9
  <1>11. PICK R : /\ \A n : AnchorsAt(bs, n) = R[n]
                  /\ R = [n \in 0..Len(bs) |-> IF n = 0 THEN Feed!NoAnchors ELSE Feed!Anchored(R[n - 1], bs[n])]
    BY <1>10 DEF AnchorsAt
  <1>12. R[0] = Feed!NoAnchors /\ \A n \in 1..N : R[n] = Feed!Anchored(R[n - 1], bs[n])
    <2>1. 0 \in 0..Len(bs) /\ \A n \in 1..N : n \in 0..Len(bs) /\ n # 0
      BY <1>1
    <2> QED BY <1>11, <2>1
  <1>13. \A n \in 0..N : n \in {m \in 0..N : R[m] \in Anchorings}
    <2>1. 0 \in {m \in 0..N : R[m] \in Anchorings}
      BY <1>7, <1>12
    <2>2. ASSUME NEW n \in 1..N, n - 1 \in {m \in 0..N : R[m] \in Anchorings}
          PROVE  n \in {m \in 0..N : R[m] \in Anchorings}
      BY <1>5, <1>12, <2>2
    <2> QED BY <2>1, <2>2, Ascent
  <1> QED BY <1>1, <1>11, <1>12, <1>13

\* What n blocks leave depends on these n blocks alone.
LEMMA SamePrefix ==
    ASSUME NEW bs \in Seq(Offered), NEW cs \in Seq(Offered), NEW N \in Nat, N <= Len(bs), N <= Len(cs),
           \A n \in 1..N : bs[n] = cs[n]
    PROVE  /\ Feed!ProjectorAt(bs, N) = Feed!ProjectorAt(cs, N)
           /\ TablesAt(bs, N) = TablesAt(cs, N)
           /\ AnchorsAt(bs, N) = AnchorsAt(cs, N)
  <1> DEFINE Same(n) == /\ Feed!ProjectorAt(bs, n) = Feed!ProjectorAt(cs, n)
                        /\ TablesAt(bs, n) = TablesAt(cs, n)
                        /\ AnchorsAt(bs, n) = AnchorsAt(cs, n)
             T == {n \in 0..N : Same(n)}
  <1>1. 0 \in T
    BY ProjectorIs, TablesAre, AnchorsAre
  <1>2. ASSUME NEW n \in 1..N, n - 1 \in T
        PROVE  n \in T
    <2>1. Same(n - 1) /\ n \in 1..Len(bs) /\ n \in 1..Len(cs) /\ n \in 0..N /\ bs[n] = cs[n]
      BY <1>2
    <2>2. Feed!ProjectorAt(bs, n) = Feed!ProjectorAt(cs, n)
      BY <2>1, ProjectorIs
    <2>3. TablesAt(bs, n) = TablesAt(cs, n)
      BY <2>1, TablesAre
    <2>4. AnchorsAt(bs, n) = AnchorsAt(cs, n)
      BY <2>1, AnchorsAre
    <2> QED BY <2>1, <2>2, <2>3, <2>4
  <1>3. \A n \in 0..N : n \in T
    <2> HIDE DEF T
    <2> QED BY <1>1, <1>2, Ascent
  <1>4. N \in 0..N
    OBVIOUS
  <1> QED BY <1>3, <1>4

\* What a whole journal leaves.
LEMMA WholeIs ==
    ASSUME NEW bs
    PROVE  Feed!Derived(bs) = TablesAt(bs, Len(bs)) /\ Feed!Anchors(bs) = AnchorsAt(bs, Len(bs))
  BY DEF Feed!Derived, Feed!Anchors, TablesAt, AnchorsAt

\* Journal cs is journal bs with block b after it.
Extends(cs, bs, b) ==
    /\ cs \in Seq(Offered) /\ Len(cs) = Len(bs) + 1 /\ cs[Len(cs)] = b
    /\ \A n \in 1..Len(bs) : cs[n] = bs[n]
    /\ \A n \in 0..Len(bs) : Feed!ProjectorAt(cs, n) = Feed!ProjectorAt(bs, n)
    /\ Feed!ProjectorAt(cs, Len(cs)) = Feed!Projected(Feed!ProjectorAt(bs, Len(bs)), b)
    /\ Feed!Derived(cs) = Feed!WithBlock(Feed!Derived(bs), b)
    /\ Feed!Anchors(cs) = Feed!Anchored(Feed!Anchors(bs), b)

\* One more block.
LEMMA Appended ==
    ASSUME NEW bs \in Seq(Offered), NEW b \in Offered, NEW cs, cs = Append(bs, b)
    PROVE  Extends(cs, bs, b)
  <1>1. cs \in Seq(Offered) /\ Len(cs) = Len(bs) + 1 /\ cs[Len(cs)] = b /\ \A n \in 1..Len(bs) : cs[n] = bs[n]
    OBVIOUS
  <1>2. PICK N \in Nat : N = Len(bs)
    OBVIOUS
  <1>3. ASSUME NEW n \in 0..Len(bs)
        PROVE  /\ Feed!ProjectorAt(cs, n) = Feed!ProjectorAt(bs, n)
               /\ TablesAt(cs, n) = TablesAt(bs, n) /\ AnchorsAt(cs, n) = AnchorsAt(bs, n)
    <2>1. n \in Nat /\ n <= Len(bs) /\ n <= Len(cs) /\ \A m \in 1..n : bs[m] = cs[m]
      BY <1>1, <1>2
    <2> QED BY <1>1, <2>1, SamePrefix
  <1>4. Len(cs) \in 1..Len(cs) /\ Len(cs) - 1 = N /\ N \in 0..Len(bs)
    BY <1>1, <1>2
  <1>5. Feed!ProjectorAt(cs, Len(cs)) = Feed!Projected(Feed!ProjectorAt(bs, Len(bs)), b)
    BY <1>1, <1>2, <1>3, <1>4, ProjectorIs
  <1>6. TablesAt(cs, Len(cs)) = Feed!WithBlock(TablesAt(bs, Len(bs)), b)
    BY <1>1, <1>2, <1>3, <1>4, TablesAre
  <1>7. AnchorsAt(cs, Len(cs)) = Feed!Anchored(AnchorsAt(bs, Len(bs)), b)
    BY <1>1, <1>2, <1>3, <1>4, AnchorsAre
  <1> QED BY <1>1, <1>3, <1>5, <1>6, <1>7, WholeIs DEF Extends

------------------------------------------------------------------------------
(* Journals that replay. *)

\* Every block is prepared by the projector of the blocks before it.
Chained(bs) ==
    /\ bs \in Seq(Offered)
    /\ \A n \in 1..Len(bs) : Feed!Prepares(Feed!ProjectorAt(bs, n - 1), bs[n])

\* Blocks are numbered from 0, and the checkpoint is the last one's header.
LEMMA Numbered ==
    ASSUME NEW bs, Chained(bs)
    PROVE  /\ \A n \in 1..Len(bs) : bs[n].number = n - 1 /\ Feed!ProjectorAt(bs, n).checkpoint = Feed!Header(bs[n])
           /\ Feed!ProjectorAt(bs, 0).checkpoint = None
  <1> DEFINE T == {n \in 0..Len(bs) :
                    IF n = 0 THEN Feed!ProjectorAt(bs, n).checkpoint = None
                    ELSE bs[n].number = n - 1 /\ Feed!ProjectorAt(bs, n).checkpoint = Feed!Header(bs[n])}
  <1>1. bs \in Seq(Offered) /\ Len(bs) \in Nat
    BY DEF Chained
  <1>2. 0 \in T
    BY <1>1, ProjectorIs DEF Feed!NewProjector
  <1>3. ASSUME NEW n \in 1..Len(bs), n - 1 \in T
        PROVE  n \in T
    <2>1. Feed!ProjectorAt(bs, n).checkpoint = Feed!Header(bs[n])
      BY <1>1, ProjectorIs DEF Feed!Projected
    <2>2. Feed!Contiguous(Feed!ProjectorAt(bs, n - 1), bs[n])
      BY DEF Chained, Feed!Prepares
    <2>3. n \in 0..Len(bs) /\ n # 0
      BY <1>1
    <2>4. bs[n].number = n - 1
      <3>1. CASE n = 1
        <4>1. Feed!ProjectorAt(bs, n - 1).checkpoint = None
          BY <1>3, <3>1
        <4> QED BY <2>2, <3>1, <4>1 DEF Feed!Contiguous
      <3>2. CASE n # 1
        <4>1. /\ n - 1 # 0 /\ n - 1 \in 1..Len(bs)
              /\ bs[n - 1].number = (n - 1) - 1
              /\ Feed!ProjectorAt(bs, n - 1).checkpoint = Feed!Header(bs[n - 1])
          BY <1>1, <1>3, <3>2
        <4>2. bs[n - 1] \in Offered
          BY <1>1, <4>1
        <4>3. Feed!Header(bs[n - 1]) # None /\ Feed!Header(bs[n - 1]).number = bs[n - 1].number
          BY <4>2, FeedAssumption DEF Feed!Header
        <4>4. bs[n].number = Feed!Header(bs[n - 1]).number + 1
          BY <2>2, <4>1, <4>3 DEF Feed!Contiguous
        <4> QED BY <1>1, <4>1, <4>3, <4>4
      <3> QED BY <3>1, <3>2
    <2> QED BY <2>1, <2>3, <2>4
  <1>4. \A n \in 0..Len(bs) : n \in T
    <2> HIDE DEF T
    <2> QED BY <1>1, <1>2, <1>3, Ascent
  <1>5. \A n \in 1..Len(bs) : n \in 0..Len(bs) /\ n # 0
    BY <1>1
  <1>6. 0 \in 0..Len(bs)
    BY <1>1
  <1> QED BY <1>4, <1>5, <1>6

\* A prepared block makes the journal one block longer.
LEMMA ChainGrows ==
    ASSUME NEW bs, Chained(bs), NEW b \in Offered, Feed!Prepares(Feed!ProjectorAt(bs, Len(bs)), b)
    PROVE  Chained(Append(bs, b))
  <1>1. PICK cs : cs = Append(bs, b)
    OBVIOUS
  <1>2. bs \in Seq(Offered)
    BY DEF Chained
  <1>3. /\ cs \in Seq(Offered) /\ Len(cs) = Len(bs) + 1 /\ cs[Len(cs)] = b
        /\ \A n \in 1..Len(bs) : cs[n] = bs[n]
        /\ \A n \in 0..Len(bs) : Feed!ProjectorAt(cs, n) = Feed!ProjectorAt(bs, n)
    <2>1. Extends(cs, bs, b)
      BY <1>1, <1>2, Appended
    <2> QED BY <2>1 DEF Extends
  <1>4. ASSUME NEW n \in 1..Len(cs)
        PROVE  Feed!Prepares(Feed!ProjectorAt(cs, n - 1), cs[n])
    <2>1. n - 1 \in 0..Len(bs)
      BY <1>2, <1>3
    <2>2. CASE n = Len(cs)
      <3>1. n - 1 = Len(bs)
        BY <1>2, <1>3, <2>2
      <3> QED BY <1>3, <2>1, <2>2, <3>1
    <2>3. CASE n # Len(cs)
      <3>1. n \in 1..Len(bs)
        BY <1>2, <1>3, <2>3
      <3> QED BY <1>3, <2>1, <3>1 DEF Chained
    <2> QED BY <2>2, <2>3
  <1> QED BY <1>1, <1>3, <1>4 DEF Chained

\* Raw blocks as the file keeps them.
RawBlocks == [block : Offered, intact : BOOLEAN]

Files == Seq(RawBlocks)

\* verifyFabricJournalBlock accepts every row.
LEMMA ReplaysIs ==
    ASSUME NEW j \in Files
    PROVE  /\ Feed!Blocks(j) \in Seq(Offered) /\ Len(Feed!Blocks(j)) = Len(j)
           /\ \A n \in 1..Len(j) : Feed!Blocks(j)[n] = j[n].block
           /\ DOMAIN j = 1..Len(j)
           /\ Feed!Replays(j) <=> (\A n \in 1..Len(j) : j[n].intact) /\ Chained(Feed!Blocks(j))
  <1>1. PICK N \in Nat : N = Len(j) /\ DOMAIN j = 1..N /\ \A n \in 1..N : j[n] \in RawBlocks
    BY DEF Files
  <1>2. Feed!Blocks(j) = [n \in 1..N |-> j[n].block]
    BY <1>1 DEF Feed!Blocks
  <1>3. Feed!Blocks(j) \in Seq(Offered) /\ Len(Feed!Blocks(j)) = N /\ \A n \in 1..N : Feed!Blocks(j)[n] = j[n].block
    <2>1. \A n \in 1..N : j[n].block \in Offered
      BY <1>1 DEF RawBlocks
    <2> QED BY <1>2, <2>1
  <1> QED BY <1>1, <1>3 DEF Feed!Replays, Chained

------------------------------------------------------------------------------
(* What the derived tables hold, and the last write of a key. *)

\* Transaction j of the m-th block is no later than transaction i of the n-th.
NoLater(m, j, n, i) == m < n \/ (m = n /\ j <= i)

\* v is what key k holds after transaction i of the n-th block.
LastWrite(bs, k, n, i, v) ==
    \/ /\ v = None
       /\ \A m \in 1..Len(bs) : \A j \in Feed!Writers(bs[m], k) : ~NoLater(m, j, n, i)
    \/ \E m \in 1..Len(bs) : \E j \in Feed!Writers(bs[m], k) :
         /\ NoLater(m, j, n, i) /\ v = bs[m].txs[j].writes[k]
         /\ \A l \in 1..Len(bs) : \A h \in Feed!Writers(bs[l], k) :
              NoLater(l, h, n, i) => NoLater(l, h, m, j)

\* A transaction that writes k decides what it holds, another one does not.
LEMMA OneMore ==
    ASSUME NEW bs \in Seq(Offered), NEW k \in Keys, NEW n \in 1..Len(bs), NEW i \in 1..Len(bs[n].txs),
           NEW v, LastWrite(bs, k, n, i - 1, v)
    PROVE  LastWrite(bs, k, n, i, IF i \in Feed!Writers(bs[n], k) THEN bs[n].txs[i].writes[k] ELSE v)
  <1>1. /\ n \in Nat /\ bs[n] \in Offered /\ Len(bs[n].txs) \in Nat /\ i \in Nat /\ Len(bs) \in Nat
        /\ \A m \in 1..Len(bs) : m \in Nat /\ \A j \in Feed!Writers(bs[m], k) : j \in Nat
    BY BlockShape
  <1>2. CASE i \in Feed!Writers(bs[n], k)
    <2>1. NoLater(n, i, n, i)
      BY <1>1 DEF NoLater
    <2> QED BY <1>2, <2>1 DEF LastWrite
  <1>3. CASE i \notin Feed!Writers(bs[n], k)
    <2>1. \A m \in 1..Len(bs) : \A j \in Feed!Writers(bs[m], k) :
             NoLater(m, j, n, i) <=> NoLater(m, j, n, i - 1)
      BY <1>1, <1>3, SMTT(40) DEF NoLater
    <2> QED BY <1>3, <2>1 DEF LastWrite
  <1> QED BY <1>2, <1>3

\* The states of the projectors, and the states staged on top of them.
LEMMA StatesAre ==
    ASSUME NEW bs \in Seq(Offered), NEW k \in Keys
    PROVE  /\ \A n \in 1..Len(bs) : \A i \in 0..Len(bs[n].txs) :
                LastWrite(bs, k, n, i, Feed!Staged(Feed!ProjectorAt(bs, n - 1).state, bs[n])[i][k])
           /\ \A n \in 0..Len(bs) : LastWrite(bs, k, n + 1, 0, Feed!ProjectorAt(bs, n).state[k])
  <1>1. PICK N \in Nat : N = Len(bs)
    OBVIOUS
  <1>2. ASSUME NEW n \in 1..N, LastWrite(bs, k, n, 0, Feed!ProjectorAt(bs, n - 1).state[k])
        PROVE  /\ \A i \in 0..Len(bs[n].txs) :
                    LastWrite(bs, k, n, i, Feed!Staged(Feed!ProjectorAt(bs, n - 1).state, bs[n])[i][k])
               /\ LastWrite(bs, k, n + 1, 0, Feed!ProjectorAt(bs, n).state[k])
    <2>1. PICK S : S = Feed!Staged(Feed!ProjectorAt(bs, n - 1).state, bs[n])
      OBVIOUS
    <2>2. bs[n] \in Offered /\ n - 1 \in 0..Len(bs) /\ n \in 1..Len(bs)
      BY <1>1
    <2>3. Feed!ProjectorAt(bs, n - 1).state \in States
      BY <2>2, ProjectorIs DEF Projectors
    <2>4. /\ S[0] = Feed!ProjectorAt(bs, n - 1).state
          /\ \A i \in 1..Len(bs[n].txs) :
                S[i][k] = IF i \in Feed!Writers(bs[n], k) THEN bs[n].txs[i].writes[k] ELSE S[i - 1][k]
      BY <2>1, <2>2, <2>3, StagedIs
    <2>5. PICK L \in Nat : L = Len(bs[n].txs)
      BY <2>2, BlockShape
    <2>6. \A i \in 0..L : i \in {h \in 0..L : LastWrite(bs, k, n, h, S[h][k])}
      <3>1. 0 \in {h \in 0..L : LastWrite(bs, k, n, h, S[h][k])}
        BY <1>2, <2>4
      <3>2. ASSUME NEW i \in 1..L, i - 1 \in {h \in 0..L : LastWrite(bs, k, n, h, S[h][k])}
            PROVE  i \in {h \in 0..L : LastWrite(bs, k, n, h, S[h][k])}
        <4>1. LastWrite(bs, k, n, i - 1, S[i - 1][k])
          BY <3>2
        <4>2. LastWrite(bs, k, n, i, IF i \in Feed!Writers(bs[n], k) THEN bs[n].txs[i].writes[k] ELSE S[i - 1][k])
          BY <2>2, <2>5, <4>1, OneMore
        <4>3. LastWrite(bs, k, n, i, S[i][k]) /\ i \in 0..L
          BY <2>4, <2>5, <4>2
        <4> QED BY <4>3
      <3> QED BY <3>1, <3>2, Ascent
    <2>7. \A m \in 1..Len(bs) : \A j \in Feed!Writers(bs[m], k) :
             NoLater(m, j, n + 1, 0) <=> NoLater(m, j, n, L)
      <3>1. \A m \in 1..Len(bs) : bs[m] \in Offered /\ \A j \in Feed!Writers(bs[m], k) : j \in 1..Len(bs[m].txs)
        BY BlockShape
      <3>2. \A m \in 1..Len(bs) : \A j \in Feed!Writers(bs[m], k) : j \in Nat /\ j > 0 /\ (m = n => j <= L)
        BY <2>5, <3>1, BlockShape
      <3>3. \A m \in 1..Len(bs) : m \in Nat
        OBVIOUS
      <3> QED BY <3>2, <3>3 DEF NoLater
    <2>8. LastWrite(bs, k, n, L, S[L][k])
      BY <2>6
    <2>9. LastWrite(bs, k, n + 1, 0, S[L][k])
      BY <2>7, <2>8 DEF LastWrite
    <2>10. Feed!ProjectorAt(bs, n).state = S[L]
      BY <2>1, <2>2, <2>5, ProjectorIs DEF Feed!Projected, Feed!StateAfter
    <2> QED BY <2>1, <2>5, <2>6, <2>9, <2>10
  <1>3. \A n \in 0..N : n \in {m \in 0..N : LastWrite(bs, k, m + 1, 0, Feed!ProjectorAt(bs, m).state[k])}
    <2>1. 0 \in {m \in 0..N : LastWrite(bs, k, m + 1, 0, Feed!ProjectorAt(bs, m).state[k])}
      <3>1. Feed!ProjectorAt(bs, 0).state[k] = None
        BY ProjectorIs DEF Feed!NewProjector, Feed!EmptyState
      <3>2. \A m \in 1..Len(bs) : \A j \in Feed!Writers(bs[m], k) : ~NoLater(m, j, 1, 0)
        <4>1. \A m \in 1..Len(bs) : bs[m] \in Offered /\ m \in Nat /\ m > 0
          OBVIOUS
        <4>2. \A m \in 1..Len(bs) : \A j \in Feed!Writers(bs[m], k) : j \in Nat /\ j > 0
          BY <4>1, BlockShape
        <4> QED BY <4>1, <4>2 DEF NoLater
      <3>3. LastWrite(bs, k, 0 + 1, 0, Feed!ProjectorAt(bs, 0).state[k])
        BY <3>1, <3>2 DEF LastWrite
      <3> QED BY <3>3
    <2>2. ASSUME NEW n \in 1..N,
                 n - 1 \in {m \in 0..N : LastWrite(bs, k, m + 1, 0, Feed!ProjectorAt(bs, m).state[k])}
          PROVE  n \in {m \in 0..N : LastWrite(bs, k, m + 1, 0, Feed!ProjectorAt(bs, m).state[k])}
      <3>1. LastWrite(bs, k, n, 0, Feed!ProjectorAt(bs, n - 1).state[k])
        BY <2>2
      <3>2. n \in 0..N
        OBVIOUS
      <3> QED BY <1>2, <3>1, <3>2
    <2> QED BY <2>1, <2>2, Ascent
  <1>4. ASSUME NEW n \in 1..N
        PROVE  LastWrite(bs, k, n, 0, Feed!ProjectorAt(bs, n - 1).state[k])
    <2>1. n - 1 \in 0..N /\ (n - 1) + 1 = n
      OBVIOUS
    <2> QED BY <1>3, <2>1
  <1> QED BY <1>1, <1>2, <1>3, <1>4

\* The rows a block adds.
HistoryRows(b) ==
    UNION {{[key |-> k, block |-> b.number, index |-> i, value |-> b.txs[i].writes[k]]
                : i \in Feed!Writers(b, k)} : k \in Keys}

TxRows(b) == {[block |-> b.number, index |-> i, tx |-> b.txs[i]] : i \in DOMAIN b.txs}

\* The rebuilt tables hold the rows of every block, and the projector's state.
LEMMA TablesHold ==
    ASSUME NEW bs \in Seq(Offered)
    PROVE  \A n \in 0..Len(bs) :
              /\ \A x : x \in TablesAt(bs, n).history <=> \E m \in 1..n : x \in HistoryRows(bs[m])
              /\ \A x : x \in TablesAt(bs, n).txs <=> \E m \in 1..n : x \in TxRows(bs[m])
              /\ TablesAt(bs, n).state = Feed!ProjectorAt(bs, n).state
              /\ TablesAt(bs, n).cursor = Feed!ProjectorAt(bs, n).checkpoint
  <1> DEFINE Hold(n) ==
              /\ \A x : x \in TablesAt(bs, n).history <=> \E m \in 1..n : x \in HistoryRows(bs[m])
              /\ \A x : x \in TablesAt(bs, n).txs <=> \E m \in 1..n : x \in TxRows(bs[m])
              /\ TablesAt(bs, n).state = Feed!ProjectorAt(bs, n).state
              /\ TablesAt(bs, n).cursor = Feed!ProjectorAt(bs, n).checkpoint
             T == {n \in 0..Len(bs) : Hold(n)}
  <1>1. Len(bs) \in Nat
    OBVIOUS
  <1>2. 0 \in T
    <2>1. Hold(0)
      BY TablesAre, ProjectorIs DEF Feed!NoTables, Feed!NewProjector
    <2> QED BY <1>1, <2>1
  <1>3. ASSUME NEW n \in 1..Len(bs), n - 1 \in T
        PROVE  n \in T
    <2>1. Hold(n - 1) /\ n \in 0..Len(bs)
      BY <1>1, <1>3
    <2>2. TablesAt(bs, n) = Feed!WithBlock(TablesAt(bs, n - 1), bs[n])
      BY TablesAre
    <2>3. Feed!ProjectorAt(bs, n) = Feed!Projected(Feed!ProjectorAt(bs, n - 1), bs[n])
      BY ProjectorIs
    <2>4. /\ TablesAt(bs, n).history = TablesAt(bs, n - 1).history \union HistoryRows(bs[n])
          /\ TablesAt(bs, n).txs = TablesAt(bs, n - 1).txs \union TxRows(bs[n])
          /\ TablesAt(bs, n).state = Feed!StateAfter(TablesAt(bs, n - 1).state, bs[n])
          /\ TablesAt(bs, n).cursor = Feed!Header(bs[n])
      BY <2>2 DEF Feed!WithBlock, HistoryRows, TxRows
    <2>5. \A m : m \in 1..n <=> m \in 1..(n - 1) \/ m = n
      OBVIOUS
    <2>6. \A x : x \in TablesAt(bs, n).history <=> \E m \in 1..n : x \in HistoryRows(bs[m])
      BY <2>1, <2>4, <2>5
    <2>7. \A x : x \in TablesAt(bs, n).txs <=> \E m \in 1..n : x \in TxRows(bs[m])
      BY <2>1, <2>4, <2>5
    <2>8. /\ TablesAt(bs, n).state = Feed!ProjectorAt(bs, n).state
          /\ TablesAt(bs, n).cursor = Feed!ProjectorAt(bs, n).checkpoint
      BY <2>1, <2>3, <2>4 DEF Feed!Projected
    <2> QED BY <2>1, <2>6, <2>7, <2>8
  <1>4. \A n \in 0..Len(bs) : n \in T
    <2> HIDE DEF T
    <2> QED BY <1>1, <1>2, <1>3, Ascent
  <1> QED BY <1>4

\* Anchor a is the first write of key k in the first n blocks.
FirstWrite(bs, k, n, a) ==
    \E m \in 1..n : /\ a.block = bs[m] /\ a.index \in Feed!Writers(bs[m], k)
                    /\ \A l \in 1..n : \A h \in Feed!Writers(bs[l], k) : NoLater(m, a.index, l, h)

\* What anchor a and the row c of the creation table say of a key.
CreationIs(bs, k, n, a, c) ==
    IF a = None THEN c = None /\ \A m \in 1..n : Feed!Writers(bs[m], k) = {}
    ELSE /\ FirstWrite(bs, k, n, a)
         /\ c = [at |-> Feed!At(a.block, a.index), value |-> a.block.txs[a.index].writes[k]]

\* Memory and table keep the first write of every key.
LEMMA CreationsHold ==
    ASSUME NEW bs \in Seq(Offered), NEW k \in Keys
    PROVE  \A n \in 0..Len(bs) : CreationIs(bs, k, n, AnchorsAt(bs, n)[k], TablesAt(bs, n).creation[k])
  <1> DEFINE T == {n \in 0..Len(bs) : CreationIs(bs, k, n, AnchorsAt(bs, n)[k], TablesAt(bs, n).creation[k])}
  <1>1. Len(bs) \in Nat
    OBVIOUS
  <1>2. 0 \in T
    <2>1. AnchorsAt(bs, 0)[k] = None /\ TablesAt(bs, 0).creation[k] = None
      BY TablesAre, AnchorsAre DEF Feed!NoTables, Feed!NoAnchors, Feed!EmptyState
    <2> QED BY <1>1, <2>1 DEF CreationIs
  <1>3. ASSUME NEW n \in 1..Len(bs), n - 1 \in T
        PROVE  n \in T
    <2>1. n \in 0..Len(bs) /\ n - 1 \in 0..Len(bs) /\ bs[n] \in Offered /\ n \in Nat
      BY <1>1
    <2>2. PICK a : a = AnchorsAt(bs, n - 1)[k]
      OBVIOUS
    <2>3. PICK c : c = TablesAt(bs, n - 1).creation[k]
      OBVIOUS
    <2>4. CreationIs(bs, k, n - 1, a, c)
      BY <1>3, <2>2, <2>3
    <2>5. a \in [block : Offered, index : Nat] \union {None} /\ c \in [at : Feed!Checkpoints, value : Values] \union {None}
      BY <2>1, <2>2, <2>3, AnchorsAre, TablesAre DEF Anchorings, Tables
    <2>6. PICK i : i = CHOOSE h \in Feed!Writers(bs[n], k) : \A j \in Feed!Writers(bs[n], k) : h <= j
      OBVIOUS
    <2>7. AnchorsAt(bs, n)[k] = IF a # None \/ Feed!Writers(bs[n], k) = {} THEN a
                                ELSE [block |-> bs[n], index |-> i]
      <3>1. AnchorsAt(bs, n) = Feed!Anchored(AnchorsAt(bs, n - 1), bs[n])
        BY AnchorsAre
      <3> QED BY <2>2, <2>6, <3>1 DEF Feed!Anchored
    <2>8. TablesAt(bs, n).creation[k] = IF c # None \/ Feed!Writers(bs[n], k) = {} THEN c
                                        ELSE [at |-> Feed!At(bs[n], i), value |-> bs[n].txs[i].writes[k]]
      <3>1. TablesAt(bs, n).creation = Feed!Created(TablesAt(bs, n - 1).creation, bs[n])
        BY TablesAre DEF Feed!WithBlock
      <3> QED BY <2>3, <2>6, <3>1 DEF Feed!Created
    <2>9. \A m : m \in 1..n <=> m \in 1..(n - 1) \/ m = n
      BY <2>1
    <2>10. CASE a # None
      <3>1. c = [at |-> Feed!At(a.block, a.index), value |-> a.block.txs[a.index].writes[k]]
            /\ FirstWrite(bs, k, n - 1, a)
        BY <2>4, <2>10 DEF CreationIs
      <3>2. PICK m \in 1..(n - 1) :
                /\ a.block = bs[m] /\ a.index \in Feed!Writers(bs[m], k)
                /\ \A l \in 1..(n - 1) : \A h \in Feed!Writers(bs[l], k) : NoLater(m, a.index, l, h)
        BY <3>1 DEF FirstWrite
      <3>3. bs[m] \in Offered /\ m < n
        BY <2>1, <3>2
      <3>4. a.index \in 0..Len(bs[m].txs) /\ bs[m].txs[a.index].writes[k] \in Values
        BY <3>2, <3>3, BlockShape
      <3>5. c # None
        <4>1. Feed!At(bs[m], a.index) \in Feed!Checkpoints
          BY <3>3, <3>4, PointType
        <4>2. c \in [at : Feed!Checkpoints, value : Values]
          BY <3>1, <3>2, <3>4, <4>1
        <4> QED BY <4>2, FeedAssumption
      <3>6. FirstWrite(bs, k, n, a)
        <4>1. \A h \in Feed!Writers(bs[n], k) : NoLater(m, a.index, n, h)
          BY <3>3 DEF NoLater
        <4> QED BY <2>9, <3>2, <4>1 DEF FirstWrite
      <3>7. AnchorsAt(bs, n)[k] = a /\ TablesAt(bs, n).creation[k] = c
        BY <2>7, <2>8, <2>10, <3>5
      <3>8. CreationIs(bs, k, n, a, c)
        BY <2>10, <3>1, <3>6 DEF CreationIs
      <3> QED BY <2>1, <3>7, <3>8
    <2>11. CASE a = None /\ Feed!Writers(bs[n], k) = {}
      <3>1. c = None /\ \A m \in 1..n : Feed!Writers(bs[m], k) = {}
        BY <2>4, <2>9, <2>11 DEF CreationIs
      <3>2. AnchorsAt(bs, n)[k] = None /\ TablesAt(bs, n).creation[k] = None
        BY <2>7, <2>8, <2>11, <3>1
      <3>3. CreationIs(bs, k, n, None, None)
        BY <3>1 DEF CreationIs
      <3> QED BY <2>1, <3>2, <3>3
    <2>12. CASE a = None /\ Feed!Writers(bs[n], k) # {}
      <3>1. c = None /\ \A m \in 1..(n - 1) : Feed!Writers(bs[m], k) = {}
        BY <2>4, <2>12 DEF CreationIs
      <3>2. i \in Feed!Writers(bs[n], k) /\ \A j \in Feed!Writers(bs[n], k) : i <= j
        BY <2>1, <2>6, <2>12, FirstWriter
      <3>3. PICK r : r = [block |-> bs[n], index |-> i]
        OBVIOUS
      <3>4. r.block = bs[n] /\ r.index = i /\ r # None
        <4>1. i \in Nat
          BY <2>1, <3>2, BlockShape
        <4>2. r \in [block : Offered, index : Nat]
          BY <2>1, <3>3, <4>1
        <4> QED BY <3>3, <4>2, FeedAssumption
      <3>5. FirstWrite(bs, k, n, r)
        <4>1. \A l \in 1..n : \A h \in Feed!Writers(bs[l], k) : NoLater(n, i, l, h)
          BY <2>9, <3>1, <3>2 DEF NoLater
        <4>2. n \in 1..n
          BY <2>1
        <4> QED BY <3>2, <3>4, <4>1, <4>2 DEF FirstWrite
      <3>6. AnchorsAt(bs, n)[k] = r
            /\ TablesAt(bs, n).creation[k] = [at |-> Feed!At(bs[n], i), value |-> bs[n].txs[i].writes[k]]
        BY <2>7, <2>8, <2>12, <3>1, <3>3
      <3>7. CreationIs(bs, k, n, r, [at |-> Feed!At(bs[n], i), value |-> bs[n].txs[i].writes[k]])
        BY <3>4, <3>5 DEF CreationIs
      <3> QED BY <2>1, <3>6, <3>7
    <2> QED BY <2>10, <2>11, <2>12
  <1>4. \A n \in 0..Len(bs) : n \in T
    <2> HIDE DEF T
    <2> QED BY <1>1, <1>2, <1>3, Ascent
  <1> QED BY <1>4

------------------------------------------------------------------------------
(* The invariant of the projection. *)

\* The snapshot a replay kept is that of its block.
SnapshotOf(bs, r) ==
    \E n \in 1..Len(bs) :
        /\ r.block = bs[n] /\ r.at.block = n - 1 /\ r.at.hash = Feed!Header(bs[n])
        /\ r.before = Feed!ProjectorAt(bs, n - 1).state

\* A cache within its bound.
Bounded(S) == IsFiniteSet(S) /\ Cardinality(S) <= MaxCached

\* What a process keeps follows from the blocks it verified, whatever became of
\* its file since.
MemorySound(m) ==
    /\ m \in Memories
    /\ Chained(m.digest)
    /\ m.projector = Feed!ProjectorAt(m.digest, Len(m.digest))
    /\ m.anchors = Feed!Anchors(m.digest)
    /\ \A r \in m.snapshots : SnapshotOf(m.digest, r)
    /\ \A b \in m.results : \E n \in 1..Len(m.digest) : b = m.digest[n]
    /\ Bounded(m.snapshots) /\ Bounded(m.results)

\* The block a process committed and has not published yet.
Unpublished == staged # None /\ staged.durable

\* A file nobody damaged holds what was verified, and the block in between.
FileSound ==
    /\ \A n \in 1..Len(raw) : raw[n].intact
    /\ Chained(Feed!Blocks(raw))
    /\ Feed!IsPrefix(seen, Feed!Blocks(raw))
    /\ memory # None => Feed!Blocks(raw) = IF Unpublished THEN Append(memory.digest, staged.block)
                                           ELSE memory.digest

FeedInv ==
    /\ raw \in Files /\ derived \in Tables /\ harms \in 0..MaxHarm /\ seen \in Seq(Offered)
    /\ memory # None => MemorySound(memory)
    /\ staged # None => /\ memory # None /\ staged \in [block : Offered, durable : BOOLEAN]
                        /\ Feed!Prepares(memory.projector, staged.block)
    /\ "journal" \notin hurt => FileSound
    /\ hurt = {} => derived = Feed!Derived(Feed!Blocks(raw))

\* A journal begins with itself, and with whatever its beginning begins with.
LEMMA Prefixes ==
    ASSUME NEW s \in Seq(Offered), NEW t \in Seq(Offered), NEW b \in Offered
    PROVE  /\ Feed!IsPrefix(s, s)
           /\ Feed!IsPrefix(s, t) => Feed!IsPrefix(s, Append(t, b))
  <1>1. Feed!IsPrefix(s, s)
    BY DEF Feed!IsPrefix
  <1>2. ASSUME Feed!IsPrefix(s, t)
        PROVE  Feed!IsPrefix(s, Append(t, b))
    <2>1. Len(s) <= Len(t) /\ SubSeq(s, 1, Len(s)) = SubSeq(t, 1, Len(s))
      BY <1>2 DEF Feed!IsPrefix
    <2>2. PICK u : u = Append(t, b)
      OBVIOUS
    <2>3. u \in Seq(Offered) /\ Len(u) = Len(t) + 1 /\ \A n \in 1..Len(t) : u[n] = t[n]
      BY <2>2
    <2>4. PICK n \in Nat : n = Len(s)
      OBVIOUS
    <2>5. n <= Len(t) /\ n <= Len(u)
      BY <2>1, <2>3, <2>4
    <2>6. SubSeq(u, 1, n) = SubSeq(t, 1, n)
      <3>1. /\ SubSeq(u, 1, n) = [i \in 1..n |-> u[i]]
            /\ SubSeq(t, 1, n) = [i \in 1..n |-> t[i]]
        BY <2>3, <2>5
      <3>2. \A i \in 1..n : u[i] = t[i]
        BY <2>3, <2>5
      <3> QED BY <3>1, <3>2
    <2> QED BY <2>1, <2>2, <2>4, <2>5, <2>6 DEF Feed!IsPrefix
  <1> QED BY <1>1, <1>2

\* A cache that takes an entry stays within its bound.
LEMMA CacheBound ==
    ASSUME NEW cache, Bounded(cache), NEW entry, NEW S \in Feed!Cached(cache, entry)
    PROVE  Bounded(S) /\ entry \in S /\ \A x \in S : x = entry \/ x \in cache
  <1>1. \A T : Feed!Cardinality(T) = Cardinality(T)
    BY DEF Cardinality, Feed!Cardinality
  <1>2. PICK rest : rest = cache \ {entry}
    OBVIOUS
  <1>3. IsFiniteSet(rest) /\ Cardinality(rest) \in Nat
    BY <1>2, FS_RemoveElement, FS_CardinalityType DEF Bounded
  <1>4. PICK kept \in SUBSET rest :
            /\ S = kept \union {entry}
            /\ Cardinality(kept) = IF Cardinality(rest) < MaxCached THEN Cardinality(rest) ELSE MaxCached - 1
    BY <1>1, <1>2 DEF Feed!Cached
  <1>5. IsFiniteSet(kept)
    BY <1>3, FS_Subset
  <1>6. IsFiniteSet(S) /\ Cardinality(S) = Cardinality(kept) + 1
    <2>1. entry \notin kept
      BY <1>2
    <2> QED BY <1>4, <1>5, <2>1, FS_AddElement
  <1>7. Cardinality(S) <= MaxCached
    BY <1>3, <1>4, <1>6, FeedAssumption
  <1> QED BY <1>2, <1>4, <1>6, <1>7 DEF Bounded

\* What a replay of the journal puts into memory.
LEMMA MemoryIs ==
    ASSUME NEW bs, Chained(bs)
    PROVE  MemorySound(Feed!MemoryOf(bs))
  <1>1. PICK m : m = Feed!MemoryOf(bs)
    OBVIOUS
  <1>2. /\ m = [projector |-> Feed!ProjectorAt(bs, Len(bs)), digest |-> bs, anchors |-> Feed!Anchors(bs),
                snapshots |-> {}, results |-> Feed!Newest(bs)]
        /\ m.projector = Feed!ProjectorAt(bs, Len(bs)) /\ m.digest = bs /\ m.anchors = Feed!Anchors(bs)
        /\ m.snapshots = {} /\ m.results = Feed!Newest(bs)
    BY <1>1 DEF Feed!MemoryOf
  <1>3. PICK N \in Nat : N = Len(bs) /\ bs \in Seq(Offered)
    BY DEF Chained
  <1>4. Feed!ProjectorAt(bs, N) \in Projectors /\ AnchorsAt(bs, N) \in Anchorings
    BY <1>3, ProjectorIs, AnchorsAre
  <1>5. Feed!Newest(bs) = {} \/ (Feed!Newest(bs) = {bs[N]} /\ N \in 1..N)
    <2>1. bs = <<>> \/ N \in 1..N
      BY <1>3
    <2> QED BY <1>3, <2>1 DEF Feed!Newest, Feed!Last
  <1>6. Feed!Newest(bs) \subseteq Offered
    BY <1>3, <1>5
  <1>7. Bounded({}) /\ Bounded(Feed!Newest(bs))
    <2>1. MaxCached \in Nat /\ MaxCached > 0
      BY FeedAssumption
    <2>2. Bounded({})
      BY <2>1, FS_EmptySet DEF Bounded
    <2>3. ASSUME NEW x
          PROVE  Bounded({x})
      <3>1. PICK c : c = Cardinality({x})
        OBVIOUS
      <3>2. IsFiniteSet({x}) /\ c = 1
        BY <3>1, FS_Singleton, Zenon
      <3> QED BY <2>1, <3>1, <3>2 DEF Bounded
    <2> QED BY <1>5, <2>2, <2>3
  <1>8. m \in Memories
    <2>1. Feed!ProjectorAt(bs, N) \in [state : States, checkpoint : Headers]
      BY <1>4 DEF Projectors
    <2>2. Feed!Anchors(bs) \in Anchorings
      BY <1>3, <1>4, WholeIs
    <2> QED BY <1>2, <1>3, <1>6, <2>1, <2>2 DEF Memories, States, Headers, Anchorings
  <1>9. \A b \in m.results : \E n \in 1..Len(bs) : b = bs[n]
    BY <1>2, <1>3, <1>5
  <1> QED BY <1>1, <1>2, <1>7, <1>8, <1>9 DEF MemorySound

\* The projection starts with an empty file and no process.
LEMMA FeedInit ==
    ASSUME Feed!Init
    PROVE  FeedInv
  <1>1. /\ raw = <<>> /\ derived = Feed!NoTables /\ memory = None /\ staged = None
        /\ seen = <<>> /\ hurt = {} /\ harms = 0
    BY DEF Feed!Init
  <1>2. raw \in Files /\ Len(raw) = 0 /\ seen \in Seq(Offered) /\ derived \in Tables
    BY <1>1, TablesType DEF Files
  <1>3. Feed!Blocks(raw) = <<>> /\ Len(Feed!Blocks(raw)) = 0
    <2>1. Feed!Blocks(raw) \in Seq(Offered) /\ Len(Feed!Blocks(raw)) = 0
      BY <1>2, ReplaysIs
    <2> QED BY <2>1
  <1>4. Chained(Feed!Blocks(raw))
    BY <1>3 DEF Chained
  <1>5. Feed!Derived(Feed!Blocks(raw)) = Feed!NoTables
    <2>1. Feed!Derived(Feed!Blocks(raw)) = TablesAt(Feed!Blocks(raw), 0)
      BY <1>3, WholeIs
    <2>2. Feed!Blocks(raw) \in Seq(Offered)
      BY <1>3
    <2> QED BY <2>1, <2>2, TablesAre
  <1>6. FileSound
    <2>1. Feed!IsPrefix(seen, Feed!Blocks(raw))
      BY <1>1, <1>3 DEF Feed!IsPrefix
    <2> QED BY <1>1, <1>2, <1>4, <2>1 DEF FileSound
  <1>7. harms \in 0..MaxHarm
    BY <1>1, FeedAssumption
  <1> QED BY <1>1, <1>2, <1>5, <1>6, <1>7 DEF FeedInv

\* The constructor verifies the journal and rebuilds everything else.
LEMMA StartKeeps ==
    ASSUME FeedInv, Feed!Open
    PROVE  FeedInv'
  <1>1. /\ memory = None /\ Feed!Replays(raw) /\ derived' = Feed!Rebuilt /\ memory' = Feed!MemoryOf(Feed!Blocks(raw))
        /\ seen' = IF "journal" \in hurt \/ Feed!IsPrefix(seen, Feed!Blocks(raw)) THEN Feed!Blocks(raw) ELSE seen
        /\ hurt' = {} /\ raw' = raw /\ staged' = staged /\ harms' = harms
    BY DEF Feed!Open
  <1>2. staged = None
    BY <1>1 DEF FeedInv
  <1>3. /\ Feed!Blocks(raw) \in Seq(Offered) /\ Chained(Feed!Blocks(raw)) /\ \A n \in 1..Len(raw) : raw[n].intact
    BY <1>1, ReplaysIs DEF FeedInv
  <1>4. MemorySound(memory') /\ memory'.digest = Feed!Blocks(raw)
    BY <1>1, <1>3, MemoryIs DEF Feed!MemoryOf
  <1>5. seen' = Feed!Blocks(raw)
    BY <1>1 DEF FeedInv, FileSound
  <1>6. derived' = Feed!Derived(Feed!Blocks(raw)) /\ derived' \in Tables
    <2>1. Len(Feed!Blocks(raw)) \in 0..Len(Feed!Blocks(raw))
      BY <1>3
    <2> QED BY <1>1, <1>3, <2>1, WholeIs, TablesAre DEF Feed!Rebuilt
  <1>7. Feed!IsPrefix(seen', Feed!Blocks(raw'))
    BY <1>1, <1>3, <1>5 DEF Feed!IsPrefix
  <1>8. FileSound'
    BY <1>1, <1>2, <1>3, <1>4, <1>7 DEF FileSound, Unpublished
  <1> QED BY <1>1, <1>2, <1>3, <1>4, <1>5, <1>6, <1>8 DEF FeedInv

\* A block is prepared.
LEMMA BeginKeeps ==
    ASSUME FeedInv, NEW b \in Offered, Feed!Begin(b)
    PROVE  FeedInv'
  <1>1. /\ memory # None /\ staged = None /\ Feed!Prepares(memory.projector, b)
        /\ staged' = [block |-> b, durable |-> FALSE]
        /\ raw' = raw /\ derived' = derived /\ memory' = memory /\ seen' = seen /\ hurt' = hurt /\ harms' = harms
    BY DEF Feed!Begin, Feed!Ready, Feed!file, Feed!ghosts
  <1>2. staged' \in [block : Offered, durable : BOOLEAN] /\ staged'.block = b /\ ~staged'.durable
    BY <1>1
  <1>3. Feed!Prepares(memory.projector, staged.block)'
    BY <1>1, <1>2
  <1>4. "journal" \notin hurt => FileSound'
    BY <1>1, <1>2 DEF FeedInv, FileSound, Unpublished
  <1> QED BY <1>1, <1>2, <1>3, <1>4 DEF FeedInv

\* The bytes of every row are those that were written.
Intact(j) == \A n \in 1..Len(j) : j[n].intact

\* File i is file j with block b after it.
RawExtends(i, j, b) ==
    /\ i \in Files /\ Len(i) = Len(j) + 1
    /\ Feed!Blocks(i) = Append(Feed!Blocks(j), b)
    /\ Intact(j) => Intact(i)

\* One more block in the file.
LEMMA RawGrows ==
    ASSUME NEW j \in Files, NEW b \in Offered
    PROVE  RawExtends(Append(j, [block |-> b, intact |-> TRUE]), j, b)
  <1>0. PICK r : r = [block |-> b, intact |-> TRUE]
    OBVIOUS
  <1>1. PICK i : i = Append(j, r)
    OBVIOUS
  <1>2. r \in RawBlocks /\ r.block = b /\ r.intact = TRUE
    BY <1>0 DEF RawBlocks
  <1>3. PICK N \in Nat : N = Len(j)
    BY DEF Files
  <1>4. i \in Files /\ Len(i) = N + 1 /\ i[N + 1] = r /\ \A n \in 1..N : i[n] = j[n]
    BY <1>2, <1>1, <1>3 DEF Files
  <1>5. /\ Feed!Blocks(i) \in Seq(Offered) /\ Len(Feed!Blocks(i)) = N + 1
        /\ \A n \in 1..(N + 1) : Feed!Blocks(i)[n] = i[n].block
    BY <1>4, ReplaysIs
  <1>6. Feed!Blocks(j) \in Seq(Offered) /\ Len(Feed!Blocks(j)) = N /\ \A n \in 1..N : Feed!Blocks(j)[n] = j[n].block
    BY <1>3, ReplaysIs
  <1>7. PICK cs : cs = Append(Feed!Blocks(j), b)
    OBVIOUS
  <1>8. cs \in Seq(Offered) /\ Len(cs) = N + 1 /\ cs[N + 1] = b /\ \A n \in 1..N : cs[n] = Feed!Blocks(j)[n]
    BY <1>6, <1>7
  <1>9. \A n \in 1..(N + 1) : n \in 1..N \/ n = N + 1
    OBVIOUS
  <1>10. \A n \in 1..(N + 1) : Feed!Blocks(i)[n] = cs[n]
    BY <1>2, <1>4, <1>5, <1>6, <1>8, <1>9
  <1>11. Feed!Blocks(i) = cs
    BY <1>5, <1>8, <1>10
  <1>12. (\A n \in 1..N : j[n].intact) => \A n \in 1..(N + 1) : i[n].intact
    BY <1>2, <1>4, <1>9
  <1> QED BY <1>0, <1>1, <1>3, <1>4, <1>7, <1>11, <1>12 DEF RawExtends, Intact

\* COMMIT: journal and tables take the block, memory does not yet.
LEMMA CommitSqlKeeps ==
    ASSUME FeedInv, Feed!CommitSql
    PROVE  FeedInv'
  <1>1. PICK b : b = staged.block
    OBVIOUS
  <1>2. PICK r : r = [block |-> b, intact |-> TRUE]
    OBVIOUS
  <1>3. /\ staged # None /\ ~staged.durable
        /\ raw' = Append(raw, r) /\ derived' = Feed!WithBlock(derived, b)
        /\ staged' = [staged EXCEPT !.durable = TRUE]
        /\ memory' = memory /\ seen' = seen /\ hurt' = hurt /\ harms' = harms
    BY <1>1, <1>2 DEF Feed!CommitSql, Feed!ghosts
  <1>4. /\ staged \in [block : Offered, durable : BOOLEAN] /\ b \in Offered
        /\ memory # None /\ MemorySound(memory) /\ Feed!Prepares(memory.projector, b)
    BY <1>1, <1>3 DEF FeedInv
  <1>5. staged' \in [block : Offered, durable : BOOLEAN] /\ staged'.block = b /\ staged'.durable /\ staged' # None
    <2>1. staged' \in [block : Offered, durable : BOOLEAN] /\ staged'.block = b /\ staged'.durable
      BY <1>1, <1>3, <1>4
    <2> QED BY <2>1, FeedAssumption
  <1>6. /\ raw' \in Files /\ Len(raw') = Len(raw) + 1
        /\ Feed!Blocks(raw') = Append(Feed!Blocks(raw), b)
        /\ Intact(raw) => Intact(raw')
    <2>1. raw \in Files
      BY DEF FeedInv
    <2>2. RawExtends(raw', raw, b)
      BY <1>2, <1>3, <1>4, <2>1, RawGrows
    <2> QED BY <2>2 DEF RawExtends
  <1>7. derived' \in Tables
    BY <1>3, <1>4, TablesType DEF FeedInv
  <1>8. Feed!Blocks(raw) \in Seq(Offered)
    BY ReplaysIs DEF FeedInv
  <1>9. ASSUME "journal" \notin hurt
        PROVE  FileSound'
    <2>1. FileSound /\ Feed!Blocks(raw) = memory.digest
      BY <1>3, <1>4, <1>9 DEF FeedInv, FileSound, Unpublished
    <2>2. Chained(Feed!Blocks(raw'))
      BY <1>4, <1>6, <2>1, ChainGrows DEF MemorySound
    <2>3. Feed!IsPrefix(seen, Append(Feed!Blocks(raw), b))
      BY <1>4, <1>8, <2>1, Prefixes DEF FeedInv, FileSound
    <2> QED BY <1>3, <1>5, <1>6, <2>1, <2>2, <2>3 DEF FileSound, Unpublished, Intact
  <1>10. ASSUME hurt = {}
         PROVE  derived' = Feed!Derived(Feed!Blocks(raw'))
    <2>1. derived = Feed!Derived(Feed!Blocks(raw))
      BY <1>10 DEF FeedInv
    <2>2. PICK cs : cs = Append(Feed!Blocks(raw), b)
      OBVIOUS
    <2>3. Extends(cs, Feed!Blocks(raw), b)
      BY <1>4, <1>8, <2>2, Appended
    <2> QED BY <1>3, <1>6, <2>1, <2>2, <2>3 DEF Extends
  <1> QED BY <1>1, <1>3, <1>4, <1>5, <1>6, <1>7, <1>9, <1>10 DEF FeedInv

\* A failed statement leaves file and memory as they were.
LEMMA RollbackKeeps ==
    ASSUME FeedInv, Feed!Rollback
    PROVE  FeedInv'
  <1>1. /\ staged # None /\ ~staged.durable /\ staged' = None
        /\ raw' = raw /\ derived' = derived /\ memory' = memory /\ seen' = seen /\ hurt' = hurt /\ harms' = harms
    BY DEF Feed!Rollback, Feed!file, Feed!ghosts
  <1>2. "journal" \notin hurt => FileSound'
    BY <1>1 DEF FeedInv, FileSound, Unpublished
  <1> QED BY <1>1, <1>2 DEF FeedInv

\* What a memory keeps stays sound when it takes the prepared block.
LEMMA MemoryGrows ==
    ASSUME NEW m, MemorySound(m), NEW b \in Offered, Feed!Prepares(m.projector, b),
           NEW kept \in Feed!Cached({r \in m.results : r.number # b.number}, b),
           NEW w, w = [m EXCEPT !.projector = Feed!Projected(@, b), !.digest = Append(@, b),
                                !.anchors = Feed!Anchored(@, b), !.results = kept]
    PROVE  MemorySound(w) /\ w.digest = Append(m.digest, b)
  <1>1. m \in Memories /\ Chained(m.digest) /\ m.digest \in Seq(Offered)
    BY DEF MemorySound, Chained
  <1>2. /\ w.projector = Feed!Projected(m.projector, b) /\ w.digest = Append(m.digest, b)
        /\ w.anchors = Feed!Anchored(m.anchors, b) /\ w.snapshots = m.snapshots /\ w.results = kept
        /\ w = [projector |-> w.projector, digest |-> w.digest, anchors |-> w.anchors,
                snapshots |-> w.snapshots, results |-> w.results]
    BY <1>1 DEF Memories
  <1>3. Extends(w.digest, m.digest, b)
    BY <1>1, <1>2, Appended
  <1>4. Bounded({r \in m.results : r.number # b.number})
    <2>1. IsFiniteSet(m.results) /\ Cardinality(m.results) <= MaxCached
      BY DEF MemorySound, Bounded
    <2>2. PICK S : S = {r \in m.results : r.number # b.number}
      OBVIOUS
    <2>3. S \in SUBSET m.results
      BY <2>2
    <2>4. IsFiniteSet(S) /\ Cardinality(S) <= Cardinality(m.results)
      BY <2>1, <2>3, FS_Subset
    <2>5. Cardinality(S) \in Nat /\ Cardinality(m.results) \in Nat
      BY <2>1, <2>4, FS_CardinalityType
    <2> QED BY <2>1, <2>2, <2>4, <2>5, FeedAssumption DEF Bounded
  <1>5. Bounded(kept) /\ \A x \in kept : x = b \/ x \in m.results
    BY <1>4, CacheBound
  <1>6. w \in Memories
    <2>1. Feed!Projected(m.projector, b) \in Projectors
      BY <1>1, ProjectedType DEF Memories, Projectors, Headers, States
    <2>2. Feed!Anchored(m.anchors, b) \in Anchorings
      BY <1>1, AnchoredType DEF Memories, Anchorings
    <2>3. kept \subseteq Offered
      BY <1>1, <1>5 DEF Memories
    <2>4. w.digest \in Seq(Offered)
      BY <1>3 DEF Extends
    <2> QED BY <1>1, <1>2, <2>1, <2>2, <2>3, <2>4 DEF Memories, Projectors, Headers, States, Anchorings
  <1>7. Chained(w.digest)
    BY <1>1, <1>2, ChainGrows DEF MemorySound
  <1>8. \A n \in 1..Len(m.digest) : n \in 1..Len(w.digest) /\ w.digest[n] = m.digest[n] /\ n - 1 \in 0..Len(m.digest)
    BY <1>1, <1>3 DEF Extends
  <1>9. \A r \in w.snapshots : SnapshotOf(w.digest, r)
    <2> SUFFICES ASSUME NEW r \in m.snapshots
                 PROVE  SnapshotOf(w.digest, r)
      BY <1>2
    <2>1. PICK n \in 1..Len(m.digest) :
              /\ r.block = m.digest[n] /\ r.at.block = n - 1 /\ r.at.hash = Feed!Header(m.digest[n])
              /\ r.before = Feed!ProjectorAt(m.digest, n - 1).state
      BY DEF MemorySound, SnapshotOf
    <2>2. Feed!ProjectorAt(w.digest, n - 1) = Feed!ProjectorAt(m.digest, n - 1)
      BY <1>3, <1>8 DEF Extends
    <2> QED BY <1>8, <2>1, <2>2 DEF SnapshotOf
  <1>10. \A x \in w.results : \E n \in 1..Len(w.digest) : x = w.digest[n]
    <2>1. Len(w.digest) \in 1..Len(w.digest) /\ w.digest[Len(w.digest)] = b
      BY <1>1, <1>3 DEF Extends
    <2> QED BY <1>2, <1>5, <1>8, <2>1 DEF MemorySound
  <1>11. /\ w.projector = Feed!ProjectorAt(w.digest, Len(w.digest))
         /\ w.anchors = Feed!Anchors(w.digest)
    BY <1>2, <1>3 DEF Extends, MemorySound
  <1>12. Bounded(w.snapshots) /\ Bounded(w.results)
    BY <1>2, <1>5 DEF MemorySound
  <1> QED BY <1>2, <1>6, <1>7, <1>9, <1>10, <1>11, <1>12 DEF MemorySound

\* After COMMIT the memory takes the block too.
LEMMA PublishKeeps ==
    ASSUME FeedInv, Feed!Publish
    PROVE  FeedInv'
  <1>1. PICK b : b = staged.block
    OBVIOUS
  <1>2. PICK kept \in Feed!Cached({r \in memory.results : r.number # b.number}, b) :
            memory' = [memory EXCEPT !.projector = Feed!Projected(@, b), !.digest = Append(@, b),
                                     !.anchors = Feed!Anchored(@, b), !.results = kept]
    BY <1>1 DEF Feed!Publish
  <1>3. /\ staged # None /\ staged.durable /\ staged' = None /\ seen' = memory'.digest
        /\ raw' = raw /\ derived' = derived /\ hurt' = hurt /\ harms' = harms
    BY DEF Feed!Publish, Feed!Durable, Feed!file
  <1>4. /\ b \in Offered /\ memory # None /\ MemorySound(memory) /\ Feed!Prepares(memory.projector, b)
    BY <1>1, <1>3 DEF FeedInv
  <1>5. MemorySound(memory') /\ memory'.digest = Append(memory.digest, b)
    BY <1>2, <1>4, MemoryGrows
  <1>6. memory'.digest \in Seq(Offered)
    BY <1>5 DEF MemorySound, Chained
  <1>7. ASSUME "journal" \notin hurt
        PROVE  FileSound'
    <2>1. FileSound /\ Feed!Blocks(raw) = Append(memory.digest, b)
      BY <1>1, <1>3, <1>4, <1>7 DEF FeedInv, FileSound, Unpublished
    <2>2. Feed!Blocks(raw') = memory'.digest
      BY <1>3, <1>5, <2>1
    <2>3. Feed!IsPrefix(seen', Feed!Blocks(raw'))
      BY <1>3, <1>6, <2>2 DEF Feed!IsPrefix
    <2> QED BY <1>3, <2>1, <2>2, <2>3 DEF FileSound, Unpublished
  <1> QED BY <1>3, <1>5, <1>6, <1>7 DEF FeedInv

\* A cache of the memory takes an entry the journal bears out.
LEMMA CachesKeep ==
    ASSUME FeedInv, memory # None, staged = None, NEW w, MemorySound(w), w.digest = memory.digest,
           memory' = w, UNCHANGED <<raw, derived, staged, seen, hurt, harms>>
    PROVE  FeedInv'
  <1>1. "journal" \notin hurt => FileSound'
    BY DEF FeedInv, FileSound, Unpublished
  <1> QED BY <1>1 DEF FeedInv

\* A verified block of the journal is the one that was verified.
LEMMA TrustedBlocks ==
    ASSUME FeedInv, memory # None, Feed!SameJournal
    PROVE  /\ DOMAIN raw = 1..Len(memory.digest)
           /\ \A n \in 1..Len(memory.digest) : raw[n].block = memory.digest[n]
  BY ReplaysIs DEF FeedInv, Feed!SameJournal

\* The block a replay or the cache answers with has its number.
LEMMA ResultIs ==
    ASSUME FeedInv, memory # None, NEW m \in Nat, NEW b \in Feed!BlockResult(m)
    PROVE  m + 1 \in 1..Len(memory.digest) /\ b = memory.digest[m + 1]
  <1>1. MemorySound(memory) /\ Chained(memory.digest) /\ memory.digest \in Seq(Offered)
    BY DEF FeedInv, MemorySound, Chained
  <1>2. CASE b \in memory.results /\ b.number = m
    <2>1. PICK n \in 1..Len(memory.digest) : b = memory.digest[n]
      BY <1>1, <1>2 DEF MemorySound
    <2>2. b.number = n - 1
      BY <1>1, <2>1, Numbered
    <2>3. n = m + 1
      BY <1>1, <1>2, <2>1, <2>2
    <2> QED BY <2>1, <2>3
  <1>3. CASE Feed!ReplayTrusted /\ m + 1 \in DOMAIN raw /\ b = raw[m + 1].block
    BY <1>3, TrustedBlocks DEF Feed!ReplayTrusted
  <1> QED BY <1>2, <1>3 DEF Feed!BlockResult

\* A block delivered again is answered from the journal.
LEMMA RedeliverKeeps ==
    ASSUME FeedInv, NEW b \in Offered, Feed!Redeliver(b)
    PROVE  FeedInv'
  <1>1. /\ memory # None /\ staged = None /\ MemorySound(memory)
        /\ UNCHANGED <<raw, derived, staged, seen, hurt, harms>>
    BY DEF Feed!Redeliver, Feed!Ready, Feed!file, Feed!ghosts, FeedInv
  <1>2. PICK r \in Feed!BlockResult(b.number) : \E kept \in Feed!Cached(memory.results \ {r}, r) :
            memory' = [memory EXCEPT !.results = kept]
    BY DEF Feed!Redeliver
  <1>3. PICK kept \in Feed!Cached(memory.results \ {r}, r) : memory' = [memory EXCEPT !.results = kept]
    BY <1>2
  <1>4. b.number \in Nat
    BY BlockShape
  <1>5. b.number + 1 \in 1..Len(memory.digest) /\ r = memory.digest[b.number + 1]
    BY <1>1, <1>2, <1>4, ResultIs
  <1>6. PICK w : w = [memory EXCEPT !.results = kept]
    OBVIOUS
  <1>7. /\ memory \in Memories /\ memory.digest \in Seq(Offered)
        /\ w.projector = memory.projector /\ w.digest = memory.digest /\ w.anchors = memory.anchors
        /\ w.snapshots = memory.snapshots /\ w.results = kept
    BY <1>1, <1>6 DEF MemorySound, Memories
  <1>8. Bounded(kept) /\ \A x \in kept : x = r \/ x \in memory.results
    <2>1. IsFiniteSet(memory.results) /\ Cardinality(memory.results) <= MaxCached
      BY <1>1 DEF MemorySound, Bounded
    <2>2. PICK S : S = memory.results \ {r}
      OBVIOUS
    <2>3. IsFiniteSet(S) /\ Cardinality(S) <= Cardinality(memory.results)
      BY <2>1, <2>2, FS_Subset
    <2>4. Cardinality(S) \in Nat /\ Cardinality(memory.results) \in Nat
      BY <2>1, <2>3, FS_CardinalityType
    <2>5. Bounded(S)
      BY <2>1, <2>3, <2>4, FeedAssumption DEF Bounded
    <2> QED BY <2>2, <2>5, CacheBound
  <1>9. \A x \in kept : \E n \in 1..Len(memory.digest) : x = memory.digest[n]
    BY <1>1, <1>5, <1>8 DEF MemorySound
  <1>10. w \in Memories
    <2>1. kept \subseteq Offered
      BY <1>7, <1>9
    <2> QED BY <1>6, <1>7, <2>1 DEF Memories
  <1>11. MemorySound(w)
    BY <1>1, <1>7, <1>8, <1>9, <1>10 DEF MemorySound
  <1> QED BY <1>1, <1>3, <1>6, <1>7, <1>11, CachesKeep

\* A snapshot that is kept or replayed is that of the block the point names.
LEMMA ReplayedIs ==
    ASSUME FeedInv, memory # None, NEW at \in Feed!Checkpoints, NEW r \in Feed!Replayed(at)
    PROVE  /\ r \in [at : Feed!Checkpoints, before : States, block : Offered]
           /\ r.at = at /\ SnapshotOf(memory.digest, r) /\ Feed!Names(at, r.block)
  <1>1. MemorySound(memory) /\ Chained(memory.digest) /\ memory.digest \in Seq(Offered)
    BY DEF FeedInv, MemorySound, Chained
  <1>2. CASE r \in Feed!SnapshotsOf(at) /\ Feed!Names(at, r.block)
    BY <1>1, <1>2 DEF Feed!SnapshotsOf, MemorySound, Memories, States
  <1>3. CASE Feed!ReplayTrusted /\ r \in Feed!Replay(at)
    <2>1. PICK x \in {raw[n].block : n \in DOMAIN raw} :
              /\ x.number = at.block /\ Feed!Header(x) = at.hash /\ Feed!Names(at, x)
              /\ r = [at |-> at, before |-> Feed!ProjectorAt(Feed!Blocks(raw), at.block).state, block |-> x]
      BY <1>3 DEF Feed!Replay
    <2>2. PICK n \in 1..Len(memory.digest) : x = memory.digest[n]
      BY <1>3, <2>1, TrustedBlocks DEF Feed!ReplayTrusted
    <2>3. x.number = n - 1
      BY <1>1, <2>2, Numbered
    <2>4. /\ r.at = at /\ r.block = x
          /\ r.before = Feed!ProjectorAt(memory.digest, n - 1).state
      BY <1>3, <2>1, <2>3 DEF Feed!ReplayTrusted, Feed!SameJournal
    <2>5. SnapshotOf(memory.digest, r)
      BY <2>1, <2>2, <2>3, <2>4 DEF SnapshotOf
    <2>6. n - 1 \in 0..Len(memory.digest) /\ x \in Offered
      BY <1>1, <2>2
    <2>7. Feed!ProjectorAt(memory.digest, n - 1).state \in States
      BY <1>1, <2>6, ProjectorIs DEF Projectors
    <2> QED BY <2>1, <2>4, <2>5, <2>6, <2>7
  <1> QED BY <1>2, <1>3 DEF Feed!Replayed

\* A read at an earlier point keeps the snapshot it replayed.
LEMMA ReplayingKeeps ==
    ASSUME FeedInv, NEW at \in Feed!Checkpoints, Feed!Replaying(at)
    PROVE  FeedInv'
  <1>1. /\ memory # None /\ staged = None /\ MemorySound(memory)
        /\ UNCHANGED <<raw, derived, staged, seen, hurt, harms>>
    BY DEF Feed!Replaying, Feed!Ready, Feed!file, Feed!ghosts, FeedInv
  <1>2. PICK r \in Feed!Replayed(at) : \E kept \in Feed!Cached(memory.snapshots, r) :
            memory' = [memory EXCEPT !.snapshots = kept]
    BY DEF Feed!Replaying
  <1>3. PICK kept \in Feed!Cached(memory.snapshots, r) : memory' = [memory EXCEPT !.snapshots = kept]
    BY <1>2
  <1>4. r \in [at : Feed!Checkpoints, before : States, block : Offered] /\ SnapshotOf(memory.digest, r)
    BY <1>1, <1>2, ReplayedIs
  <1>5. PICK w : w = [memory EXCEPT !.snapshots = kept]
    OBVIOUS
  <1>6. /\ memory \in Memories
        /\ w.projector = memory.projector /\ w.digest = memory.digest /\ w.anchors = memory.anchors
        /\ w.snapshots = kept /\ w.results = memory.results
    BY <1>1, <1>5 DEF MemorySound, Memories
  <1>7. Bounded(kept) /\ \A x \in kept : x = r \/ x \in memory.snapshots
    BY <1>1, CacheBound DEF MemorySound
  <1>8. \A x \in kept : SnapshotOf(memory.digest, x)
    BY <1>1, <1>4, <1>7 DEF MemorySound
  <1>9. w \in Memories
    <2>1. kept \subseteq [at : Feed!Checkpoints, before : States, block : Offered]
      BY <1>4, <1>6, <1>7 DEF Memories, States
    <2> QED BY <1>5, <1>6, <2>1 DEF Memories, States
  <1>10. MemorySound(w)
    BY <1>1, <1>6, <1>7, <1>8, <1>9 DEF MemorySound
  <1> QED BY <1>1, <1>3, <1>5, <1>6, <1>10, CachesKeep

\* A stopped process leaves the file, and no open transaction.
LEMMA StopKeeps ==
    ASSUME FeedInv, Feed!Stop
    PROVE  FeedInv'
  <1>1. /\ memory' = None /\ staged' = None
        /\ raw' = raw /\ derived' = derived /\ seen' = seen /\ hurt' = hurt /\ harms' = harms
    BY DEF Feed!Stop, Feed!file, Feed!ghosts
  <1>2. "journal" \notin hurt => FileSound'
    BY <1>1 DEF FeedInv, FileSound
  <1> QED BY <1>1, <1>2 DEF FeedInv

\* A damaged table is a table still.
LEMMA TableDamage ==
    ASSUME FeedInv, Feed!DamageRow, raw' = raw
    PROVE  derived' \in Tables
  <1>1. derived \in Tables
    BY DEF FeedInv
  <1>2. CASE derived' = derived
    BY <1>1, <1>2
  <1>3. CASE \E k \in Keys, v \in Values \union {None} : derived' = [derived EXCEPT !.state[k] = v]
    BY <1>1, <1>3 DEF Tables, States
  <1>4. CASE \E k \in Keys : derived' = [derived EXCEPT !.creation[k] = None]
    BY <1>1, <1>4 DEF Tables
  <1>5. CASE \E r \in derived.history : derived' = [derived EXCEPT !.history = @ \ {r}]
    BY <1>1, <1>5 DEF Tables
  <1>6. CASE \E r \in derived.txs : derived' = [derived EXCEPT !.txs = @ \ {r}]
    BY <1>1, <1>6 DEF Tables
  <1>7. CASE \E r \in derived.txs : derived' = [derived EXCEPT !.txs = (@ \ {r}) \union {[r EXCEPT !.tx.valid = ~@]}]
    <2>1. PICK r \in derived.txs : derived' = [derived EXCEPT !.txs = (@ \ {r}) \union {[r EXCEPT !.tx.valid = ~@]}]
      BY <1>7
    <2>2. r \in [block : Nat, index : Nat, tx : Feed!Tx]
      BY <1>1 DEF Tables
    <2>3. [r EXCEPT !.tx.valid = ~@] \in [block : Nat, index : Nat, tx : Feed!Tx]
      BY <2>2 DEF Feed!Tx
    <2> QED BY <1>1, <2>1, <2>3 DEF Tables
  <1>8. CASE derived' = [derived EXCEPT !.cursor = None]
    BY <1>1, <1>8 DEF Tables, Headers
  <1> QED BY <1>2, <1>3, <1>4, <1>5, <1>6, <1>7, <1>8 DEF Feed!DamageRow

\* A damaged row is on record.
LEMMA DamageRowKeeps ==
    ASSUME FeedInv, Feed!DamageRow
    PROVE  FeedInv'
  <1>1. /\ staged = None /\ memory' = memory /\ staged' = staged /\ seen' = seen
        /\ harms < MaxHarm /\ harms' = harms + 1
    BY DEF Feed!DamageRow, Feed!Damaged
  <1>2. harms' \in 0..MaxHarm
    BY <1>1, FeedAssumption DEF FeedInv
  <1>3. CASE /\ hurt' = hurt \union {"journal"} /\ derived' = derived
             /\ \E n \in DOMAIN raw : raw' = [raw EXCEPT ![n].intact = FALSE]
    <2>1. PICK n \in DOMAIN raw : raw' = [raw EXCEPT ![n].intact = FALSE]
      BY <1>3
    <2>2. raw \in Seq(RawBlocks)
      BY DEF FeedInv, Files
    <2>3. PICK N \in Nat : N = Len(raw) /\ DOMAIN raw = 1..N
      BY <2>2
    <2>4. raw[n] \in RawBlocks
      BY <2>1, <2>2, <2>3
    <2>5. PICK r \in RawBlocks : r = [raw[n] EXCEPT !.intact = FALSE]
      BY <2>4 DEF RawBlocks
    <2>6. raw' = [raw EXCEPT ![n] = r]
      BY <2>1, <2>5
    <2>7. raw' \in Files
      BY <2>2, <2>6 DEF Files
    <2> QED BY <1>1, <1>2, <1>3, <2>7 DEF FeedInv
  <1>4. CASE hurt' = hurt \union {"tables"} /\ raw' = raw
    <2>1. derived' \in Tables
      BY <1>4, TableDamage
    <2>2. "journal" \notin hurt' => FileSound'
      BY <1>1, <1>4 DEF FeedInv, FileSound, Unpublished
    <2>3. hurt' # {}
      BY <1>4
    <2> QED BY <1>1, <1>2, <1>4, <2>1, <2>2, <2>3 DEF FeedInv
  <1> QED BY <1>3, <1>4 DEF Feed!DamageRow, Feed!Damaged

\* Another file in the place of this one.
LEMMA ReplacedKeeps ==
    ASSUME FeedInv, Feed!Replaced
    PROVE  FeedInv'
  <1>1. /\ staged = None /\ memory' = memory /\ staged' = staged /\ seen' = seen
        /\ harms < MaxHarm /\ harms' = harms + 1 /\ hurt' = hurt \union {"journal", "tables"}
    BY DEF Feed!Replaced, Feed!Damaged
  <1>2. harms' \in 0..MaxHarm
    BY <1>1, FeedAssumption DEF FeedInv
  <1>3. PICK j \in Feed!OtherFiles : raw' = j /\ derived' = Feed!Derived(Feed!Blocks(j))
    BY DEF Feed!Replaced
  <1>4. PICK n \in 1..MaxBlocks : j \in [1..n -> {[block |-> b, intact |-> TRUE] : b \in Offered}]
    BY <1>3 DEF Feed!OtherFiles
  <1>5. j \in Files
    <2>1. n \in Nat
      BY <1>4, FeedAssumption
    <2>2. {[block |-> b, intact |-> TRUE] : b \in Offered} \subseteq RawBlocks
      <3>1. \A b \in Offered : [block |-> b, intact |-> TRUE] \in RawBlocks
        BY DEF RawBlocks
      <3> QED BY <3>1
    <2>3. j \in [1..n -> RawBlocks]
      BY <1>4, <2>2
    <2> QED BY <2>1, <2>3 DEF Files
  <1>6. derived' \in Tables
    <2>1. Feed!Blocks(j) \in Seq(Offered)
      BY <1>5, ReplaysIs
    <2>2. Len(Feed!Blocks(j)) \in 0..Len(Feed!Blocks(j))
      BY <2>1
    <2> QED BY <1>3, <2>1, <2>2, WholeIs, TablesAre
  <1> QED BY <1>1, <1>2, <1>3, <1>5, <1>6 DEF FeedInv

\* Every step of the projection keeps its invariant.
LEMMA FeedStep ==
    ASSUME FeedInv, [NextStores]_<<part, vars, feed>>
    PROVE  FeedInv'
  <1>1. CASE UNCHANGED feed
    BY <1>1 DEF FeedInv, FileSound, Unpublished, feed
  <1>2. CASE Feed!Next
    BY <1>2, StartKeeps, BeginKeeps, CommitSqlKeeps, RollbackKeeps, PublishKeeps, RedeliverKeeps, ReplayingKeeps,
       StopKeeps, DamageRowKeeps, ReplacedKeeps DEF Feed!Next
  <1> QED BY <1>1, <1>2 DEF NextStores

------------------------------------------------------------------------------
(* Answers. *)

\* The checkpoint a running projection trusts is the last block's.
LEMMA TipIs ==
    ASSUME FeedInv, memory # None
    PROVE  /\ memory.digest \in Seq(Offered) /\ Chained(memory.digest) /\ MemorySound(memory)
           /\ memory.digest # <<>> => Feed!Last(memory.digest) = memory.digest[Len(memory.digest)]
                                      /\ Len(memory.digest) \in 1..Len(memory.digest)
  BY DEF FeedInv, MemorySound, Chained, Feed!Last

\* The point after transaction i of the n-th block, and the state there.
PointAt(bs, n, i) ==
    [at |-> Feed!At(bs[n], i),
     state |-> Feed!Staged(Feed!ProjectorAt(bs, n - 1).state, bs[n])[i]]

\* These are the points readers may be answered for.
LEMMA VerifiedIs ==
    ASSUME FeedInv, memory # None, NEW v
    PROVE  v \in Feed!Verified <=>
             \E n \in 1..Len(memory.digest) : \E i \in Feed!Points(memory.digest[n]) :
                v = PointAt(memory.digest, n, i)
  <1>1. DOMAIN memory.digest = 1..Len(memory.digest)
    BY TipIs
  <1>2. Feed!Verified = UNION {{PointAt(memory.digest, n, i) : i \in Feed!Points(memory.digest[n])} :
                                    n \in DOMAIN memory.digest}
    BY DEF Feed!Verified, PointAt
  <1> QED BY <1>1, <1>2

\* The state after the last transaction of the last block is the projector's.
LEMMA LastState ==
    ASSUME FeedInv, memory # None, memory.digest # <<>>, NEW n, n = Len(memory.digest)
    PROVE  memory.projector.state =
             Feed!Staged(Feed!ProjectorAt(memory.digest, n - 1).state, memory.digest[n])[Len(memory.digest[n].txs)]
  <1>1. n \in 1..Len(memory.digest) /\ memory.digest \in Seq(Offered) /\ memory.projector = Feed!ProjectorAt(memory.digest, n)
    BY TipIs DEF MemorySound
  <1> QED BY <1>1, ProjectorIs DEF Feed!Projected, Feed!StateAfter

\* What the projection expects at a point is what its journal says.
LEMMA ExpectedVerified ==
    ASSUME FeedInv, memory # None, NEW at \in Feed!Checkpoints, NEW s \in Feed!Expected(at)
    PROVE  [at |-> at, state |-> s] \in Feed!Verified /\ s \in States
  <1>1. MemorySound(memory) /\ Chained(memory.digest) /\ memory.digest \in Seq(Offered)
    BY TipIs
  <1>2. PICK b \in Offered : \E i \in 0..Len(b.txs) : at = Feed!At(b, i)
    BY DEF Feed!Checkpoints
  <1>3. CASE Feed!Current(at) /\ s = memory.projector.state
    <2>1. PICK n : n = Len(memory.digest)
      OBVIOUS
    <2>2. /\ n \in 1..Len(memory.digest) /\ memory.digest[n] \in Offered
          /\ at = Feed!At(memory.digest[n], Len(memory.digest[n].txs))
      BY <1>1, <1>3, <2>1, TipIs DEF Feed!Current
    <2>3. Len(memory.digest[n].txs) \in Feed!Points(memory.digest[n])
      <3>1. memory.digest[n].txs \in Seq(Feed!Tx)
        BY <2>2, BlockShape
      <3> QED BY <3>1 DEF Feed!Points
    <2>4. s = Feed!Staged(Feed!ProjectorAt(memory.digest, n - 1).state, memory.digest[n])[Len(memory.digest[n].txs)]
      BY <1>3, <2>1, <2>2, LastState
    <2>5. s \in States
      BY <1>1, <1>3 DEF MemorySound, Memories, States
    <2> QED BY <2>2, <2>3, <2>4, <2>5, VerifiedIs DEF PointAt
  <1>4. CASE ~Feed!Current(at) /\ \E r \in Feed!Replayed(at) : s = Feed!Staged(r.before, r.block)[at.index]
    <2>1. PICK r \in Feed!Replayed(at) : s = Feed!Staged(r.before, r.block)[at.index]
      BY <1>4
    <2>2. r.at = at /\ SnapshotOf(memory.digest, r) /\ Feed!Names(at, r.block)
      BY <2>1, ReplayedIs
    <2>3. PICK n \in 1..Len(memory.digest) :
              /\ r.block = memory.digest[n] /\ at.block = n - 1 /\ at.hash = Feed!Header(memory.digest[n])
              /\ r.before = Feed!ProjectorAt(memory.digest, n - 1).state
      BY <2>2 DEF SnapshotOf
    <2>4. PICK x \in Offered : x = memory.digest[n]
      BY <1>1, <2>3
    <2>5. x.number = n - 1 /\ DOMAIN x.txs = 1..Len(x.txs) /\ Len(x.txs) \in Nat /\ x.txs \in Seq(Feed!Tx)
      BY <1>1, <2>3, <2>4, Numbered, BlockShape
    <2>6. at = [block |-> at.block, index |-> at.index, id |-> at.id, hash |-> at.hash]
      BY <1>2 DEF Feed!At
    <2>7. at.index \in Feed!Points(x) /\ at.id = IF at.index = 0 THEN "" ELSE x.txs[at.index].id
      <3>1. CASE at.index = 0
        BY <2>2, <2>3, <2>4, <3>1 DEF Feed!Names, Feed!Points
      <3>2. CASE at.index # 0
        <4>1. at.index \in DOMAIN x.txs /\ x.txs[at.index].id = at.id
          BY <2>2, <2>3, <2>4, <3>2 DEF Feed!Names
        <4>2. x.txs # <<>>
          BY <2>5, <4>1
        <4> QED BY <3>2, <4>1, <4>2 DEF Feed!Points
      <3> QED BY <3>1, <3>2
    <2>8. at = Feed!At(x, at.index)
      BY <2>3, <2>4, <2>5, <2>6, <2>7 DEF Feed!At
    <2>9. at.index \in 0..Len(x.txs)
      <3>1. CASE at.index = 0
        BY <2>5, <3>1
      <3>2. CASE at.index # 0
        BY <2>5, <2>7, <3>2 DEF Feed!Points
      <3> QED BY <3>1, <3>2
    <2>10. s \in States
      <3>1. n - 1 \in 0..Len(memory.digest)
        BY <1>1
      <3>2. r.before \in States
        BY <1>1, <2>3, <3>1, ProjectorIs DEF Projectors
      <3>3. Feed!Staged(r.before, x) \in [0..Len(x.txs) -> States]
        BY <3>2, StagedIs
      <3> QED BY <2>1, <2>3, <2>4, <2>9, <3>3
    <2> QED BY <2>1, <2>3, <2>4, <2>7, <2>8, <2>10, VerifiedIs DEF PointAt
  <1> QED BY <1>3, <1>4, FeedAssumption DEF Feed!Expected, Feed!Now

\* The VALID transactions of the verified journal.
LEMMA CommittedIs ==
    ASSUME FeedInv, memory # None, NEW c
    PROVE  c \in Feed!Committed <=>
             \E n \in 1..Len(memory.digest) : \E i \in DOMAIN memory.digest[n].txs :
                /\ memory.digest[n].txs[i].valid
                /\ c = [at |-> Feed!At(memory.digest[n], i), tx |-> memory.digest[n].txs[i]]
  <1> DEFINE Of(b) == {[at |-> Feed!At(b, i), tx |-> b.txs[i]] : i \in {j \in DOMAIN b.txs : b.txs[j].valid}}
  <1>1. DOMAIN memory.digest = 1..Len(memory.digest)
    BY TipIs
  <1>2. Feed!Committed = UNION {Of(b) : b \in {memory.digest[n] : n \in DOMAIN memory.digest}}
    BY DEF Feed!Committed, Feed!Range
  <1>3. \A b : c \in Of(b) <=> \E i \in DOMAIN b.txs : b.txs[i].valid /\ c = [at |-> Feed!At(b, i), tx |-> b.txs[i]]
    OBVIOUS
  <1>4. c \in Feed!Committed <=> \E n \in 1..Len(memory.digest) : c \in Of(memory.digest[n])
    <2> HIDE DEF Of
    <2> QED BY <1>1, <1>2
  <1> QED BY <1>3, <1>4

\* Reads at a point and reads now.
LEMMA ReadsTrue ==
    ASSUME FeedInv, Feed!Ready
    PROVE  /\ \A at \in Feed!Checkpoints : \A s \in Feed!Reads(Keys, at) :
                [at |-> at, state |-> s] \in Feed!Verified
           /\ \A s \in Feed!Reads(Keys, Feed!Now) : s = memory.projector.state
  <1>1. memory # None /\ memory.projector.state \in States
    BY TipIs DEF Feed!Ready, MemorySound, Memories, States
  <1>2. ASSUME NEW at \in Feed!Checkpoints, NEW s \in Feed!Reads(Keys, at)
        PROVE  [at |-> at, state |-> s] \in Feed!Verified
    <2>1. PICK x \in Feed!Expected(at) : s = [k \in Keys |-> x[k]]
      BY DEF Feed!Reads
    <2>2. [at |-> at, state |-> x] \in Feed!Verified /\ x \in States
      BY <1>1, <2>1, ExpectedVerified
    <2>3. s = x
      BY <2>1, <2>2 DEF States
    <2> QED BY <2>2, <2>3
  <1>3. ASSUME NEW s \in Feed!Reads(Keys, Feed!Now)
        PROVE  s = memory.projector.state
    <2>1. PICK x \in Feed!Expected(Feed!Now) : s = [k \in Keys |-> x[k]]
      BY DEF Feed!Reads
    <2>2. x = memory.projector.state
      BY <2>1 DEF Feed!Expected
    <2> QED BY <1>1, <2>1, <2>2 DEF States
  <1> QED BY <1>2, <1>3

\* The row that is found first only says where to look.
LEMMA ReceiptsTrue ==
    ASSUME FeedInv, Feed!Ready, NEW id, NEW at \in Feed!Receipt(id)
    PROVE  \E c \in Feed!Committed : c.at = at /\ c.tx.id = id
  <1>1. memory # None
    BY DEF Feed!Ready
  <1>2. PICK p \in UNION {{r} \X Feed!BlockResult(r.block) : r \in Feed!Located(id)} :
            /\ p[1].index \in DOMAIN p[2].txs
            /\ p[2].txs[p[1].index].valid /\ p[2].txs[p[1].index].id = id
            /\ at = Feed!At(p[2], p[1].index)
    BY DEF Feed!Receipt
  <1>3. PICK r \in Feed!Located(id) : p \in {r} \X Feed!BlockResult(r.block)
    BY <1>2
  <1>4. p[1] = r /\ p[2] \in Feed!BlockResult(r.block)
    BY <1>3
  <1>5. r.block \in Nat
    BY DEF Feed!Located, FeedInv, Tables
  <1>6. r.block + 1 \in 1..Len(memory.digest) /\ p[2] = memory.digest[r.block + 1]
    BY <1>1, <1>4, <1>5, ResultIs
  <1>7. [at |-> at, tx |-> p[2].txs[r.index]] \in Feed!Committed
    BY <1>1, <1>2, <1>4, <1>6, CommittedIs
  <1> QED BY <1>2, <1>4, <1>7

\* The anchors of the memory say where a key was first written.
LEMMA CreationsTrue ==
    ASSUME FeedInv, Feed!Ready, NEW k \in Keys, NEW at \in Feed!Creation(k)
    PROVE  \E c \in Feed!Committed :
              /\ c.at = at /\ k \in DOMAIN c.tx.writes
              /\ \A d \in Feed!Committed : k \in DOMAIN d.tx.writes =>
                    d.at.block > at.block \/ (d.at.block = at.block /\ d.at.index >= at.index)
  <1>1. memory # None /\ MemorySound(memory) /\ Chained(memory.digest) /\ memory.digest \in Seq(Offered)
    BY TipIs DEF Feed!Ready
  <1>2. PICK bs : bs = memory.digest
    OBVIOUS
  <1>3. PICK a : a = memory.anchors[k]
    OBVIOUS
  <1>4. a # None /\ at = Feed!At(a.block, a.index)
    BY <1>3 DEF Feed!Creation
  <1>5. Len(bs) \in 0..Len(bs) /\ a = AnchorsAt(bs, Len(bs))[k]
    BY <1>1, <1>2, <1>3, WholeIs DEF MemorySound
  <1>6. FirstWrite(bs, k, Len(bs), a)
    BY <1>1, <1>2, <1>4, <1>5, CreationsHold DEF CreationIs
  <1>7. PICK m \in 1..Len(bs) :
            /\ a.block = bs[m] /\ a.index \in Feed!Writers(bs[m], k)
            /\ \A l \in 1..Len(bs) : \A h \in Feed!Writers(bs[l], k) : NoLater(m, a.index, l, h)
    BY <1>6 DEF FirstWrite
  <1>8. \A n \in 1..Len(bs) : bs[n] \in Offered /\ bs[n].number = n - 1 /\ n \in Nat
    BY <1>1, <1>2, Numbered
  <1>9. \A n \in 1..Len(bs) : \A i : i \in Feed!Writers(bs[n], k) <=>
            i \in DOMAIN bs[n].txs /\ bs[n].txs[i].valid /\ k \in DOMAIN bs[n].txs[i].writes
    BY DEF Feed!Writers
  <1>10. \A n \in 1..Len(bs) : \A i \in Feed!Writers(bs[n], k) : i \in Nat
    BY <1>8, BlockShape
  <1>11. PICK c : c = [at |-> at, tx |-> bs[m].txs[a.index]]
    OBVIOUS
  <1>12. c \in Feed!Committed /\ c.at = at /\ k \in DOMAIN c.tx.writes
    BY <1>1, <1>2, <1>4, <1>7, <1>9, <1>11, CommittedIs
  <1>13. at.block = m - 1 /\ at.index = a.index
    BY <1>4, <1>7, <1>8 DEF Feed!At
  <1>14. ASSUME NEW d \in Feed!Committed, k \in DOMAIN d.tx.writes
         PROVE  d.at.block > at.block \/ (d.at.block = at.block /\ d.at.index >= at.index)
    <2>1. PICK l \in 1..Len(bs) : \E i \in DOMAIN bs[l].txs :
              bs[l].txs[i].valid /\ d = [at |-> Feed!At(bs[l], i), tx |-> bs[l].txs[i]]
      BY <1>1, <1>2, CommittedIs
    <2>2. PICK i \in DOMAIN bs[l].txs :
              bs[l].txs[i].valid /\ d = [at |-> Feed!At(bs[l], i), tx |-> bs[l].txs[i]]
      BY <2>1
    <2>3. i \in Feed!Writers(bs[l], k)
      BY <1>9, <1>14, <2>2
    <2>4. NoLater(m, a.index, l, i)
      BY <1>7, <2>3
    <2>5. d.at.block = l - 1 /\ d.at.index = i
      BY <1>8, <2>2 DEF Feed!At
    <2> QED BY <1>7, <1>8, <1>10, <1>13, <2>3, <2>4, <2>5 DEF NoLater
  <1> QED BY <1>12, <1>14

\* The event transaction i of block b hands out.
EventOf(b, i) == [at |-> Feed!At(b, i), writes |-> b.txs[i].writes]

\* The VALID transactions of journal bs in the blocks after a number.
ValidAfter(bs, after, n, i) ==
    n \in 1..Len(bs) /\ i \in DOMAIN bs[n].txs /\ bs[n].number > after /\ bs[n].txs[i].valid

\* The events of the committed transactions.
LEMMA CommittedEvents ==
    ASSUME FeedInv, memory # None, NEW after, NEW x
    PROVE  x \in {[at |-> c.at, writes |-> c.tx.writes] : c \in {d \in Feed!Committed : d.at.block > after}}
           <=> \E n, i : ValidAfter(memory.digest, after, n, i) /\ x = EventOf(memory.digest[n], i)
  <1> DEFINE bs == memory.digest
             C(n, i) == [at |-> Feed!At(bs[n], i), tx |-> bs[n].txs[i]]
             Event(c) == [at |-> c.at, writes |-> c.tx.writes]
  <1>1. \A n, i : C(n, i).at.block = bs[n].number /\ Event(C(n, i)) = EventOf(bs[n], i)
    BY DEF Feed!At, EventOf
  <1>2. \A c : c \in Feed!Committed <=>
          \E n \in 1..Len(bs) : \E i \in DOMAIN bs[n].txs : bs[n].txs[i].valid /\ c = C(n, i)
    BY CommittedIs
  <1>3. ASSUME NEW n, NEW i, ValidAfter(bs, after, n, i)
        PROVE  C(n, i) \in {d \in Feed!Committed : d.at.block > after}
    <2> HIDE DEF C
    <2> QED BY <1>1, <1>2, <1>3 DEF ValidAfter
  <1>4. ASSUME NEW c \in {d \in Feed!Committed : d.at.block > after}
        PROVE  \E n, i : ValidAfter(bs, after, n, i) /\ c = C(n, i)
    <2> HIDE DEF C
    <2> QED BY <1>1, <1>2, <1>4 DEF ValidAfter
  <1>5. x \in {Event(c) : c \in {d \in Feed!Committed : d.at.block > after}}
        <=> \E n, i : ValidAfter(bs, after, n, i) /\ x = EventOf(bs[n], i)
    <2> HIDE DEF C, Event
    <2>1. ASSUME NEW c \in {d \in Feed!Committed : d.at.block > after}, x = Event(c)
          PROVE  \E n, i : ValidAfter(bs, after, n, i) /\ x = EventOf(bs[n], i)
      BY <1>1, <1>4, <2>1
    <2>2. ASSUME NEW n, NEW i, ValidAfter(bs, after, n, i), x = EventOf(bs[n], i)
          PROVE  \E c \in {d \in Feed!Committed : d.at.block > after} : x = Event(c)
      BY <1>1, <1>3, <2>2
    <2> QED BY <2>1, <2>2
  <1> QED BY <1>5

\* Events are handed out when the file still is the verified journal.
LEMMA EventsTrue ==
    ASSUME FeedInv, Feed!Ready, NEW after, NEW e \in Feed!Events(after)
    PROVE  e = {[at |-> c.at, writes |-> c.tx.writes] : c \in {d \in Feed!Committed : d.at.block > after}}
  <1>1. memory # None /\ Feed!ReplayTrusted
        /\ e = {[at |-> Feed!At(p[1], p[2]), writes |-> p[1].txs[p[2]].writes] : p \in Feed!Selected(after)}
    BY DEF Feed!Ready, Feed!Events
  <1>2. {raw[n].block : n \in DOMAIN raw} = {memory.digest[n] : n \in 1..Len(memory.digest)}
    BY <1>1, TrustedBlocks DEF Feed!ReplayTrusted
  <1>3. \A p : p \in Feed!Selected(after) <=>
            \E n, i : ValidAfter(memory.digest, after, n, i) /\ p = <<memory.digest[n], i>>
    <2> SUFFICES ASSUME NEW p
                 PROVE  p \in Feed!Selected(after) <=>
                        \E n, i : ValidAfter(memory.digest, after, n, i) /\ p = <<memory.digest[n], i>>
      OBVIOUS
    <2>1. p \in Feed!Selected(after) <=>
            /\ \E n \in 1..Len(memory.digest) : p \in {memory.digest[n]} \X DOMAIN memory.digest[n].txs
            /\ p[1].number > after /\ p[1].txs[p[2]].valid
      BY <1>2 DEF Feed!Selected
    <2>2. \A b : p \in {b} \X DOMAIN b.txs <=> \E i \in DOMAIN b.txs : p = <<b, i>>
      OBVIOUS
    <2> QED BY <2>1, <2>2 DEF ValidAfter
  <1>4. e = {EventOf(p[1], p[2]) : p \in Feed!Selected(after)}
    BY <1>1 DEF EventOf
  <1>5. \A x : x \in e <=>
            \E n, i : ValidAfter(memory.digest, after, n, i) /\ x = EventOf(memory.digest[n], i)
    <2>1. ASSUME NEW x \in e
          PROVE  \E n, i : ValidAfter(memory.digest, after, n, i) /\ x = EventOf(memory.digest[n], i)
      <3>1. PICK p \in Feed!Selected(after) : x = EventOf(p[1], p[2])
        BY <1>4
      <3>2. PICK n, i : ValidAfter(memory.digest, after, n, i) /\ p = <<memory.digest[n], i>>
        BY <1>3
      <3> QED BY <3>1, <3>2
    <2>2. ASSUME NEW n, NEW i, ValidAfter(memory.digest, after, n, i)
          PROVE  EventOf(memory.digest[n], i) \in e
      <3>1. PICK p : p = <<memory.digest[n], i>>
        OBVIOUS
      <3>2. p \in Feed!Selected(after) /\ p[1] = memory.digest[n] /\ p[2] = i
        BY <1>3, <2>2, <3>1
      <3> QED BY <1>4, <3>2
    <2> QED BY <2>1, <2>2
  <1>6. \A x : x \in {[at |-> c.at, writes |-> c.tx.writes] : c \in {d \in Feed!Committed : d.at.block > after}}
            <=> \E n, i : ValidAfter(memory.digest, after, n, i) /\ x = EventOf(memory.digest[n], i)
    BY <1>1, CommittedEvents
  <1> QED BY <1>5, <1>6

\* Every answer of a running projection is the one its journal gives.
LEMMA AnswersHold ==
    ASSUME FeedInv
    PROVE  AnswersTrue
  BY ReadsTrue, ReceiptsTrue, CreationsTrue, EventsTrue DEF AnswersTrue, Feed!AnswersTrue

------------------------------------------------------------------------------
(* Nothing refuses without damage. *)

\* File and tables are the verified journal.
Undamaged ==
    /\ DOMAIN raw = 1..Len(memory.digest)
    /\ \A n \in 1..Len(memory.digest) : raw[n] = [block |-> memory.digest[n], intact |-> TRUE]
    /\ derived = TablesAt(memory.digest, Len(memory.digest))
    /\ memory.anchors = AnchorsAt(memory.digest, Len(memory.digest))
    /\ memory.projector = Feed!ProjectorAt(memory.digest, Len(memory.digest))
    /\ Feed!CursorIntact /\ Feed!ReplayTrusted /\ Feed!Blocks(raw) = memory.digest

\* Nobody touched the file, and no block is in between.
LEMMA IsUndamaged ==
    ASSUME FeedInv, Feed!Ready, hurt = {}
    PROVE  Undamaged
  <1>1. /\ memory # None /\ staged = None /\ FileSound /\ raw \in Files
        /\ Feed!Blocks(raw) = memory.digest /\ derived = Feed!Derived(memory.digest)
    BY DEF FeedInv, FileSound, Unpublished, Feed!Ready
  <1>2. /\ memory.digest \in Seq(Offered) /\ Chained(memory.digest) /\ MemorySound(memory)
        /\ memory.projector = Feed!ProjectorAt(memory.digest, Len(memory.digest))
        /\ memory.anchors = Feed!Anchors(memory.digest)
    BY <1>1, TipIs DEF MemorySound
  <1>3. /\ Len(raw) = Len(memory.digest) /\ DOMAIN raw = 1..Len(memory.digest)
        /\ \A n \in 1..Len(memory.digest) : raw[n].block = memory.digest[n] /\ raw[n].intact
        /\ Feed!Replays(raw)
    BY <1>1, ReplaysIs DEF FileSound
  <1>4. \A n \in 1..Len(memory.digest) : raw[n] = [block |-> memory.digest[n], intact |-> TRUE]
    <2>1. \A n \in 1..Len(memory.digest) : raw[n] \in RawBlocks
      BY <1>1, <1>3 DEF Files
    <2> QED BY <1>3, <2>1 DEF RawBlocks
  <1>5. Feed!ReplayTrusted
    BY <1>1, <1>2, <1>3 DEF Feed!ReplayTrusted, Feed!SameJournal
  <1>6. derived = TablesAt(memory.digest, Len(memory.digest))
        /\ memory.anchors = AnchorsAt(memory.digest, Len(memory.digest))
    BY <1>1, <1>2, WholeIs
  <1>7. Feed!CursorIntact
    <2>1. Len(memory.digest) \in 0..Len(memory.digest)
      BY <1>2
    <2> QED BY <1>2, <1>6, <2>1, TablesHold DEF Feed!CursorIntact
  <1> QED BY <1>1, <1>2, <1>3, <1>4, <1>5, <1>6, <1>7 DEF Undamaged

\* The tables hold what every transaction of the journal left.
LEMMA RowsHold ==
    ASSUME FeedInv, Feed!Ready, hurt = {}
    PROVE  /\ \A x : x \in derived.history <=> \E m \in 1..Len(memory.digest) : x \in HistoryRows(memory.digest[m])
           /\ \A x : x \in derived.txs <=> \E m \in 1..Len(memory.digest) : x \in TxRows(memory.digest[m])
           /\ derived.state = memory.projector.state
           /\ \A k \in Keys : CreationIs(memory.digest, k, Len(memory.digest),
                                         memory.anchors[k], derived.creation[k])
  <1>1. Undamaged /\ memory.digest \in Seq(Offered)
    BY IsUndamaged, TipIs DEF Feed!Ready
  <1>2. Len(memory.digest) \in 0..Len(memory.digest)
    BY <1>1
  <1> QED BY <1>1, <1>2, TablesHold, CreationsHold DEF Undamaged

\* The bytes of a block and the rows of its transactions are there.
LEMMA BlocksHold ==
    ASSUME FeedInv, Feed!Ready, hurt = {}, NEW n \in 1..Len(memory.digest), NEW b, b = memory.digest[n]
    PROVE  /\ b \in Offered /\ b.number = n - 1 /\ Feed!Stored(b)
           /\ \A i \in DOMAIN b.txs : Feed!StoredTx(b, i)
  <1>1. Undamaged /\ memory.digest \in Seq(Offered) /\ Chained(memory.digest)
    BY IsUndamaged, TipIs DEF Feed!Ready
  <1>2. \A m \in 1..Len(memory.digest) : memory.digest[m].number = m - 1
    BY <1>1, Numbered
  <1>3. b \in Offered /\ b.number = n - 1
    BY <1>1, <1>2
  <1>4. Feed!Stored(b)
    BY <1>1, <1>3 DEF Undamaged, Feed!Stored
  <1>5. ASSUME NEW i \in DOMAIN b.txs
        PROVE  Feed!StoredTx(b, i)
    <2>1. PICK row : row = [block |-> b.number, index |-> i, tx |-> b.txs[i]]
      OBVIOUS
    <2>2. row \in derived.txs /\ row.block = b.number /\ row.index = i /\ row.tx = b.txs[i]
      BY <2>1, RowsHold DEF TxRows
    <2>3. ASSUME NEW r \in derived.txs, r.block = b.number, r.index = i
          PROVE  r.tx = b.txs[i]
      <3>1. PICK m \in 1..Len(memory.digest) : r \in TxRows(memory.digest[m])
        BY RowsHold
      <3>2. r.block = m - 1 /\ r.tx = memory.digest[m].txs[r.index]
        BY <1>2, <3>1 DEF TxRows
      <3>3. m = n
        BY <1>3, <2>3, <3>2
      <3> QED BY <2>3, <3>2, <3>3
    <2> QED BY <2>2, <2>3 DEF Feed!StoredTx
  <1> QED BY <1>3, <1>4, <1>5

\* The transaction a point names.
IdOf(b, i, at) == at.id = IF i = 0 THEN "" ELSE b.txs[i].id

\* What a point of block b says of it.
PointOf(b, n, i, at) ==
    /\ at \in Feed!Checkpoints /\ at # Feed!Now
    /\ at.block = n - 1 /\ at.index = i /\ at.hash = Feed!Header(b)
    /\ IdOf(b, i, at)

\* A point of the journal, and where it is.
LEMMA PointIs ==
    ASSUME FeedInv, Feed!Ready, NEW n \in 1..Len(memory.digest), NEW b, b = memory.digest[n],
           NEW i \in Feed!Points(b), NEW at, at = Feed!At(b, i)
    PROVE  PointOf(b, n, i, at) /\ b \in Offered /\ i \in 0..Len(b.txs)
  <1>1. memory.digest \in Seq(Offered) /\ Chained(memory.digest)
    BY TipIs DEF Feed!Ready
  <1>2. b \in Offered
    BY <1>1
  <1>3. b.number = n - 1 /\ Len(b.txs) \in Nat /\ DOMAIN b.txs = 1..Len(b.txs)
    BY <1>1, <1>2, Numbered, BlockShape
  <1>4. i \in 0..Len(b.txs)
    BY <1>2, <1>3 DEF Feed!Points
  <1>5. at \in Feed!Checkpoints
    BY <1>2, <1>4, PointType
  <1>6. at.block = n - 1 /\ at.index = i /\ at.hash = Feed!Header(b) /\ IdOf(b, i, at)
    BY <1>2, <1>3 DEF Feed!At, IdOf
  <1> QED BY <1>2, <1>4, <1>5, <1>6, FeedAssumption DEF Feed!Now, PointOf

\* The block of a point names it.
LEMMA NamesHold ==
    ASSUME FeedInv, Feed!Ready, hurt = {}, NEW n \in 1..Len(memory.digest), NEW b, b = memory.digest[n],
           NEW i \in Feed!Points(b), NEW at, at = Feed!At(b, i)
    PROVE  Feed!Names(at, b)
  <1>1. PointOf(b, n, i, at)
    BY PointIs
  <1>2. \A j \in DOMAIN b.txs : Feed!StoredTx(b, j)
    BY BlocksHold
  <1>3. Len(b.txs) \in Nat /\ DOMAIN b.txs = 1..Len(b.txs)
    BY BlocksHold, BlockShape
  <1>4. IF b.txs = <<>> THEN i = 0 ELSE i \in DOMAIN b.txs /\ i # 0
    BY <1>3 DEF Feed!Points
  <1> QED BY <1>1, <1>2, <1>4 DEF Feed!Names, PointOf, IdOf

\* A block nobody cached is replayed.
LEMMA ResultHas ==
    ASSUME FeedInv, Feed!Ready, hurt = {}, NEW n \in 1..Len(memory.digest)
    PROVE  memory.digest[n] \in Feed!BlockResult(n - 1)
  <1>1. Undamaged /\ MemorySound(memory) /\ memory.digest \in Seq(Offered)
    BY IsUndamaged, TipIs DEF Feed!Ready
  <1>2. n - 1 \in Nat /\ (n - 1) + 1 = n
    BY <1>1
  <1>3. ASSUME NEW b \in Feed!BlockResult(n - 1)
        PROVE  b = memory.digest[n]
    BY <1>2, <1>3, ResultIs DEF Feed!Ready
  <1>4. Feed!BlockResult(n - 1) # {}
    <2>1. CASE {b \in memory.results : b.number = n - 1} = {}
      <3>1. raw[n].block \in {raw[m].block : m \in {(n - 1) + 1} \intersect DOMAIN raw}
        BY <1>1, <1>2 DEF Undamaged
      <3>2. Feed!BlockResult(n - 1) = {raw[m].block : m \in {(n - 1) + 1} \intersect DOMAIN raw}
        BY <1>1, <2>1 DEF Feed!BlockResult, Undamaged
      <3> QED BY <3>1, <3>2
    <2>2. ASSUME NEW b \in memory.results, b.number = n - 1
          PROVE  Feed!BlockResult(n - 1) # {}
      <3>1. PICK m \in 1..Len(memory.digest) : b = memory.digest[m]
        BY <1>1 DEF MemorySound
      <3>2. Feed!Stored(b)
        BY <3>1, BlocksHold
      <3> QED BY <2>2, <3>2 DEF Feed!BlockResult
    <2> QED BY <2>1, <2>2
  <1> QED BY <1>3, <1>4

\* A point of the journal can be replayed.
LEMMA ReplayHas ==
    ASSUME FeedInv, Feed!Ready, hurt = {}, NEW n \in 1..Len(memory.digest), NEW b, b = memory.digest[n],
           NEW i \in Feed!Points(b), NEW at, at = Feed!At(b, i)
    PROVE  Feed!Replayed(at) # {}
  <1>1. PointOf(b, n, i, at) /\ b \in Offered /\ Feed!Names(at, b)
    BY PointIs, NamesHold
  <1>2. Undamaged /\ Chained(memory.digest) /\ memory.digest \in Seq(Offered) /\ MemorySound(memory)
    BY IsUndamaged, TipIs DEF Feed!Ready
  <1>3. /\ memory.projector.checkpoint # None /\ Feed!CursorIntact
        /\ at.block <= memory.projector.checkpoint.number
    <2>1. PICK N : N = Len(memory.digest)
      OBVIOUS
    <2>2. PICK c \in Offered : c = memory.digest[N]
      BY <1>2, <2>1
    <2>3. memory.projector.checkpoint = Feed!Header(c) /\ c.number = N - 1 /\ N \in Nat
      <3>1. N \in Nat /\ N \in 1..Len(memory.digest)
        BY <1>2, <2>1
      <3>2. memory.projector = Feed!ProjectorAt(memory.digest, N)
        BY <1>2, <2>1 DEF Undamaged
      <3> QED BY <1>2, <2>2, <3>1, <3>2, Numbered
    <2>4. Feed!Header(c).number = N - 1
      BY <2>3 DEF Feed!Header
    <2>5. Feed!Header(c) # None
      BY <2>2, FeedAssumption
    <2>6. at.block <= N - 1
      BY <1>1, <2>1, <2>3 DEF PointOf
    <2> QED BY <1>2, <2>3, <2>4, <2>5, <2>6 DEF Undamaged
  <1>4. CASE Feed!SnapshotsOf(at) # {}
    <2>1. PICK r \in Feed!SnapshotsOf(at) : TRUE
      BY <1>4
    <2>2. r \in memory.snapshots /\ r.at = at
      BY <2>1 DEF Feed!SnapshotsOf
    <2>3. PICK m \in 1..Len(memory.digest) : r.block = memory.digest[m] /\ r.at.block = m - 1
      BY <1>2, <2>2 DEF MemorySound, SnapshotOf
    <2>4. m = n
      BY <1>1, <2>2, <2>3 DEF PointOf
    <2>5. Feed!Stored(b)
      BY BlocksHold
    <2> QED BY <1>1, <1>3, <1>4, <2>1, <2>3, <2>4, <2>5 DEF Feed!Replayed
  <1>5. CASE Feed!SnapshotsOf(at) = {}
    <2>1. b \in {raw[m].block : m \in DOMAIN raw}
      <3>1. n \in DOMAIN raw /\ raw[n] = [block |-> b, intact |-> TRUE]
        BY <1>2 DEF Undamaged
      <3>2. raw[n].block = b
        BY <3>1
      <3> QED BY <3>1, <3>2
    <2>2. b.number = at.block /\ Feed!Header(b) = at.hash
      BY <1>1, BlocksHold DEF PointOf
    <2>3. Feed!Replay(at) # {}
      BY <1>1, <2>1, <2>2 DEF Feed!Replay
    <2> QED BY <1>2, <1>3, <1>5, <2>3 DEF Feed!Replayed, Undamaged
  <1> QED BY <1>4, <1>5

\* Something is expected at every point of the journal.
LEMMA ExpectedHas ==
    ASSUME FeedInv, Feed!Ready, hurt = {}, NEW n \in 1..Len(memory.digest), NEW b, b = memory.digest[n],
           NEW i \in Feed!Points(b), NEW at, at = Feed!At(b, i)
    PROVE  Feed!Expected(at) # {}
  <1>1. at # Feed!Now /\ Undamaged
    BY PointIs, IsUndamaged DEF PointOf
  <1>2. CASE Feed!Current(at)
    <2>1. PICK l : l = Feed!Last(memory.digest)
      OBVIOUS
    <2>2. /\ Len(memory.digest) \in 1..Len(memory.digest)
          /\ l = memory.digest[Len(memory.digest)]
      BY <1>2, <2>1, TipIs DEF Feed!Current, Feed!Ready
    <2>3. Feed!Stored(l) /\ l \in Offered /\ \A j \in DOMAIN l.txs : Feed!StoredTx(l, j)
      BY <2>2, BlocksHold
    <2>4. l.txs # <<>> => Len(l.txs) \in DOMAIN l.txs
      <3>1. l.txs \in Seq(Feed!Tx)
        BY <2>3, BlockShape
      <3> QED BY <3>1
    <2>5. Feed!CurrentHolds(at)
      BY <1>1, <2>1, <2>3, <2>4 DEF Feed!CurrentHolds, Undamaged
    <2> QED BY <1>1, <1>2, <2>5 DEF Feed!Expected
  <1>3. CASE ~Feed!Current(at)
    <2>1. Feed!Replayed(at) # {}
      BY ReplayHas
    <2> QED BY <1>1, <1>3, <2>1 DEF Feed!Expected
  <1> QED BY <1>2, <1>3

\* A state is all that is expected at a point.
Expects(at, s) == Feed!Expected(at) = {s} /\ s \in States

\* The one expected is the state the journal says.
LEMMA ExpectedIs ==
    ASSUME FeedInv, Feed!Ready, hurt = {}, NEW n \in 1..Len(memory.digest), NEW b, b = memory.digest[n],
           NEW i \in Feed!Points(b), NEW at, at = Feed!At(b, i),
           NEW s, s = Feed!Staged(Feed!ProjectorAt(memory.digest, n - 1).state, b)[i]
    PROVE  Expects(at, s)
  <1>1. PointOf(b, n, i, at)
    BY PointIs
  <1>2. ASSUME NEW t \in Feed!Expected(at)
        PROVE  t = s /\ t \in States
    <2>1. [at |-> at, state |-> t] \in Feed!Verified /\ t \in States
      BY <1>1, <1>2, ExpectedVerified DEF PointOf, Feed!Ready
    <2>2. PICK v : v = [at |-> at, state |-> t]
      OBVIOUS
    <2>3. v.at = at /\ v.state = t /\ v \in Feed!Verified
      BY <2>1, <2>2
    <2>4. PICK m \in 1..Len(memory.digest) : \E j \in Feed!Points(memory.digest[m]) :
              v = PointAt(memory.digest, m, j)
      BY <2>3, VerifiedIs DEF Feed!Ready
    <2>5. PICK j \in Feed!Points(memory.digest[m]) : v = PointAt(memory.digest, m, j)
      BY <2>4
    <2>6. /\ v.at = Feed!At(memory.digest[m], j)
          /\ v.state = Feed!Staged(Feed!ProjectorAt(memory.digest, m - 1).state, memory.digest[m])[j]
      BY <2>5 DEF PointAt
    <2>7. PointOf(memory.digest[m], m, j, at)
      BY <2>3, <2>6, PointIs
    <2>8. m = n /\ j = i
      BY <1>1, <2>7 DEF PointOf
    <2> QED BY <2>1, <2>3, <2>6, <2>8
  <1>3. Feed!Expected(at) # {}
    BY ExpectedHas
  <1> QED BY <1>2, <1>3 DEF Expects

\* The tables say of a key what its journal says.
LEMMA ActualIs ==
    ASSUME FeedInv, Feed!Ready, hurt = {}, NEW n \in 1..Len(memory.digest), NEW b, b = memory.digest[n],
           NEW i \in Feed!Points(b), NEW at, at = Feed!At(b, i), NEW k \in Keys,
           NEW v, LastWrite(memory.digest, k, n, i, v)
    PROVE  Feed!Actual(k, at) = v
  <1>1. PointOf(b, n, i, at)
    BY PointIs
  <1>2. PICK bs \in Seq(Offered) : bs = memory.digest /\ Chained(bs) /\ n \in 1..Len(bs)
    BY TipIs DEF Feed!Ready
  <1>3. PICK rows : rows = {r \in derived.history :
                r.key = k /\ (r.block < at.block \/ (r.block = at.block /\ r.index <= at.index))}
    OBVIOUS
  <1>4. Feed!Actual(k, at) =
          IF rows = {} THEN None
          ELSE (CHOOSE r \in rows : \A q \in rows :
                  r.block > q.block \/ (r.block = q.block /\ r.index >= q.index)).value
    BY <1>1, <1>3 DEF Feed!Actual, PointOf
  <1>5. \A m \in 1..Len(bs) : bs[m].number = m - 1 /\ \A j \in Feed!Writers(bs[m], k) : j \in Nat
    BY <1>2, Numbered, BlockShape
  <1>6. i \in Nat /\ n \in Nat
    <2>1. i \in 0..Len(b.txs) /\ b \in Offered
      BY PointIs
    <2> QED BY <1>2, <2>1, BlockShape
  <1>7. ASSUME NEW r \in rows
        PROVE  \E m \in 1..Len(bs) : \E j \in Feed!Writers(bs[m], k) :
                  r.block = m - 1 /\ r.index = j /\ r.value = bs[m].txs[j].writes[k] /\ NoLater(m, j, n, i)
    <2>1. r \in derived.history /\ r.key = k /\ (r.block < n - 1 \/ (r.block = n - 1 /\ r.index <= i))
      BY <1>1, <1>3 DEF PointOf
    <2>2. PICK m \in 1..Len(bs) : r \in HistoryRows(bs[m])
      BY <1>2, <2>1, RowsHold
    <2>3. PICK l \in Keys : r \in {[key |-> l, block |-> bs[m].number, index |-> j,
                                    value |-> bs[m].txs[j].writes[l]] : j \in Feed!Writers(bs[m], l)}
      BY <2>2 DEF HistoryRows
    <2>4. PICK j \in Feed!Writers(bs[m], l) :
              r = [key |-> l, block |-> bs[m].number, index |-> j, value |-> bs[m].txs[j].writes[l]]
      BY <2>3
    <2>5. l = k /\ r.block = m - 1 /\ r.index = j /\ r.value = bs[m].txs[j].writes[k]
      BY <1>5, <2>1, <2>4
    <2>6. j \in Feed!Writers(bs[m], k) /\ j \in Nat
      BY <1>5, <2>5
    <2>7. NoLater(m, j, n, i)
      BY <1>6, <2>1, <2>5, <2>6 DEF NoLater
    <2> QED BY <2>5, <2>6, <2>7
  <1>8. ASSUME NEW m \in 1..Len(bs), NEW j \in Feed!Writers(bs[m], k), NoLater(m, j, n, i)
        PROVE  \E r \in rows : r.block = m - 1 /\ r.index = j
    <2>1. PICK r : r = [key |-> k, block |-> bs[m].number, index |-> j, value |-> bs[m].txs[j].writes[k]]
      OBVIOUS
    <2>2. r \in HistoryRows(bs[m])
      BY <2>1 DEF HistoryRows
    <2>3. r \in derived.history
      BY <1>2, <2>2, RowsHold
    <2>4. r.key = k /\ r.block = m - 1 /\ r.index = j
      BY <1>5, <2>1
    <2>5. r.block < at.block \/ (r.block = at.block /\ r.index <= at.index)
      BY <1>1, <1>5, <1>6, <1>8, <2>4 DEF PointOf, NoLater
    <2> QED BY <1>3, <2>3, <2>4, <2>5
  <1>9. CASE v = None /\ \A m \in 1..Len(bs) : \A j \in Feed!Writers(bs[m], k) : ~NoLater(m, j, n, i)
    <2>1. rows = {}
      BY <1>7, <1>9
    <2> QED BY <1>4, <1>9, <2>1
  <1>10. ASSUME NEW m \in 1..Len(bs), NEW j \in Feed!Writers(bs[m], k),
                NoLater(m, j, n, i), v = bs[m].txs[j].writes[k],
                \A l \in 1..Len(bs) : \A h \in Feed!Writers(bs[l], k) :
                   NoLater(l, h, n, i) => NoLater(l, h, m, j)
         PROVE  Feed!Actual(k, at) = v
    <2>1. PICK x \in rows : x.block = m - 1 /\ x.index = j
      BY <1>8, <1>10
    <2>2. \A q \in rows : x.block > q.block \/ (x.block = q.block /\ x.index >= q.index)
      <3>1. ASSUME NEW q \in rows
            PROVE  x.block > q.block \/ (x.block = q.block /\ x.index >= q.index)
        <4>1. PICK l \in 1..Len(bs) : \E h \in Feed!Writers(bs[l], k) :
                  q.block = l - 1 /\ q.index = h /\ NoLater(l, h, n, i)
          BY <1>7
        <4>2. PICK h \in Feed!Writers(bs[l], k) : q.block = l - 1 /\ q.index = h /\ NoLater(l, h, n, i)
          BY <4>1
        <4>3. NoLater(l, h, m, j)
          BY <1>10, <4>2
        <4> QED BY <1>5, <2>1, <4>2, <4>3 DEF NoLater
      <3> QED BY <3>1
    <2>3. PICK c : c = CHOOSE r \in rows : \A q \in rows :
                          r.block > q.block \/ (r.block = q.block /\ r.index >= q.index)
      OBVIOUS
    <2>4. c \in rows /\ \A q \in rows : c.block > q.block \/ (c.block = q.block /\ c.index >= q.index)
      BY <2>1, <2>2, <2>3
    <2>5. PICK l \in 1..Len(bs) : \E h \in Feed!Writers(bs[l], k) :
              c.block = l - 1 /\ c.index = h /\ c.value = bs[l].txs[h].writes[k] /\ NoLater(l, h, n, i)
      BY <1>7, <2>4
    <2>6. PICK h \in Feed!Writers(bs[l], k) :
              c.block = l - 1 /\ c.index = h /\ c.value = bs[l].txs[h].writes[k] /\ NoLater(l, h, n, i)
      BY <2>5
    <2>7. NoLater(l, h, m, j)
      BY <1>10, <2>6
    <2>8. c.block > x.block \/ (c.block = x.block /\ c.index >= x.index)
      BY <2>1, <2>4
    <2>9. l = m /\ h = j
      <3>1. l \in Nat /\ m \in Nat /\ h \in Nat /\ j \in Nat
        BY <1>2, <1>5
      <3>2. l < m \/ (l = m /\ h <= j)
        BY <2>7 DEF NoLater
      <3>3. l - 1 > m - 1 \/ (l - 1 = m - 1 /\ h >= j)
        BY <2>1, <2>6, <2>8
      <3> QED BY <3>1, <3>2, <3>3
    <2> QED BY <1>4, <1>10, <2>1, <2>3, <2>6, <2>9
  <1> QED BY <1>2, <1>9, <1>10 DEF LastWrite

\* Every point is answered with the state the journal says.
LEMMA ReadsHold ==
    ASSUME FeedInv, Feed!Ready, hurt = {}
    PROVE  /\ \A v \in Feed!Verified : Feed!Reads(Keys, v.at) = {v.state}
           /\ Feed!Reads(Keys, Feed!Now) = {memory.projector.state}
  <1>1. memory # None /\ memory.digest \in Seq(Offered) /\ MemorySound(memory) /\ Undamaged
    BY TipIs, IsUndamaged DEF Feed!Ready
  <1>2. ASSUME NEW v \in Feed!Verified
        PROVE  Feed!Reads(Keys, v.at) = {v.state}
    <2>1. PICK n \in 1..Len(memory.digest) : \E i \in Feed!Points(memory.digest[n]) :
              v = PointAt(memory.digest, n, i)
      BY <1>1, VerifiedIs
    <2>2. PICK b : b = memory.digest[n]
      OBVIOUS
    <2>3. PICK i \in Feed!Points(b) : v = PointAt(memory.digest, n, i)
      BY <2>1, <2>2
    <2>4. v.at = Feed!At(b, i) /\ v.state = Feed!Staged(Feed!ProjectorAt(memory.digest, n - 1).state, b)[i]
      BY <2>2, <2>3 DEF PointAt
    <2>5. Feed!Expected(v.at) = {v.state} /\ v.state \in States
      <3>1. PICK at, s : at = v.at /\ s = v.state
        OBVIOUS
      <3>2. at = Feed!At(b, i) /\ s = Feed!Staged(Feed!ProjectorAt(memory.digest, n - 1).state, b)[i]
        BY <2>4, <3>1
      <3>3. Expects(at, s)
        BY <2>2, <3>2, ExpectedIs
      <3> QED BY <3>1, <3>3 DEF Expects
    <2>6. \A k \in Keys : v.state[k] = Feed!Actual(k, v.at)
      <3>1. i \in 0..Len(b.txs)
        BY <2>2, PointIs
      <3>2. ASSUME NEW k \in Keys
            PROVE  v.state[k] = Feed!Actual(k, v.at)
        <4>1. LastWrite(memory.digest, k, n, i, v.state[k])
          BY <1>1, <2>2, <2>4, <3>1, StatesAre
        <4> QED BY <2>2, <2>4, <4>1, ActualIs
      <3> QED BY <3>2
    <2>7. [k \in Keys |-> v.state[k]] = v.state
      BY <2>5 DEF States
    <2> QED BY <2>5, <2>6, <2>7 DEF Feed!Reads
  <1>3. Feed!Reads(Keys, Feed!Now) = {memory.projector.state}
    <2>1. PICK s \in States : s = memory.projector.state
      BY <1>1 DEF MemorySound, Memories, States
    <2>2. Feed!Expected(Feed!Now) = {s}
      BY <1>1, <2>1 DEF Feed!Expected, Undamaged
    <2>3. \A k \in Keys : Feed!Actual(k, Feed!Now) = s[k]
      BY <2>1, RowsHold DEF Feed!Actual
    <2>4. [k \in Keys |-> s[k]] = s
      BY DEF States
    <2> QED BY <2>1, <2>2, <2>3, <2>4 DEF Feed!Reads
  <1> QED BY <1>2, <1>3

\* Rows of the transaction table have a first one.
LEMMA FirstRow ==
    ASSUME NEW S, S # {}, \A r \in S : r.block \in Nat /\ r.index \in Nat
    PROVE  \E r \in S : \A q \in S : r.block < q.block \/ (r.block = q.block /\ r.index <= q.index)
  <1>1. PICK B : B = {r.block : r \in S}
    OBVIOUS
  <1>2. PICK m \in B : \A x \in B : m <= x
    <2>1. B \subseteq Nat /\ B # {}
      BY <1>1
    <2> QED BY <2>1, Least
  <1>3. PICK I : I = {r.index : r \in {q \in S : q.block = m}}
    OBVIOUS
  <1>4. PICK i \in I : \A x \in I : i <= x
    <2>1. I \subseteq Nat /\ I # {}
      BY <1>1, <1>2, <1>3
    <2> QED BY <2>1, Least
  <1>5. PICK r \in S : r.block = m /\ r.index = i
    BY <1>3, <1>4
  <1>6. ASSUME NEW q \in S
        PROVE  r.block < q.block \/ (r.block = q.block /\ r.index <= q.index)
    <2>1. m <= q.block /\ m \in Nat /\ q.block \in Nat
      BY <1>1, <1>2
    <2>2. CASE q.block = m
      BY <1>3, <1>4, <1>5, <2>2
    <2>3. CASE q.block # m
      BY <1>5, <2>1, <2>3
    <2> QED BY <2>2, <2>3
  <1> QED BY <1>6

\* Every committed transaction has a receipt.
LEMMA ReceiptsHold ==
    ASSUME FeedInv, Feed!Ready, hurt = {}, NEW c \in Feed!Committed
    PROVE  Feed!Receipt(c.tx.id) # {}
  <1>1. memory # None /\ memory.digest \in Seq(Offered) /\ Undamaged
    BY TipIs, IsUndamaged DEF Feed!Ready
  <1>2. PICK id : id = c.tx.id
    OBVIOUS
  <1>3. PICK n \in 1..Len(memory.digest) : \E i \in DOMAIN memory.digest[n].txs :
            /\ memory.digest[n].txs[i].valid
            /\ c = [at |-> Feed!At(memory.digest[n], i), tx |-> memory.digest[n].txs[i]]
    BY <1>1, CommittedIs
  <1>4. PICK b : b = memory.digest[n]
    OBVIOUS
  <1>5. PICK i \in DOMAIN b.txs : b.txs[i].valid /\ c = [at |-> Feed!At(b, i), tx |-> b.txs[i]]
    BY <1>3, <1>4
  <1>6. b.txs[i].id = id
    BY <1>2, <1>5
  <1>7. PICK S : S = {r \in derived.txs : r.tx.id = id /\ r.tx.valid}
    OBVIOUS
  <1>8. S # {}
    <2>1. PICK r : r = [block |-> b.number, index |-> i, tx |-> b.txs[i]]
      OBVIOUS
    <2>2. r \in TxRows(memory.digest[n]) /\ r.tx = b.txs[i]
      BY <1>4, <2>1 DEF TxRows
    <2>3. r \in derived.txs
      BY <2>2, RowsHold
    <2> QED BY <1>5, <1>6, <1>7, <2>2, <2>3
  <1>9. ASSUME NEW r \in derived.txs
        PROVE  \E m \in 1..Len(memory.digest) : /\ r.block = m - 1 /\ r.index \in DOMAIN memory.digest[m].txs
                                                /\ r.tx = memory.digest[m].txs[r.index]
    <2>1. PICK m \in 1..Len(memory.digest) : r \in TxRows(memory.digest[m])
      BY RowsHold
    <2>2. memory.digest[m].number = m - 1
      BY BlocksHold
    <2> QED BY <2>1, <2>2 DEF TxRows
  <1>10. \A r \in S : r.block \in Nat /\ r.index \in Nat
    <2>1. ASSUME NEW r \in S
          PROVE  r.block \in Nat /\ r.index \in Nat
      <3>1. PICK m \in 1..Len(memory.digest) : r.block = m - 1 /\ r.index \in DOMAIN memory.digest[m].txs
        BY <1>7, <1>9
      <3>2. memory.digest[m] \in Offered
        BY <1>1
      <3> QED BY <1>1, <3>1, <3>2, BlockShape
    <2> QED BY <2>1
  <1>11. PICK r \in S : \A q \in S : r.block < q.block \/ (r.block = q.block /\ r.index <= q.index)
    BY <1>8, <1>10, FirstRow
  <1>12. r \in Feed!Located(id)
    BY <1>7, <1>11 DEF Feed!Located
  <1>13. PICK m \in 1..Len(memory.digest) : /\ r.block = m - 1 /\ r.index \in DOMAIN memory.digest[m].txs
                                            /\ r.tx = memory.digest[m].txs[r.index]
    BY <1>7, <1>9
  <1>14. PICK d : d = memory.digest[m]
    OBVIOUS
  <1>15. /\ r.index \in DOMAIN d.txs /\ d.txs[r.index].valid /\ d.txs[r.index].id = id
         /\ Feed!StoredTx(d, r.index) /\ d \in Feed!BlockResult(r.block)
    <2>1. d \in Feed!BlockResult(m - 1) /\ Feed!StoredTx(d, r.index)
      BY <1>13, <1>14, ResultHas, BlocksHold
    <2> QED BY <1>7, <1>13, <1>14, <2>1
  <1>16. PICK q : q = <<r, d>>
    OBVIOUS
  <1>17. q[1] = r /\ q[2] = d /\ q \in {r} \X Feed!BlockResult(r.block)
    BY <1>15, <1>16
  <1>18. q \in UNION {{x} \X Feed!BlockResult(x.block) : x \in Feed!Located(id)}
    BY <1>12, <1>17
  <1>19. Feed!At(q[2], q[1].index) \in Feed!Receipt(id)
    BY <1>1, <1>15, <1>17, <1>18 DEF Feed!Receipt, Undamaged
  <1> QED BY <1>2, <1>19

\* Every key that holds something has a creation.
LEMMA CreationsHas ==
    ASSUME FeedInv, Feed!Ready, hurt = {}, NEW k \in Keys, memory.projector.state[k] # None
    PROVE  Feed!Creation(k) # {}
  <1>1. PICK bs \in Seq(Offered) : bs = memory.digest
    BY TipIs DEF Feed!Ready
  <1>2. PICK N \in Nat : N = Len(bs)
    OBVIOUS
  <1>3. Undamaged
    BY IsUndamaged
  <1>4. LastWrite(bs, k, N + 1, 0, memory.projector.state[k])
    BY <1>1, <1>2, <1>3, StatesAre DEF Undamaged
  <1>5. PICK m \in 1..N : Feed!Writers(bs[m], k) # {}
    BY <1>2, <1>4 DEF LastWrite
  <1>6. PICK a : a = memory.anchors[k]
    OBVIOUS
  <1>7. CreationIs(bs, k, N, a, derived.creation[k])
    BY <1>1, <1>2, <1>6, RowsHold
  <1>8. /\ a # None /\ FirstWrite(bs, k, N, a)
        /\ derived.creation[k] = [at |-> Feed!At(a.block, a.index), value |-> a.block.txs[a.index].writes[k]]
    BY <1>5, <1>7 DEF CreationIs
  <1>9. PICK l \in 1..N : a.block = bs[l] /\ a.index \in Feed!Writers(bs[l], k)
    BY <1>8 DEF FirstWrite
  <1>10. a.index \in DOMAIN a.block.txs
    BY <1>9 DEF Feed!Writers
  <1>11. Feed!Stored(a.block) /\ Feed!StoredTx(a.block, a.index)
    BY <1>1, <1>2, <1>9, <1>10, BlocksHold
  <1>12. Feed!CursorIntact
    BY <1>3 DEF Undamaged
  <1>13. Feed!At(a.block, a.index) \in Feed!Creation(k)
    BY <1>6, <1>8, <1>11, <1>12 DEF Feed!Creation
  <1> QED BY <1>13

\* The events of the whole journal are handed out.
LEMMA EventsHas ==
    ASSUME FeedInv, Feed!Ready, hurt = {}, NEW after
    PROVE  Feed!Events(after) # {}
  <1>1. Undamaged
    BY IsUndamaged
  <1>2. ASSUME NEW p \in Feed!Selected(after)
        PROVE  Feed!StoredTx(p[1], p[2])
    <2>1. PICK b \in {raw[n].block : n \in DOMAIN raw} : p \in {b} \X DOMAIN b.txs
      BY DEF Feed!Selected
    <2>2. PICK n \in DOMAIN raw : b = raw[n].block
      BY <2>1
    <2>3. n \in 1..Len(memory.digest) /\ raw[n] = [block |-> memory.digest[n], intact |-> TRUE]
      BY <1>1, <2>2 DEF Undamaged
    <2>4. b = memory.digest[n]
      BY <2>2, <2>3
    <2>5. p[1] = b /\ p[2] \in DOMAIN b.txs
      BY <2>1
    <2> QED BY <2>3, <2>4, <2>5, BlocksHold
  <1> QED BY <1>1, <1>2 DEF Feed!Events, Undamaged

\* File, memory and open transaction have their shape.
LEMMA ShapesHold ==
    ASSUME FeedInv
    PROVE  Feed!TypeOK
  <1>1. \A n \in DOMAIN raw : raw[n].block \in Offered /\ raw[n].intact \in BOOLEAN
    <2>1. raw \in Files
      BY DEF FeedInv
    <2>2. \A n \in DOMAIN raw : raw[n] \in RawBlocks
      BY <2>1 DEF Files
    <2> QED BY <2>2 DEF RawBlocks
  <1>2. derived \in Tables
    BY DEF FeedInv
  <1>3. derived.state \in States
    BY <1>2 DEF Tables
  <1>4. \A r \in derived.history : r.key \in Keys /\ r.value \in Values
    <2>1. derived.history \in SUBSET [key : Keys, block : Nat, index : Nat, value : Values]
      BY <1>2 DEF Tables
    <2> QED BY <2>1
  <1>5. \A k \in Keys : derived.creation[k] = None \/ derived.creation[k].at \in Feed!Checkpoints
    <2>1. PICK C : C = [at : Feed!Checkpoints, value : Values]
      OBVIOUS
    <2>2. derived.creation \in [Keys -> C \union {None}]
      BY <1>2, <2>1 DEF Tables
    <2>3. ASSUME NEW k \in Keys, derived.creation[k] # None
          PROVE  derived.creation[k].at \in Feed!Checkpoints
      <3>1. derived.creation[k] \in C
        BY <2>2, <2>3
      <3> QED BY <2>1, <3>1
    <2> QED BY <2>3
  <1>6. ASSUME memory # None
        PROVE  /\ memory.digest \in Seq(Offered)
               /\ memory.projector.state \in States
               /\ Feed!Cardinality(memory.snapshots) <= MaxCached /\ Feed!Cardinality(memory.results) <= MaxCached
    <2>1. MemorySound(memory) /\ memory.digest \in Seq(Offered)
      BY <1>6, TipIs
    <2>2. memory.projector.state \in States
      BY <2>1 DEF MemorySound, Memories, States
    <2>3. \A S : Feed!Cardinality(S) = Cardinality(S)
      BY DEF Feed!Cardinality, Cardinality
    <2> QED BY <2>1, <2>2, <2>3 DEF MemorySound, Bounded
  <1>7. staged # None => memory # None /\ staged.block \in Offered
    BY DEF FeedInv
  <1>8. harms \in 0..MaxHarm
    BY DEF FeedInv
  <1> QED BY <1>1, <1>3, <1>4, <1>5, <1>6, <1>7, <1>8 DEF Feed!TypeOK, States

\* A crash, a failed statement or a cache never locks readers out.
LEMMA NotLockedOut ==
    ASSUME FeedInv
    PROVE  Feed!NeverLockedOut
  <1>1. ASSUME hurt = {}, memory = None
        PROVE  Feed!Replays(raw)
    <2>1. FileSound /\ raw \in Files
      BY <1>1 DEF FeedInv
    <2> QED BY <2>1, ReplaysIs DEF FileSound
  <1>2. ASSUME hurt = {}, Feed!Ready
        PROVE  /\ \A v \in Feed!Verified : Feed!Reads(Keys, v.at) = {v.state}
               /\ Feed!Reads(Keys, Feed!Now) = {memory.projector.state}
               /\ \A c \in Feed!Committed : c.tx.id # "" => Feed!Receipt(c.tx.id) # {}
               /\ \A k \in Keys : memory.projector.state[k] # None => Feed!Creation(k) # {}
               /\ Feed!Events(0) # {}
    BY <1>2, ReadsHold, ReceiptsHold, CreationsHas, EventsHas
  <1> QED BY <1>1, <1>2 DEF Feed!NeverLockedOut

\* What readers saw is in the journal a process serves from.
LEMMA NothingIsLost ==
    ASSUME FeedInv
    PROVE  Feed!NothingSeenIsLost
  <1>1. ASSUME Feed!Ready, "journal" \notin hurt
        PROVE  Feed!IsPrefix(seen, memory.digest)
    BY <1>1 DEF FeedInv, FileSound, Unpublished, Feed!Ready
  <1> QED BY <1>1 DEF Feed!NothingSeenIsLost

\* A running projection never answers what its journal does not say, whatever
\* became of the file (verifyReplayTip, verifyStoredBlock,
\* verifyStoredTransaction, the journal digest).
THEOREM AnswersAreTrue == SpecStores => []AnswersTrue
  <1>1. InitStores => FeedInv
    BY FeedInit DEF InitStores
  <1>2. FeedInv /\ [NextStores]_<<part, vars, feed>> => FeedInv'
    BY FeedStep
  <1>3. FeedInv => AnswersTrue
    BY AnswersHold
  <1> QED BY <1>1, <1>2, <1>3, PTL DEF SpecStores

\* Neither crash nor failed statement nor redelivered block takes back what
\* readers saw, locks them out or leaves a file that will not open (applyBlock,
\* open).
THEOREM RestartIsSound == SpecStores => []RestartSound
  <1>1. InitStores => FeedInv
    BY FeedInit DEF InitStores
  <1>2. FeedInv /\ [NextStores]_<<part, vars, feed>> => FeedInv'
    BY FeedStep
  <1>3. FeedInv => RestartSound
    BY ShapesHold, NotLockedOut, NothingIsLost DEF RestartSound, Feed!RestartSound
  <1> QED BY <1>1, <1>2, <1>3, PTL DEF SpecStores
================================================================================
