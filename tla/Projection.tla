------------------------------ MODULE Projection -------------------------------
(***************************************************************************)
(* The durable projection of the channel's blocks: the block projector     *)
(* (packages/fabric/block-projector.ts) and the SQLite database around it  *)
(* (packages/fabric/sqlite-projection.ts, journal-verification.ts).  Raw   *)
(* blocks are the journal; state, history, creation, transaction and       *)
(* cursor tables are derived from it; the process keeps what it verified   *)
(* in memory and checks every answer it reads from the file against that.  *)
(*                                                                         *)
(* Peers deliver blocks in any order, again, or other blocks than before;  *)
(* SQL fails; the process stops between a commit and its own memory; rows  *)
(* of the file are damaged, or the file is replaced by that of another     *)
(* projection of the channel, while the process runs.                      *)
(*                                                                         *)
(* Digests are taken to be the values they bind.  A block hash binds the   *)
(* number, the previous hash and the transactions, but not which of them   *)
(* are VALID.  Transactions of a block are counted from 1; position 0      *)
(* stands for the index -1 of a block without transactions.                *)
(***************************************************************************)
EXTENDS Integers, Sequences, SequencesExt, FiniteSets

CONSTANTS
    Keys,          \* keys of the world state
    Values,
    Immutable,     \* keys of the IMMUTABLE_KINDS
    Needs,         \* key -> keys that must exist when it is written (validateStateLinks)
    Offered,       \* blocks that peers may deliver
    MaxBlocks,     \* length of the journal of a file put in the place of this one
    MaxDamage,     \* times the file is damaged
    MaxCached,     \* entries of each cache (MAX_HISTORICAL_SNAPSHOT_CACHE, 8)
    None

VARIABLES
    journal,       \* fabric_raw_blocks: sequence of [block, intact]      (durable)
    tables,        \* the derived tables                                  (durable)
    memory,        \* what the running process keeps, None when it is stopped
    staged,        \* the block applyBlock is working on: [block, durable], or None
    seen,          \* the journal readers were last served from
    hurt,          \* what was damaged since the projection was opened
    damages

vars == <<journal, tables, memory, staged, seen, hurt, damages>>

file == <<journal, tables>>
ghosts == <<seen, hurt, damages>>

------------------------------------------------------------------------------
(* Blocks. *)

EmptyState == [k \in Keys |-> None]

\* What fabricBlockHeaderHash and the data hash bind.
Header(b) ==
    [number |-> b.number, prev |-> b.prev,
     data |-> [i \in DOMAIN b.txs |-> [id |-> b.txs[i].id, kind |-> b.txs[i].kind,
                                       writes |-> b.txs[i].writes]]]

Writers(b, k) == {i \in DOMAIN b.txs : b.txs[i].valid /\ k \in DOMAIN b.txs[i].writes}

\* stagedWrites over state: the state after each transaction of b.
Staged(state, b) ==
    LET S[i \in 0..Len(b.txs)] ==
          IF i = 0 THEN state
          ELSE [k \in Keys |-> IF i \in Writers(b, k) THEN b.txs[i].writes[k] ELSE S[i - 1][k]]
    IN  S

StateAfter(state, b) == Staged(state, b)[Len(b.txs)]

\* A projector: its state map and its checkpoint.
NewProjector == [state |-> EmptyState, checkpoint |-> None]

Projected(p, b) == [state |-> StateAfter(p.state, b), checkpoint |-> Header(b)]

Contiguous(p, b) ==
    IF p.checkpoint = None THEN b.number = 0 /\ b.prev = None
    ELSE b.number = p.checkpoint.number + 1 /\ b.prev = p.checkpoint

\* Two INVALID copies of a transaction may share a block, two VALID ones not.
ValidOnce(b) ==
    \A i, j \in DOMAIN b.txs :
        (b.txs[i].valid /\ b.txs[j].valid /\ b.txs[i].id = b.txs[j].id /\ b.txs[i].id # "") => i = j

ConfigInGenesis(b) == b.number = 0 \/ \A i \in DOMAIN b.txs : b.txs[i].kind # "config"

KeepsImmutable(state, b) ==
    \A k \in Immutable : \A i \in Writers(b, k) :
        Staged(state, b)[i - 1][k] \in {None, b.txs[i].writes[k]}

\* Links may point at writes of the same transaction.
Linked(state, b) ==
    \A k \in Keys : \A i \in Writers(b, k) :
        \A n \in Needs[k] : Staged(state, b)[i][n] # None

\* prepareBlock does not throw.
Prepares(p, b) ==
    /\ Contiguous(p, b)
    /\ ValidOnce(b)
    /\ ConfigInGenesis(b)
    /\ KeepsImmutable(p.state, b)
    /\ Linked(p.state, b)

\* A point in the journal that readers may ask for.
At(b, i) == [block |-> b.number, index |-> i, id |-> IF i = 0 THEN "" ELSE b.txs[i].id,
             hash |-> Header(b)]

------------------------------------------------------------------------------
(* The tables. *)

NoTables == [state |-> EmptyState, history |-> {}, creation |-> EmptyState,
             txs |-> {}, cursor |-> None]

\* INSERT OR IGNORE: the first VALID write of a key.
Created(creation, b) ==
    [k \in Keys |-> IF creation[k] # None \/ Writers(b, k) = {} THEN creation[k]
                    ELSE LET i == CHOOSE i \in Writers(b, k) : \A j \in Writers(b, k) : i <= j
                         IN  [at |-> At(b, i), value |-> b.txs[i].writes[k]]]

\* insertTransactions and appendDerived.
WithBlock(t, b) ==
    [state |-> StateAfter(t.state, b),
     history |-> t.history \union
        UNION {{[key |-> k, block |-> b.number, index |-> i, value |-> b.txs[i].writes[k]]
                    : i \in Writers(b, k)} : k \in Keys},
     creation |-> Created(t.creation, b),
     txs |-> t.txs \union {[block |-> b.number, index |-> i, tx |-> b.txs[i]] : i \in DOMAIN b.txs},
     cursor |-> Header(b)]

Blocks(j) == [n \in DOMAIN j |-> j[n].block]

Derived(blocks) ==
    LET T[n \in 0..Len(blocks)] == IF n = 0 THEN NoTables ELSE WithBlock(T[n - 1], blocks[n])
    IN  T[Len(blocks)]

\* verifyFabricJournalBlock for every row: the projector that replays the
\* first n rows accepts row n + 1.
ProjectorAt(blocks, n) ==
    LET P[m \in 0..Len(blocks)] == IF m = 0 THEN NewProjector ELSE Projected(P[m - 1], blocks[m])
    IN  P[n]

Replays(j) ==
    \A n \in DOMAIN j : j[n].intact /\ Prepares(ProjectorAt(Blocks(j), n - 1), j[n].block)

------------------------------------------------------------------------------
(* The memory of the process. *)

\* recordStateCreationAnchors.
Anchored(anchors, b) ==
    [k \in Keys |-> IF anchors[k] # None \/ Writers(b, k) = {} THEN anchors[k]
                    ELSE [block |-> b,
                          index |-> CHOOSE i \in Writers(b, k) : \A j \in Writers(b, k) : i <= j]]

NoAnchors == EmptyState

Anchors(blocks) ==
    LET A[n \in 0..Len(blocks)] == IF n = 0 THEN NoAnchors ELSE Anchored(A[n - 1], blocks[n])
    IN  A[Len(blocks)]

Newest(blocks) == IF blocks = <<>> THEN {} ELSE {Last(blocks)}

\* journalDigest chains the bytes of every block: it stands for the blocks.
MemoryOf(blocks) ==
    [projector |-> ProjectorAt(blocks, Len(blocks)), digest |-> blocks,
     anchors |-> Anchors(blocks),
     snapshots |-> {}, results |-> Newest(blocks)]

\* A cache forgets some entry when it is full (the code: the oldest).
Cached(cache, entry) ==
    {kept \union {entry} : kept \in {S \in SUBSET (cache \ {entry}) :
        Cardinality(S) = IF Cardinality(cache \ {entry}) < MaxCached
                         THEN Cardinality(cache \ {entry}) ELSE MaxCached - 1}}

Ready == memory # None /\ staged = None

------------------------------------------------------------------------------
(* Reads.  Each is a set: empty when the projection throws, else the answer. *)

Now == None

CursorIntact == tables.cursor = memory.projector.checkpoint

\* The row of block b holds the very bytes of b.
Stored(b) ==
    /\ b.number + 1 \in DOMAIN journal
    /\ journal[b.number + 1] = [block |-> b, intact |-> TRUE]

StoredTx(b, i) ==
    {row.tx : row \in {r \in tables.txs : r.block = b.number /\ r.index = i}} = {b.txs[i]}

\* The transaction at is about, in block b and in its row.
Names(at, b) ==
    IF at.index = 0 THEN b.txs = <<>> /\ at.id = ""
    ELSE at.index \in DOMAIN b.txs /\ b.txs[at.index].id = at.id /\ StoredTx(b, at.index)

Current(at) ==
    /\ memory.digest # <<>>
    /\ at = At(Last(memory.digest), Len(Last(memory.digest).txs))

CurrentHolds(at) ==
    LET latest == Last(memory.digest) IN
    CursorIntact /\ Stored(latest) /\ (latest.txs # <<>> => StoredTx(latest, Len(latest.txs)))

\* Fault: the end of the replay is all that counts.
SameTip == TRUE

\* The replayed bytes are those this process verified.
SameJournal == Blocks(journal) = memory.digest

\* A replay from the file, up to the tip this process trusts.
ReplayTrusted ==
    /\ Replays(journal)
    /\ SameJournal
    /\ ProjectorAt(Blocks(journal), Len(journal)) = memory.projector

Replay(at) ==
    {[at |-> at, before |-> ProjectorAt(Blocks(journal), at.block).state, block |-> b] :
        b \in {x \in {journal[n].block : n \in DOMAIN journal} :
                 x.number = at.block /\ Header(x) = at.hash /\ Names(at, x)}}

SnapshotsOf(at) == {r \in memory.snapshots : r.at = at}

\* replayCheckpoint: the state before the block of at, and the block.
Replayed(at) ==
    IF ~(memory.projector.checkpoint # None /\ CursorIntact
            /\ at.block <= memory.projector.checkpoint.number) THEN {}
    ELSE IF SnapshotsOf(at) # {} THEN {r \in SnapshotsOf(at) : Stored(r.block) /\ Names(at, r.block)}
    ELSE IF ReplayTrusted THEN Replay(at) ELSE {}

\* The verified state at a point.
Expected(at) ==
    IF at = Now THEN IF CursorIntact THEN {memory.projector.state} ELSE {}
    ELSE IF Current(at) THEN IF CurrentHolds(at) THEN {memory.projector.state} ELSE {}
    ELSE {Staged(r.before, r.block)[at.index] : r \in Replayed(at)}

\* What the tables say a key holds there.
Actual(k, at) ==
    LET rows == {r \in tables.history :
                    r.key = k /\ (r.block < at.block \/ (r.block = at.block /\ r.index <= at.index))}
    IN  IF at = Now THEN tables.state[k]
        ELSE IF rows = {} THEN None
        ELSE (CHOOSE r \in rows : \A q \in rows :
                r.block > q.block \/ (r.block = q.block /\ r.index >= q.index)).value

\* read, readMany and entries: nothing is served that the tables contradict.
Reads(ks, at) ==
    {[k \in ks |-> s[k]] : s \in {x \in Expected(at) : \A k \in ks : x[k] = Actual(k, at)}}

\* replayBlock: the verified block number n.
BlockResult(n) ==
    LET cached == {b \in memory.results : b.number = n} IN
    IF cached # {} THEN {b \in cached : Stored(b)}
    ELSE IF ReplayTrusted THEN {journal[i].block : i \in {n + 1} \intersect DOMAIN journal} ELSE {}

\* The first row of the transaction table with this id that says VALID.
Located(id) ==
    LET rows == {r \in tables.txs : r.tx.id = id /\ r.tx.valid}
    IN  {r \in rows : \A q \in rows : r.block < q.block \/ (r.block = q.block /\ r.index <= q.index)}

\* checkpointForTransaction: the row is only a hint where to look.
Receipt(id) ==
    IF ~CursorIntact THEN {}
    ELSE {At(p[2], p[1].index) : p \in
            {q \in UNION {{r} \X BlockResult(r.block) : r \in Located(id)} :
                /\ q[1].index \in DOMAIN q[2].txs
                /\ q[2].txs[q[1].index].valid /\ q[2].txs[q[1].index].id = id
                /\ StoredTx(q[2], q[1].index)}}

\* checkpointForStateCreation.
Creation(k) ==
    LET a == memory.anchors[k] IN
    IF ~CursorIntact \/ a = None THEN {}
    ELSE {at \in {At(a.block, a.index)} :
            /\ tables.creation[k] = [at |-> at, value |-> a.block.txs[a.index].writes[k]]
            /\ StoredTx(a.block, a.index)
            /\ Stored(a.block)}

\* events: the whole journal is replayed, the VALID transactions of the blocks
\* after a number are handed out.
Selected(after) ==
    {p \in UNION {{b} \X DOMAIN b.txs : b \in {journal[n].block : n \in DOMAIN journal}} :
        p[1].number > after /\ p[1].txs[p[2]].valid}

Events(after) ==
    IF CursorIntact /\ ReplayTrusted /\ \A p \in Selected(after) : StoredTx(p[1], p[2])
    THEN {{[at |-> At(p[1], p[2]), writes |-> p[1].txs[p[2]].writes] : p \in Selected(after)}}
    ELSE {}

------------------------------------------------------------------------------
(* Actions. *)

Init ==
    /\ journal = <<>> /\ tables = NoTables
    /\ memory = None /\ staged = None
    /\ seen = <<>> /\ hurt = {} /\ damages = 0

Rebuilt == Derived(Blocks(journal))

\* The constructor: replay the journal, rebuild the tables.  A journal that
\* does not replay stops the start.
Open ==
    /\ memory = None
    /\ Replays(journal)
    /\ tables' = Rebuilt
    /\ memory' = MemoryOf(Blocks(journal))
    /\ seen' = IF "journal" \in hurt \/ IsPrefix(seen, Blocks(journal)) THEN Blocks(journal) ELSE seen
    /\ hurt' = {}
    /\ UNCHANGED <<journal, staged, damages>>

\* applyBlock up to BEGIN IMMEDIATE, for a number the journal does not have.
Begin(b) ==
    /\ Ready /\ CursorIntact
    /\ b.number + 1 \notin DOMAIN journal
    /\ Prepares(memory.projector, b)
    /\ staged' = [block |-> b, durable |-> FALSE]
    /\ UNCHANGED <<file, memory, ghosts>>

CommitSql ==
    /\ staged # None /\ ~staged.durable
    /\ journal' = Append(journal, [block |-> staged.block, intact |-> TRUE])
    /\ tables' = WithBlock(tables, staged.block)
    /\ staged' = [staged EXCEPT !.durable = TRUE]
    /\ UNCHANGED <<memory, ghosts>>

\* A statement fails: nothing was changed, in the file or in memory.
Rollback ==
    /\ staged # None /\ ~staged.durable
    /\ staged' = None
    /\ UNCHANGED <<file, memory, ghosts>>

\* Fault: memory goes ahead of the file.
Prepared == TRUE

Durable == staged.durable

\* The prepared deltas are committed to memory.
Publish ==
    /\ staged # None /\ Durable
    /\ LET b == staged.block IN
       \E results \in Cached({r \in memory.results : r.number # b.number}, b) :
          memory' = [memory EXCEPT !.projector = Projected(@, b), !.digest = Append(@, b),
                                   !.anchors = Anchored(@, b), !.results = results]
    /\ staged' = None
    /\ seen' = memory'.digest
    /\ UNCHANGED <<file, hurt, damages>>

\* A block the journal has is delivered again: its result is replayed.  Other
\* bytes under its number are refused.
Redeliver(b) ==
    /\ Ready /\ CursorIntact
    /\ Stored(b)
    /\ \E r \in BlockResult(b.number) :
         \E results \in Cached(memory.results \ {r}, r) :
            memory' = [memory EXCEPT !.results = results]
    /\ UNCHANGED <<file, staged, ghosts>>

\* A read at an earlier point replays the journal and keeps the snapshot.
Replaying(at) ==
    /\ Ready /\ ~Current(at)
    /\ \E r \in Replayed(at) :
         \E snapshots \in Cached(memory.snapshots, r) :
            memory' = [memory EXCEPT !.snapshots = snapshots]
    /\ UNCHANGED <<file, staged, ghosts>>

\* close, or a crash; an open SQL transaction is rolled back.
Stop ==
    /\ memory # None
    /\ memory' = None /\ staged' = None
    /\ UNCHANGED <<file, ghosts>>

Damaged(what) ==
    /\ staged = None
    /\ damages < MaxDamage
    /\ damages' = damages + 1
    /\ hurt' = hurt \union what
    /\ UNCHANGED <<memory, staged, seen>>

\* One row of the file no longer holds what was written.
DamageRow ==
    \/ /\ Damaged({"journal"})
       /\ \E n \in DOMAIN journal : journal' = [journal EXCEPT ![n].intact = FALSE]
       /\ UNCHANGED tables
    \/ /\ Damaged({"tables"})
       /\ UNCHANGED journal
       /\ \/ \E k \in Keys, v \in Values \union {None} : tables' = [tables EXCEPT !.state[k] = v]
          \/ \E k \in Keys : tables' = [tables EXCEPT !.creation[k] = None]
          \/ \E r \in tables.history : tables' = [tables EXCEPT !.history = @ \ {r}]
          \/ \E r \in tables.txs : tables' = [tables EXCEPT !.txs = @ \ {r}]
          \/ \E r \in tables.txs :
                tables' = [tables EXCEPT !.txs = (@ \ {r}) \union {[r EXCEPT !.tx.valid = ~@]}]
          \/ tables' = [tables EXCEPT !.cursor = None]

\* Files of other projections of the channel.
OtherFiles ==
    {j \in UNION {[1..n -> {[block |-> b, intact |-> TRUE] : b \in Offered}] : n \in 1..MaxBlocks} :
        Replays(j)}

Replaced ==
    /\ Damaged({"journal", "tables"})
    /\ \E j \in OtherFiles :
         /\ journal' = j
         /\ tables' = Derived(Blocks(j))

Checkpoints == UNION {{At(b, i) : i \in 0..Len(b.txs)} : b \in Offered}

Next ==
    \/ Open
    \/ \E b \in Offered : Begin(b)
    \/ CommitSql
    \/ Rollback
    \/ Publish
    \/ \E b \in Offered : Redeliver(b)
    \/ \E at \in Checkpoints : Replaying(at)
    \/ Stop
    \/ DamageRow
    \/ Replaced

Spec == Init /\ [][Next]_vars

------------------------------------------------------------------------------
(* Properties. *)

Tx == [id : STRING, kind : {"endorser", "config"}, valid : BOOLEAN,
       writes : UNION {[S -> Values] : S \in SUBSET Keys}]

\* The shape of the file and of the memory.
TypeOK ==
    /\ \A n \in DOMAIN journal : journal[n].block \in Offered /\ journal[n].intact \in BOOLEAN
    /\ tables.state \in [Keys -> Values \union {None}]
    /\ \A r \in tables.history : r.key \in Keys /\ r.value \in Values
    /\ \A k \in Keys : tables.creation[k] = None \/ tables.creation[k].at \in Checkpoints
    /\ memory # None =>
         /\ memory.digest \in Seq(Offered)
         /\ memory.projector.state \in [Keys -> Values \union {None}]
         /\ Cardinality(memory.snapshots) <= MaxCached /\ Cardinality(memory.results) <= MaxCached
    /\ staged # None => memory # None /\ staged.block \in Offered
    /\ damages \in 0..MaxDamage

\* The points of the journal this process verified, and the state there.
Points(b) == IF b.txs = <<>> THEN {0} ELSE DOMAIN b.txs

Verified ==
    UNION {{[at |-> At(memory.digest[n], i),
             state |-> Staged(ProjectorAt(memory.digest, n - 1).state, memory.digest[n])[i]] :
                i \in Points(memory.digest[n])} : n \in DOMAIN memory.digest}

Committed ==
    UNION {{[at |-> At(b, i), tx |-> b.txs[i]] : i \in {j \in DOMAIN b.txs : b.txs[j].valid}} :
            b \in Range(memory.digest)}

\* Whatever happened to the file, an answer of the running projection is the
\* one the journal it verified gives: the state at that point, a VALID
\* transaction, the first write of a key, the committed writes.  A point of
\* another history gets no answer (verifyReplayTip, verifyStoredBlock,
\* verifyStoredTransaction, the journal digest).
AnswersTrue ==
    Ready =>
        /\ \A at \in Checkpoints : \A s \in Reads(Keys, at) : [at |-> at, state |-> s] \in Verified
        /\ \A s \in Reads(Keys, Now) : s = memory.projector.state
        /\ \A id \in {c.tx.id : c \in Committed} \union {b.txs[1].id : b \in {x \in Offered : x.txs # <<>>}} :
              \A at \in Receipt(id) : \E c \in Committed : c.at = at /\ c.tx.id = id
        /\ \A k \in Keys : \A at \in Creation(k) :
              \E c \in Committed :
                  /\ c.at = at /\ k \in DOMAIN c.tx.writes
                  /\ \A d \in Committed : k \in DOMAIN d.tx.writes =>
                        d.at.block > at.block \/ (d.at.block = at.block /\ d.at.index >= at.index)
        /\ \A after \in {0, 1} : \A e \in Events(after) :
              e = {[at |-> c.at, writes |-> c.tx.writes] : c \in {d \in Committed : d.at.block > after}}

\* Without damage nothing refuses: a stopped projection can start, and a
\* running one answers for every point, transaction and key of its journal,
\* after any commit, failed statement, redelivery, cached replay or crash
\* between the commit and the publication in memory.
NeverLockedOut ==
    hurt = {} =>
        /\ memory = None => Replays(journal)
        /\ Ready =>
              /\ \A v \in Verified : Reads(Keys, v.at) = {v.state}
              /\ Reads(Keys, Now) = {memory.projector.state}
              /\ \A c \in Committed : c.tx.id # "" => Receipt(c.tx.id) # {}
              /\ \A k \in Keys : memory.projector.state[k] # None => Creation(k) # {}
              /\ Events(0) # {}

\* A block readers were once served from is there after any crash and restart:
\* memory never runs ahead of the file (applyBlock publishes after COMMIT).
NothingSeenIsLost == Ready /\ "journal" \notin hurt => IsPrefix(seen, memory.digest)

\* A crash anywhere, a failed statement or a redelivered block neither takes back
\* what readers saw nor leaves a file that will not open (applyBlock, open).
RestartSound == TypeOK /\ NeverLockedOut /\ NothingSeenIsLost
====
