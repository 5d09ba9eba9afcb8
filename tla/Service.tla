-------------------------------- MODULE Service --------------------------------
(***************************************************************************)
(* What the API service reads and serves through: the adapter of the       *)
(* ledger, the browse index with its cache, vector search, the connection  *)
(* of the external index, and the client that uses what was resolved.      *)
(* They share no state but the ledger they read, so a behaviour plays one  *)
(* of them and the others stay in their initial state.                     *)
(***************************************************************************)
EXTENDS Integers, Sequences, FiniteSets

CONSTANTS
    Commands, Kind, Readers, MaxPending, MaxHeight, MaxResets, MaxSilent,      \* ApplicationLedger
    Keys, SlotKeys, SlotOfKey, MaxAt, Batches, MaxPrepared, MaxEntries,        \* BrowseIndex
    MaxRefs, MaxLarge,
    Listings, Rebuilds, MaxRevisions, Pinned, Candidates, MaxConcurrent,       \* VectorSearch
    MaxChanges,
    Searches, Writes, Closings, MaxOpened,                                     \* IndexConnection
    MaxWorld, MaxBoots, MaxRuns, MaxDamage,                                    \* KnowledgeUse
    None

VARIABLES
    part,
    height, recorded, projected, available, epoch, line, gate, pending, generation, calls,
    refreshes, inFlight, readers, sync, silent, closing, written, floor,
    published, list, prepared, committed, cache,
    head, external, rows, allowed, stopped, reader, rebuild, joined, changes,
    at, queue, using, opening, conns, noisy, limits, inTx, unsaved, saved, found,
    world, seen, boot, runs, altered, call, client

ledger == <<height, recorded, projected, available, epoch, line, gate, pending, generation, calls,
            refreshes, inFlight, readers, sync, silent, closing, written, floor>>
browse == <<published, list, prepared, committed, cache>>
search == <<head, external, rows, allowed, stopped, reader, rebuild, joined, changes>>
index == <<at, queue, using, opening, conns, noisy, limits, inTx, unsaved, saved, found>>
knowledge == <<world, seen, boot, runs, altered, call, client>>
vars == <<part, ledger, browse, search, index, knowledge>>

Ledger == INSTANCE ApplicationLedger

\* Calls are told apart from each other and from refreshes, which are numbered;
\* the absent value is none of them, and no outcome.
ASSUME LedgerAssumption ==
    /\ IsFiniteSet(Commands) /\ IsFiniteSet(Readers)
    /\ MaxPending \in Nat /\ MaxHeight \in Nat \ {0} /\ MaxResets \in Nat
    /\ Commands \intersect Readers = {} /\ None \notin Commands /\ None # "invalid"
    /\ \A p \in Commands \union {None} : p \notin Nat

Browse == INSTANCE BrowseIndex

\* A batch is of one checkpoint, counted from 1, and writes finitely many keys, which
\* compare as numbers do; a pool has room for a selection.
ASSUME BrowseAssumption ==
    /\ MaxAt \in Nat /\ Batches \subseteq [at : 1..MaxAt, keys : SUBSET Keys]
    /\ Keys \subseteq Int /\ \A b \in Batches : IsFiniteSet(b.keys)
    /\ MaxEntries \in Nat \ {0} /\ MaxRefs \in Nat /\ MaxLarge \in Nat

Search == INSTANCE VectorSearch WITH Readers <- Listings, inFlight <- joined

\* The placeholder is no list of revisions.
ASSUME SearchAssumption == None \notin Seq(Nat)

Index == INSTANCE IndexConnection WITH rows <- saved

\* A call is a search, a write or a close, and none of them is the absent one.
ASSUME IndexAssumption ==
    /\ MaxOpened \in Nat /\ None \notin 1..MaxOpened
    /\ None \notin Searches \union Writes \union Closings
    /\ Writes \intersect (Searches \union Closings) = {}

Knowledge == INSTANCE KnowledgeUse

Init ==
    /\ part \in {"ledger", "browse", "search", "index", "knowledge"}
    /\ Ledger!Init /\ Browse!Init /\ Search!Init /\ Index!Init /\ Knowledge!Init
    \* one initial state is enough for a part that is not played
    /\ part = "search" \/ ~external

Next ==
    \/ part = "ledger" /\ Ledger!Next /\ UNCHANGED <<part, browse, search, index, knowledge>>
    \/ part = "browse" /\ Browse!Next /\ UNCHANGED <<part, ledger, search, index, knowledge>>
    \/ part = "search" /\ Search!Next /\ UNCHANGED <<part, ledger, browse, index, knowledge>>
    \/ part = "index" /\ Index!Next /\ UNCHANGED <<part, ledger, browse, search, knowledge>>
    \/ part = "knowledge" /\ Knowledge!Next /\ UNCHANGED <<part, ledger, browse, search, index>>

Spec == Init /\ [][Next]_vars

------------------------------------------------------------------------------
(* Properties. *)

\* A refresh that answers tells the truth (refreshAt, catchUp).
RefreshTells == Ledger!RefreshTells

\* What was admitted is counted and waited for (serial, close).
NothingLeftBehind == Ledger!NothingLeftBehind

\* A page is the page of its checkpoint, and the pools of the cache do not cost
\* each other anything (select, publish, evict).
PagesTrue == Browse!PagesTrue

\* A listing is one list, nothing it needs is sent against the policy, and the
\* connection it is read through keeps the calls apart (vectorSearch,
\* EmbeddingRuntime.run, exclusive, connect).
SearchHonest == Search!SearchHonest /\ []Index!IndexSound

\* Knowledge is used only while it is current, and "valid" is said of what was
\* issued (guardedGeneration, revalidate).
UseIsCurrent == Knowledge!UseIsCurrent
================================================================================
